------------------------------ MODULE Extract -------------------------------
(***************************************************************************)
(* What knowledge-builder makes of one raw record: the extractor that the  *)
(* kind of its source selects, the entities and edges it returns, and the  *)
(* three rollups computed from the entities.  Pure operators, used by      *)
(* Server.                                                                 *)
(*                                                                         *)
(* A raw record is a function from the field names it has to values; a     *)
(* value is a text, a dict that has a name (or a location), a number, or a *)
(* numeral, a text that float() reads.  A blank text, and a dict that      *)
(* names nothing, have the text "".  Records and entities carry the        *)
(* venture they belong to.                                                 *)
(***************************************************************************)
EXTENDS Integers, Sequences, SequencesExt, FiniteSetsExt

CONSTANT Tone   \* per text, positive less negative words in it, as a sign

Text(x)   == [kind |-> "text", text |-> x, num |-> 0]
Named(x)  == [kind |-> "dict", text |-> x, num |-> 0]
Number(n) == [kind |-> "number", text |-> "", num |-> n]
Numeral(x, n) == [kind |-> "numeral", text |-> x, num |-> n]
Unset     == [kind |-> "none", text |-> "", num |-> 0]
Nothing   == [f \in {} |-> Unset]       \* the empty dict

TitleKeys    == <<"title", "text", "name", "headline">>
CompanyKeys  == <<"company", "company_name", "organization", "org">>
DeptKeys     == <<"department", "dept", "team">>
LocationKeys == <<"location", "city", "office">>
ProductKeys  == <<"product", "product_name", "app", "service", "feature">>
RatingKeys   == <<"rating", "score", "stars">>
BodyKeys     == <<"body", "text", "review", "content", "comment", "message">>

Or(x, y) == IF x # "" THEN x ELSE y     \* Python's "or" on texts

\* _first: the first alias, in order, whose value says something.
First(raw, keys) ==
  LET named == {i \in DOMAIN keys :
                  /\ keys[i] \in DOMAIN raw
                  /\ raw[keys[i]].kind \in {"text", "dict", "numeral"}
                  /\ raw[keys[i]].text # ""}
  IN IF named = {} THEN "" ELSE raw[keys[Min(named)]].text

Company(rec) ==
  Or(First(rec.raw, CompanyKeys),
     IF "_company" \in DOMAIN rec.raw THEN rec.raw["_company"].text ELSE "")

\* Lever nests department and location one level down.
Grouped(rec, keys) == Or(First(rec.raw, keys), First(rec.categories, keys))

Id(rec, type, key) == <<rec.ven, type, key>>
Own(rec)           == <<rec.source, rec.ext>>        \* "{source}:{external}"

Entity(id, props)   == [id |-> id, props |-> props]
Edge(type, src, dst) == [type |-> type, src |-> src, dst |-> dst]

\* A plausible bug: an edge to a dimension that has no entity.
DimensionUnnamed(rec, type, name, edge) ==
  [ents  |-> <<>>, edges |-> IF name = "" THEN {} ELSE {edge}]

\* A dimension the record names becomes an entity of its own and an edge.
Dimension(rec, type, name, edge) ==
  IF name = "" THEN [ents |-> <<>>, edges |-> {}]
  ELSE [ents  |-> <<Entity(Id(rec, type, <<name>>), <<>>)>>,
        edges |-> {edge}]

\* StructuralExtractor.extract
ExtractJob(rec) ==
  LET job  == Id(rec, "Job", Own(rec))
      co   == Company(rec)
      dept == Grouped(rec, DeptKeys)
      loc  == Grouped(rec, LocationKeys)
      c == Dimension(rec, "Company", co, Edge("posts", Id(rec, "Company", <<co>>), job))
      d == Dimension(rec, "Department", dept,
                     Edge("in_department", job, Id(rec, "Department", <<dept>>)))
      l == Dimension(rec, "Location", loc,
                     Edge("in_location", job, Id(rec, "Location", <<loc>>)))
  IN [ents  |-> <<Entity(job, [title |-> Or(First(rec.raw, TitleKeys), rec.ext),
                               company |-> co, department |-> dept, location |-> loc])>>
                  \o c.ents \o d.ents \o l.ents,
      edges |-> c.edges \cup d.edges \cup l.edges]

\* classify_sentiment: a rating of 1 to 5 decides when there is one, be it a number
\* or a text that is one.
Sentiment(rating, body) ==
  IF rating.kind \in {"number", "numeral"}
  THEN CASE rating.num <= 2 -> "negative"
         [] rating.num >= 4 -> "positive"
         [] OTHER           -> "neutral"
  ELSE CASE Tone[body] < 0 -> "negative"
         [] Tone[body] > 0 -> "positive"
         [] OTHER          -> "neutral"

\* The first rating key the record has, whatever its value.
Rating(raw) ==
  LET has == {i \in DOMAIN RatingKeys : RatingKeys[i] \in DOMAIN raw}
  IN IF has = {} THEN Unset ELSE raw[RatingKeys[Min(has)]]

\* ReviewExtractor.extract
ExtractReview(rec) ==
  LET review  == Id(rec, "Review", Own(rec))
      co      == Company(rec)
      product == First(rec.raw, ProductKeys)
      c == Dimension(rec, "Company", co, Edge("reviewed", review, Id(rec, "Company", <<co>>)))
      p == Dimension(rec, "Product", product,
                     Edge("about_product", review, Id(rec, "Product", <<product>>)))
  IN [ents  |-> <<Entity(review, [company |-> co, product |-> product,
                    sentiment |-> Sentiment(Rating(rec.raw), First(rec.raw, BodyKeys))])>>
                  \o c.ents \o p.ents,
      edges |-> c.edges \cup p.edges]

\* _extractor_for_kind
ExtractAs(kind, rec) ==
  IF kind \in {"review-feed", "reviews", "ratings"}
  THEN ExtractReview(rec) ELSE ExtractJob(rec)

-----------------------------------------------------------------------------
\* InMemoryKnowledgeStore.upsert_entities: new props win, the latest last; old
\* ones stay.
Merge(graph, ents) ==
  LET old(i) == IF i \in DOMAIN graph THEN DOMAIN graph[i] ELSE {}
      new(i) == {k \in DOMAIN ents : ents[k].id = i}
      ids    == DOMAIN graph \cup {ents[k].id : k \in DOMAIN ents}
  IN [i \in ids |->
       [p \in old(i) \cup UNION {DOMAIN ents[k].props : k \in new(i)} |->
         LET says == {k \in new(i) : p \in DOMAIN ents[k].props}
         IN IF says = {} THEN graph[i][p] ELSE ents[Max(says)].props[p]]]

\* InMemoryKnowledgeStore.entities
OfType(graph, ven, type) == {i \in DOMAIN graph : i[1] = ven /\ i[2] = type}

CompanyOf(graph, i) == Or(graph[i].company, "(unknown)")

\* _refresh_views: who has open roles, and how each company is reviewed.
OpenRoles(graph, ven) ==
  LET jobs == OfType(graph, ven, "Job")
  IN [c \in {CompanyOf(graph, j) : j \in jobs} |->
       LET own == {j \in jobs : CompanyOf(graph, j) = c}
       IN [roles |-> Cardinality(own), titles |-> {graph[j].title : j \in own} \ {""}]]

Catalog(graph, ven) == [j \in OfType(graph, ven, "Job") |-> graph[j]]

Reviewed(graph, ven) ==
  LET reviews == OfType(graph, ven, "Review")
  IN [c \in {CompanyOf(graph, r) : r \in reviews} |->
       [s \in {"negative", "neutral", "positive"} |->
         Cardinality({r \in reviews : CompanyOf(graph, r) = c /\ graph[r].sentiment = s})]]

\* negative_ratio >= 0.5, the ratio rounded to three digits.
MostlyNegative(row) ==
  2000 * row.negative >= 999 * (row.negative + row.neutral + row.positive)
=============================================================================
