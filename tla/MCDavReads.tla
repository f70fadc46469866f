------------------------------ MODULE MCDavReads ------------------------------
(* Three names (one ends with another), contents due at different times and  *)
(* documents that reach every branch of the readers.  Of the ranges, one has *)
(* b2 inside and ends when b1 is due, one starts when b1 is due, one is      *)
(* empty and one ends on the 30th of February.                               *)
EXTENDS DavReads, TLC

CONSTANTS na, xna, nb, b1, b2

MCKindOf == (na :> "contact") @@ (xna :> "contact") @@ (nb :> "task")
MCSuffixesOf == (na :> {na}) @@ (xna :> {xna, na}) @@ (nb :> {nb})

At(form, d, h) == [form |-> form, year |-> 2024, month |-> 2, day |-> d,
                   hour |-> h, minute |-> 0, second |-> 0]

MCDueOf == (b1 :> {At("time", 29, 10)}) @@ (b2 :> {At("date", 28, 0)})
MCWordsOf == (b1 :> {}) @@ (b2 :> {})
MCPartsOf == (b1 :> {"VTODO"}) @@ (b2 :> {})

MCPropDocs ==
  {[wellFormed |-> TRUE, form |-> "prop", names |-> {"getetag", "getlastmodified"}],
   [wellFormed |-> FALSE, form |-> "allprop", names |-> {}]}

Doc(root, area) ==
  [root |-> root, area |-> area, wellFormed |-> TRUE, bareFilter |-> FALSE,
   hrefs |-> {}, props |-> {}, filters |-> {}, parts |-> {}]

Href(n, area) == [name |-> n, area |-> area]

Multiget(area, names) ==
  [Doc("multiget", area) EXCEPT !.hrefs = {Href(n, area) : n \in names}]

Query(area, filter) == [Doc("query", area) EXCEPT !.filters = {filter}]

DueRange(start, end) == [prop |-> "DUE", text |-> {}, start |-> start, end |-> end]

MCReportDocs ==
  {Doc("empty", "task"), Doc("other", "task"),
   [Doc("query", "contact") EXCEPT !.props = {"getetag", "data", "colour"}],
   [Doc("query", "contact") EXCEPT !.bareFilter = TRUE],
   [Doc("query", "task") EXCEPT !.wellFormed = FALSE],
   [Doc("query", "task") EXCEPT !.parts = {"VEVENT"}],
   Multiget("contact", {na, xna}), Multiget("contact", {xna}),
   [Doc("multiget", "contact") EXCEPT !.hrefs = {Href(na, "task"), Href(na, "contact")}],
   Query("contact", DueRange({At("date", 29, 0)}, {})),
   Query("task", DueRange({At("date", 27, 0)}, {At("time", 29, 10)})),
   Query("task", DueRange({At("time", 29, 10)}, {At("date", 29, 0)})),
   Query("task", DueRange({At("time", 29, 10)}, {At("date", 30, 0)})),
   Query("task", DueRange({At("time", 29, 10)}, {[At("date", 1, 0) EXCEPT !.month = 3]}))}
    \cup {Query("contact", [prop |-> "UID", text |-> {u}, start |-> {}, end |-> {}]) : u \in Uids}

UidSymmetry == Permutations(Uids)
=============================================================================
