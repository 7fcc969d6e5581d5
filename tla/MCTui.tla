------------------------------- MODULE MCTui -------------------------------
(***************************************************************************)
(* Up to three domains, one of which may wrap, a denial list with headings *)
(* that is reordered and loses an entry, and one ruleset.                  *)
(***************************************************************************)
EXTENDS Tui

CONSTANTS d1, d2, d3, dd1, k1, k2, r1

Content(domains, denials, known) ==
  [Domains |-> domains, Denials |-> denials,
   Rulesets |-> IF known = {} THEN <<>> ELSE <<r1>>, ruleset_of |-> [d \in known |-> r1]]

MCContents ==
  {Content(<<>>, <<>>, {}),
   Content(<<d2, d3>>, <<dd1, Heading, k1, Heading, k2>>, {}),
   Content(<<d1, d2, d3>>, <<dd1, Heading, k2, Heading, k1>>, {d2, dd1}),
   Content(<<d3, d1, d2>>, <<dd1, Heading, k2>>, {d2, dd1})}
=============================================================================
