------------------------------- MODULE MCRows ---------------------------------
(***************************************************************************)
(* Observation models for Rows: each part of a model takes all its values  *)
(* while the others keep one.                                              *)
(***************************************************************************)
EXTENDS Rows

Entries(counts, others) ==
  [domain : {1, 2}, blockers : {1, 2}, count : counts, latest : others, target : others]

WithKeys(entries) ==
  [i \in DOMAIN entries |-> [key |-> i] @@ entries[i]]

DenialLists ==
  {<<>>}
  \cup {WithKeys(e) : e \in [1 .. 2 -> Entries({1, 2}, {1, 2})]}
  \cup {WithKeys(e) : e \in [1 .. 3 -> Entries({1, 2, MaxCount}, {1})]}
  \cup {WithKeys(e) : e \in [1 .. 4 -> Entries({1, 2}, {1})]}

Domain(lifecycle, no_new_privs, ruleset) ==
  [lifecycle |-> lifecycle, no_new_privs |-> no_new_privs, ruleset |-> ruleset]

DomainFacts ==
  [Domains -> {Domain(l, n, None) : l \in {"Allocated", "Deallocated"}, n \in {TRUE, FALSE, None}}]

Rules == {[key |-> 1, rights |-> 1, object |-> 2], [key |-> 2, rights |-> 1, object |-> 1],
          [key |-> 3, rights |-> 2, object |-> 1], [key |-> 4, rights |-> 1, object |-> 1]}

RulesetFacts ==
  [Rulesets -> [created : {None, 1, 2}, lifecycle : {"Allocated", "Deallocated"},
                filesystem_rules : {{}, Rules}, network_rules : {{}}]]
  \cup [Rulesets -> [created : {1}, lifecycle : {"Allocated"},
                     filesystem_rules : SUBSET Rules, network_rules : {{}, {CHOOSE r \in Rules : r.key = 3}}]]

Texts ==
  [text : UNION {[1 .. n -> {"a", "wide", "mark", "symbol", "selector", "tone", ",", " ", "/"}] :
                   n \in 0 .. 2}
          \cup [1 .. 3 -> {"a", "wide", "mark", ",", " ", "/"}]
          \cup [1 .. 3 -> {"wide", "symbol", "selector", "tone", " "}]
          \cup [1 .. 4 -> {"symbol", "selector", " "}]
          \cup [1 .. 5 -> {"a", ",", " "}],
   indent : {0, 2}, width : 0 .. 4]

Usual ==
  [denials |-> <<[key |-> 1, domain |-> 4, blockers |-> 1, count |-> 1, latest |-> 1, target |-> 1]>>,
   domains |-> [d \in Domains |-> Domain("Allocated", TRUE, 1)],
   rulesets |-> [r \in Rulesets |-> [created |-> 1, lifecycle |-> "Allocated",
                                     filesystem_rules |-> Rules, network_rules |-> {}]],
   text |-> [text |-> <<>>, indent |-> 0, width |-> 1]]

Flat == [d \in Domains |-> 0]

\* Every combination of parents with one model, every model with one tree.
MCInit ==
  \/ Frame(Usual)
  \/ parent = Flat /\ \E d \in DenialLists : Frame([Usual EXCEPT !.denials = d])
  \/ parent = Flat /\ \E d \in DomainFacts : Frame([Usual EXCEPT !.domains = d])
  \/ parent = Flat /\ \E r \in RulesetFacts : Frame([Usual EXCEPT !.rulesets = r])
  \/ parent = Flat /\ \E t \in Texts : Frame([Usual EXCEPT !.text = t])

MCSpec == MCInit /\ [][RowsNext]_<<vars, model>> /\ WF_<<vars, model>>(RowsNext)
=============================================================================
