--------------------------------- MODULE Rows ---------------------------------
(***************************************************************************)
(* What the screens of lltop's interactive mode say of one observation     *)
(* model: the rows of the Domains, Denials and Rulesets tabs, the detail   *)
(* pane, the status line and the statistics of lltop/src/tui/ui.rs.        *)
(*                                                                         *)
(* The denials are listed in the order a HashMap happens to iterate them.  *)
(* Labels and targets are numbers that sort like the texts.                *)
(***************************************************************************)
EXTENDS DomainTree, Integers, SequencesExt, Wrap

CONSTANTS
  Rulesets,   \* the IDs of the retained rulesets
  MaxCount,   \* u64::MAX
  None

VARIABLE model

-----------------------------------------------------------------------------

\* sort_by with comparisons chained by then_with.
Precedes(a, b) == \E i \in DOMAIN a : a[i] < b[i] /\ \A j \in 1 .. i - 1 : a[j] = b[j]

SortBy(key) == SetToSortSeq(DOMAIN key, LAMBDA a, b : Precedes(key[a], key[b]))

Row(kind, of, says) == [kind |-> kind, of |-> of, says |-> says]

allocated(of) == Cardinality({id \in DOMAIN of : of[id].lifecycle = "Allocated"})

\* One piece for every level below the root.
tree_prefix(trail) ==
  [i \in 1 .. Len(trail) - 1 |->
     IF i = Len(trail) - 1 THEN IF trail[i + 1] THEN "corner" ELSE "branch"
     ELSE IF trail[i + 1] THEN "blank" ELSE "bar"]

domain_rows(m) ==
  [i \in DOMAIN output |->
     LET domain == m.domains[output[i][1]]
     IN Row("Domain", output[i][1],
            [lifecycle |-> domain.lifecycle,
             warning |-> <<domain.lifecycle, domain.no_new_privs>> = <<"Allocated", FALSE>>,
             prefix |-> tree_prefix(output[i][2])])]

total(m, entries) ==
  Min({MaxCount, MapThenSumSet(LAMBDA i : m.denials[i].count, entries)})

maximum(m, entries) == Max({m.denials[i].count : i \in entries})

DomainEntries(m, domain) == {i \in DOMAIN m.denials : m.denials[i].domain = domain}

Group_EveryDomain(m, domain, label) == {i \in DOMAIN m.denials : m.denials[i].blockers = label}

Group(m, domain, label) == {i \in DomainEntries(m, domain) : m.denials[i].blockers = label}

\* Domains by total, their groups by maximum and total, the entries of a group
\* by count, latest timestamp and target; equal ones stay as the map gave them.
denial_rows(m) ==
  LET group_rows(domain, label) ==
        LET entries == SortBy([i \in Group(m, domain, label) |->
              <<-m.denials[i].count, -m.denials[i].latest, m.denials[i].target, i>>])
        IN <<Row("Heading", label, None)>>
           \o [n \in DOMAIN entries |->
                 LET entry == m.denials[entries[n]]
                 IN Row("Denial", entry.key, [count |-> entry.count, target |-> entry.target])]
      domain_block(domain) ==
        LET labels == {m.denials[i].blockers : i \in DomainEntries(m, domain)}
            groups == SortBy([label \in labels |->
              <<-maximum(m, Group(m, domain, label)), -total(m, Group(m, domain, label)), label>>])
        IN <<Row("DenialDomain", domain, None)>>
           \o FlattenSeq([n \in DOMAIN groups |-> group_rows(domain, groups[n])])
      domains == SortBy([domain \in {m.denials[i].domain : i \in DOMAIN m.denials} |->
                          <<-total(m, DomainEntries(m, domain)), domain>>])
      blank(n) == IF n = 1 THEN <<>> ELSE <<Row("Heading", None, None)>>
  IN FlattenSeq([n \in DOMAIN domains |-> blank(n) \o domain_block(domains[n])])

\* The latest created first, those created before the collection last.
ruleset_rows(m) ==
  LET age(created) == IF created = None THEN 1 ELSE -created
      ids == SortBy([id \in Rulesets |-> <<age(m.rulesets[id].created), id>>])
      row(id) == Row("Ruleset", id,
                     [lifecycle |-> m.rulesets[id].lifecycle,
                      rules |-> Cardinality(m.rulesets[id].filesystem_rules)
                                + Cardinality(m.rulesets[id].network_rules)])
  IN [n \in DOMAIN ids |-> row(ids[n])]

status_line_EveryLifecycle(m) ==
  [domains |-> Cardinality(Domains), allocated |-> allocated(m.domains),
   warning |-> \E id \in Domains : m.domains[id].no_new_privs = FALSE]

status_line(m) ==
  [domains |-> Cardinality(Domains), allocated |-> allocated(m.domains),
   warning |-> \E id \in Domains :
                 m.domains[id].lifecycle = "Allocated" /\ m.domains[id].no_new_privs = FALSE]

draw_stats(m) ==
  [domains |-> <<allocated(m.domains), Cardinality(Domains)>>,
   rulesets |-> <<allocated(m.rulesets), Cardinality(Rulesets)>>]

-----------------------------------------------------------------------------

\* "Selection no longer retained".
NotRetained == <<>>

\* The objects of the rules under a line for each set of rights, both sorted;
\* rules for other objects may show the same text.
rule_lines(rules) ==
  LET rights == SetToSortSeq({rule.rights : rule \in rules}, <)
      objects(allowed) ==
        SortBy([rule \in {r \in rules : r.rights = allowed} |-> <<rule.object, rule.key>>])
      group(allowed) ==
        <<<<"allowed", allowed>>>>
        \o [n \in DOMAIN objects(allowed) |-> <<"object", objects(allowed)[n].object>>]
  IN FlattenSeq([n \in DOMAIN rights |-> group(rights[n])])

domain_detail(m, id) ==
  IF id \notin Domains THEN NotRetained
  ELSE LET domain == m.domains[id]
       IN <<<<"Status", domain.lifecycle>>,
            <<"no_new_privs",
              CASE domain.no_new_privs = None -> "unknown"
                [] domain.no_new_privs = TRUE -> "set"
                [] domain.no_new_privs = FALSE /\ domain.lifecycle = "Allocated" -> "WARNING"
                [] OTHER -> "historical">>>>
          \o IF domain.ruleset = None THEN <<>> ELSE <<<<"[Enter]", domain.ruleset>>>>

denial_detail(m, key) ==
  LET entries == SelectSeq(m.denials, LAMBDA entry : entry.key = key)
  IN IF entries = <<>> THEN NotRetained
     ELSE <<<<"Domain", Head(entries).domain>>, <<"Blocked", Head(entries).blockers>>,
            <<"Target", Head(entries).target>>, <<"Count", Head(entries).count>>>>

ruleset_detail(m, id) ==
  IF id \notin Rulesets THEN NotRetained
  ELSE <<<<"Status", m.rulesets[id].lifecycle>>>>
       \o rule_lines(m.rulesets[id].filesystem_rules) \o rule_lines(m.rulesets[id].network_rules)

\* The fields for a selected row.
detail_lines(m, kind, of) ==
  CASE kind \in {"Domain", "DenialDomain"} -> domain_detail(m, of)
    [] kind = "Denial" -> denial_detail(m, of)
    [] kind = "Ruleset" -> ruleset_detail(m, of)
    [] OTHER -> NotRetained

\* A frame that is drawn from the model m.
Frame(m) == model = m /\ Init

RowsNext == Next /\ UNCHANGED model
-----------------------------------------------------------------------------

\* The lines of the tree in the first columns of the Domains tab meet: where
\* parents form trees, a line that leaves a row downwards is taken up by the
\* next row, and a row takes up only lines of the row above or its own
\* parent's, so that the drawing is the listing's tree (TreeOrder).
TreeDrawn ==
  /\ TreeOrder
  /\ Done =>
       LET rows == domain_rows(model)
           piece(i, c) == IF i \in DOMAIN rows /\ c \in DOMAIN rows[i].says.prefix
                          THEN rows[i].says.prefix[c] ELSE "none"
           leaves(i, c) == piece(i, c) \in {"bar", "branch"}
           enters(i, c) == leaves(i, c) \/ piece(i, c) = "corner"
           trees == UNION {Subtree(r) : r \in {d \in Domains : parent[d] \notin Domains}}
       IN trees = Domains =>
            \A i \in DOMAIN rows, c \in 1 .. Cardinality(Domains) :
              /\ leaves(i, c) => enters(i + 1, c)
              /\ enters(i + 1, c) => leaves(i, c) \/ c = Len(rows[i].says.prefix) + 1

\* The Denials tab shows every retained denial once, beneath the row of its
\* domain and the heading of its blocked access, and repeats no domain and no
\* heading of a domain, whatever order the map iterates in.  "Groups and
\* targets prioritize impact and recency" (lltop/README.md): domains by their
\* saturated totals, the accesses of a domain by their most frequent denial,
\* which comes first, and equally frequent denials by recency.
DenialsListed ==
  Done =>
    LET rows == denial_rows(model)
        places(kind) == {i \in DOMAIN rows : rows[i].kind = kind}
        above(i, kind) == rows[Max({j \in places(kind) : j <= i})].of
        entry(i) == model.denials[CHOOSE n \in DOMAIN model.denials :
                                    model.denials[n].key = rows[i].of]
        sum(domain) == total(model, DomainEntries(model, domain))
        together(i, j) == above(i, "DenialDomain") = above(j, "DenialDomain")
    IN /\ \A n \in DOMAIN model.denials :
            \E i \in places("Denial") :
              {j \in places("Denial") : rows[j].of = model.denials[n].key} = {i}
       /\ \A i \in places("Denial") :
            /\ entry(i).domain = above(i, "DenialDomain")
            /\ entry(i).blockers = above(i, "Heading")
            /\ \A j \in places("Denial") :
                 (i < j /\ together(i, j) /\ above(i, "Heading") = above(j, "Heading")) =>
                   \/ entry(i).count > entry(j).count
                   \/ entry(i).count = entry(j).count /\ entry(i).latest >= entry(j).latest
       /\ \A i, j \in places("DenialDomain") :
            i < j => rows[i].of # rows[j].of /\ sum(rows[i].of) >= sum(rows[j].of)
       /\ \A i, j \in {k \in places("Heading") : rows[k].of # None} :
            (i < j /\ together(i, j)) =>
              rows[i].of # rows[j].of /\ entry(i + 1).count >= entry(j + 1).count

\* The screens of one model agree: the status line and the statistics count
\* the rows a reader can count; the status line warns of missing no_new_privs
\* if and only if some domain's row does, and a row does if and only if its
\* details do; a ruleset's row counts the objects its details list; a denial's
\* row shows the count and the target of its details; and no row that can be
\* selected finds its object gone.
ScreensAgree ==
  Done =>
    LET domains == domain_rows(model)
        rulesets == ruleset_rows(model)
        all == Range(domains) \cup Range(denial_rows(model)) \cup Range(rulesets)
        details(row) == Range(detail_lines(model, row.kind, row.of))
        alive(rows) == Len(SelectSeq(rows, LAMBDA row : row.says.lifecycle = "Allocated"))
        counted(rows) == <<alive(rows), Len(rows)>>
        objects(row) == SelectSeq(detail_lines(model, row.kind, row.of),
                                  LAMBDA line : line[1] = "object")
    IN /\ <<status_line(model).allocated, status_line(model).domains>> = counted(domains)
       /\ draw_stats(model) = [domains |-> counted(domains), rulesets |-> counted(rulesets)]
       /\ status_line(model).warning <=> \E row \in Range(domains) : row.says.warning
       /\ \A row \in Range(domains) :
            row.says.warning <=> <<"no_new_privs", "WARNING">> \in details(row)
       /\ \A row \in Range(rulesets) : row.says.rules = Len(objects(row))
       /\ \A row \in Range(denial_rows(model)) :
            row.kind = "Denial" =>
              {<<"Count", row.says.count>>, <<"Target", row.says.target>>} \subseteq details(row)
       /\ \A row \in all : row.kind # "Heading" => details(row) # {}

\* Lines lose no character of a row or of a field, take at least one each but
\* the last, and break inside a word only where the line holds no separator:
\* "wrapping_prefers_semantic_boundaries" (lltop/src/tui/format.rs).  The last
\* line is within the area; another one is wider only if it is a single
\* character, or by the cells emoji selectors add, which the cut overlooks.
LinesReadable ==
  Done =>
    LET t == model.text
        width_of(line) == line.before + display_width(line.text)
        selectors(line) == Len(SelectSeq(line.text, LAMBDA c : c = "selector"))
        readable(lines, width) ==
          /\ FlattenSeq([n \in DOMAIN lines |-> lines[n].text]) = t.text
          /\ width_of(Last(lines)) <= width
          /\ \A n \in 1 .. Len(lines) - 1 :
               /\ width_of(lines[n]) <= width + selectors(lines[n]) \/ Len(lines[n].text) = 1
               /\ lines[n].text # <<>>
               /\ \/ Last(lines[n].text) \in {" ", "/"}
                  \/ Range(lines[n].text) \cap {" ", "/"} = {}
    IN /\ t.width > 0 => readable(list_lines(t.text, t.indent, t.width), t.width)
       /\ t.width > t.indent => readable(field_lines(t.indent, t.text, t.width), t.width)
=============================================================================
