------------------------------ MODULE DomainTree ------------------------------
(***************************************************************************)
(* ObservationModel::domain_tree of lltop/src/tui/model.rs: the domains in *)
(* the order of the tree of their parents, each with the last-child bits   *)
(* of its ancestors.  Parents are facts learned from events: they may be   *)
(* unknown, not retained, or form cycles.                                  *)
(***************************************************************************)
EXTENDS Naturals, Sequences, FiniteSets

CONSTANTS
  Domains,   \* the IDs of the retained domains
  Others     \* what else a parent may be: unknown, the root, an ID not retained

ASSUME DomainsAssumption == Domains \subseteq Nat /\ IsFiniteSet(Domains)

VARIABLES
  parent,     \* DomainState::parent of each domain
  roots,      \* roots not yet visited
  remaining,  \* domains not yet looked at after the roots
  pending,    \* the stack of append
  visited,    \* the set of append
  output      \* the result so far

vars == <<parent, roots, remaining, pending, visited, output>>

LOCAL INSTANCE SequencesExt

-----------------------------------------------------------------------------

\* Children are sorted by ID; a domain without a retained parent is a root.
Roots(parents) == SetToSortSeq({d \in Domains : parents[d] \notin Domains}, <)

Children(id) == SetToSortSeq({d \in Domains : parent[d] = id}, <)

ChildEntries_Forward(id, trail) ==
  LET children == Children(id)
  IN [i \in DOMAIN children |-> <<children[i], Append(trail, i = Len(children))>>]

\* The children are pushed last to first, to be popped first to last.
ChildEntries(id, trail) ==
  LET children == Children(id)
  IN Reverse([i \in DOMAIN children |-> <<children[i], Append(trail, i = Len(children))>>])

\* One turn of append's loop.
PopEntry ==
  LET entry == Last(pending)
  IN IF entry[1] \in visited
     THEN pending' = Front(pending) /\ UNCHANGED <<visited, output>>
     ELSE /\ visited' = visited \cup {entry[1]}
          /\ output' = Append(output, entry)
          /\ pending' = Front(pending) \o ChildEntries(entry[1], entry[2])

Visit ==
  /\ pending # <<>>
  /\ PopEntry
  /\ UNCHANGED <<parent, roots, remaining>>

StartRoot ==
  /\ pending = <<>> /\ roots # <<>>
  /\ pending' = <<<<Head(roots), <<Len(roots) = 1>>>>>>
  /\ roots' = Tail(roots)
  /\ UNCHANGED <<parent, remaining, visited, output>>

Begun_Never(id) == <<>>

\* append for a domain no root leads to: it is on a cycle or below one.
Begun(id) == IF id \in visited THEN <<>> ELSE <<<<id, <<TRUE>>>>>>

StartRemaining ==
  /\ pending = <<>> /\ roots = <<>> /\ remaining # <<>>
  /\ pending' = Begun(Head(remaining))
  /\ remaining' = Tail(remaining)
  /\ UNCHANGED <<parent, roots, visited, output>>

Done == pending = <<>> /\ roots = <<>> /\ remaining = <<>>

Returned == Done /\ UNCHANGED vars

Init ==
  /\ parent \in [Domains -> Domains \cup Others]
  /\ roots = Roots(parent)
  /\ remaining = SetToSortSeq(Domains, <)
  /\ pending = <<>> /\ visited = {} /\ output = <<>>

Next == Visit \/ StartRoot \/ StartRemaining \/ Returned

Spec == Init /\ [][Next]_vars /\ WF_vars(Next)
-----------------------------------------------------------------------------

Id(i) == output[i][1]
Trail(i) == output[i][2]

\* The loops end, also for cyclic parents; no domain is put out twice, and in
\* the end every retained one was, whatever is known of its parents: "Partial
\* late-start objects ... remain visible" (lltop/README.md).
ListingComplete ==
  /\ [](\A i, j \in DOMAIN output : Id(i) = Id(j) => i = j)
  /\ <>(Done /\ {Id(i) : i \in DOMAIN output} = Domains)

\* A domain and all that descend from it.
Subtree(id) ==
  LET below[n \in 0 .. Cardinality(Domains)] ==
        IF n = 0 THEN {id} ELSE below[n - 1] \cup {d \in Domains : parent[d] \in below[n - 1]}
  IN below[Cardinality(Domains)]

\* Where parents form a tree, its listing is the preorder a reader can take
\* the tree from: the subtree of a domain is the block of lines that starts
\* with it, siblings are in ID order, and the trail extends the parent's trail
\* by whether no sibling follows.
TreeOrder ==
  Done =>
    \A i \in DOMAIN output :
      (\E r \in Domains : parent[r] \notin Domains /\ Id(i) \in Subtree(r)) =>
        /\ Subtree(Id(i)) = {Id(j) : j \in i .. i + Cardinality(Subtree(Id(i))) - 1}
        /\ \A j \in DOMAIN output :
             /\ Id(j) = parent[Id(i)] =>
                  /\ Front(Trail(i)) = Trail(j)
                  /\ Last(Trail(i)) <=>
                       ~ \E k \in i + 1 .. Len(output) : parent[Id(k)] = parent[Id(i)]
             /\ (parent[Id(j)] = parent[Id(i)] /\ Id(i) < Id(j)) => i < j
=============================================================================
