----------------------------- MODULE TuiProofs ------------------------------
(***************************************************************************)
(* Theorems about Tui for all contents of the observation model, all       *)
(* heights and widths of the list area and every sequence of inputs.       *)
(***************************************************************************)
EXTENDS Tui, FiniteSetTheorems, SequenceTheorems, WellFoundedInduction, TLAPS

-----------------------------------------------------------------------------
(* The terminal session.                                                    *)

\* Every mode the terminal is in is armed, and those whose turn in the drop is
\* over are off unless their reset failed.
SessionInv ==
  /\ terminal \subseteq session /\ session \subseteq Modes
  /\ phase \in {"drop_alternate", "drop_raw", "gone"} => "mouse" \notin terminal \ failed
  /\ phase \in {"drop_raw", "gone"} => "alternate" \notin terminal \ failed
  /\ phase = "gone" => "raw" \notin terminal \ failed

LEMMA SessionStep == SessionInv /\ [Next]_vars => SessionInv'
<1> SUFFICES ASSUME SessionInv, [Next]_vars PROVE SessionInv'
  OBVIOUS
<1>1. CASE EnterRaw
  BY Zenon, <1>1 DEF EnterRaw, SessionInv, Modes
<1>2. CASE EnterAlternate
  BY Zenon, <1>2 DEF EnterAlternate, Armed, SessionInv, Modes
<1>3. CASE EnterMouse
  BY <1>3 DEF EnterMouse, Armed, SessionInv, Modes
<1>4. CASE DropSession
  <2>1. CASE Restore("mouse", "drop_mouse", "drop_alternate")
    BY <2>1 DEF Restore, SessionInv, Modes
  <2>2. CASE Restore("alternate", "drop_alternate", "drop_raw")
    BY <2>2 DEF Restore, SessionInv, Modes
  <2>3. CASE Restore("raw", "drop_raw", "gone")
    BY <2>3 DEF Restore, SessionInv, Modes
  <2> QED
    BY <1>4, <2>1, <2>2, <2>3 DEF DropSession
<1>5. ASSUME UNCHANGED guard,
             phase' = phase \/ phase' \in {"drop_mouse", "collect", "draw", "input"}
      PROVE  SessionInv'
  BY <1>5 DEF SessionInv, guard
<1>6. CASE Leave
  BY <1>5, <1>6 DEF Leave
<1>7. CASE Collect
  BY <1>5, <1>7 DEF Collect
<1>8. CASE Draw
  BY <1>5, <1>8 DEF Draw
<1>9. CASE Input
  BY <1>5, <1>9 DEF Input, NoInput, CloseDetail, SelectTab, TogglePause, MoveSelection,
    FollowDomain, Wheel, PressScrollbar, DragScrollbar, ReleaseScrollbar, ClickRow, Reading, Handled
<1>10. CASE Quit
  BY <1>5, <1>10 DEF Quit, Reading
<1>11. CASE UNCHANGED vars
  BY <1>5, <1>11 DEF vars, guard
<1> QED
  BY <1>1, <1>2, <1>3, <1>4, <1>6, <1>7, <1>8, <1>9, <1>10, <1>11 DEF Next

\* Every way out of the loop, a failure to enter any of the modes or to reset
\* another one included, leaves the terminal in no mode but one whose own reset
\* failed (TerminalSession).
THEOREM TerminalAlwaysRestored == Spec => []TerminalRestored
<1>1. Init => SessionInv
  BY DEF Init, SessionInv
<1>2. SessionInv => TerminalRestored
  BY DEF SessionInv, Modes, TerminalRestored
<1> QED
  BY <1>1, <1>2, SessionStep, PTL DEF Spec

-----------------------------------------------------------------------------
(* Positions.                                                               *)

LEMMA MinIn ==
  ASSUME NEW S, S \subseteq Nat, S # {}
  PROVE  Min(S) \in S /\ \A j \in S : Min(S) <= j
<1> DEFINE R == OpToRel(<, Nat)
<1>1. \A i, j \in Nat : i < j => <<i, j>> \in R
  BY DEF OpToRel
<1>2. IsWellFoundedOn(R, Nat)
  BY NatLessThanWellFounded
<1> HIDE DEF R
<1>3. PICK n \in S : \A j \in S : ~(<<j, n>> \in R)
  BY Zenon, <1>2, WFMin
<1>4. ASSUME NEW j \in S PROVE n <= j
  <2>1. n \in Nat /\ j \in Nat /\ ~(<<j, n>> \in R)
    BY <1>3
  <2>2. ~(j < n)
    BY <1>1, <2>1
  <2> QED
    BY <2>1, <2>2
<1> QED
  BY Zenon, <1>4 DEF Min

LEMMA MaxIn ==
  ASSUME NEW n \in Nat, NEW S, S \subseteq 1 .. n, S # {}
  PROVE  Max(S) \in S
<1> DEFINE B == {i \in Nat : \A j \in S : j <= i}
           i == Min(B)
<1>1. n \in B /\ B \subseteq Nat
  OBVIOUS
<1>2. i \in B /\ \A j \in B : i <= j
  BY <1>1, MinIn
<1> HIDE DEF i
<1>3. i \in S
  <2> SUFFICES ASSUME i \notin S PROVE FALSE
    OBVIOUS
  <2>0. PICK j \in S : TRUE
    BY Zenon
  <2>1. j \in Nat /\ 1 <= j /\ j <= i
    BY <1>2, <2>0
  <2>2. i \in Nat /\ i # 0
    BY <1>2, <2>1
  <2>3. \A m \in S : m <= i - 1
    BY <1>2, <2>2
  <2>4. i - 1 \in B
    BY <2>2, <2>3
  <2> QED
    BY <1>2, <2>2, <2>4
<1>4. \A j \in S : i >= j
  BY <1>2
<1> QED
  BY Zenon, <1>3, <1>4 DEF Max

\* Wrapping makes lines of the rows' kinds, and of no others.
LEMMA WrappedLines ==
  ASSUME NEW rows, rows \in Seq(Range(rows)), NEW narrow \in BOOLEAN
  PROVE  /\ Wrapped(rows, narrow) \in Seq(Range(rows))
         /\ Range(Wrapped(rows, narrow)) \subseteq Range(rows)
<1> DEFINE n == Len(rows)
           last(i) == LastLine(rows, narrow, i)
           lines == Wrapped(rows, narrow)
<1>1. n \in Nat /\ DOMAIN rows = 1 .. n
  OBVIOUS
<1>2. ASSUME NEW i \in Nat PROVE last(i) \in Nat
  <2>1. IsFiniteSet(1 .. i)
    BY FS_Interval
  <2>2. IsFiniteSet({j \in 1 .. i : narrow /\ rows[j] \in Wide})
    BY <2>1, FS_Subset
  <2>3. Cardinality({j \in 1 .. i : narrow /\ rows[j] \in Wide}) \in Nat
    BY <2>2, FS_CardinalityType
  <2> QED
    BY <2>3 DEF LastLine
<1>3. n = 0 => last(n) = 0
  <2> SUFFICES ASSUME n = 0 PROVE last(n) = 0
    OBVIOUS
  <2>1. {j \in 1 .. n : narrow /\ rows[j] \in Wide} = {}
    BY <1>1
  <2> QED
    BY <1>1, <2>1, FS_EmptySet DEF LastLine
<1>4. ASSUME NEW line \in 1 .. last(n)
      PROVE  Min({i \in DOMAIN rows : line <= last(i)}) \in DOMAIN rows
  <2> DEFINE S == {i \in DOMAIN rows : line <= last(i)}
  <2> HIDE DEF last
  <2>1. n # 0
    BY <1>1, <1>3
  <2>2. n \in S /\ S \subseteq Nat
    <3>1. n \in DOMAIN rows /\ last(n) \in Nat
      BY <1>1, <1>2, <2>1
    <3>2. line <= last(n)
      BY <3>1
    <3> QED
      BY <1>1, <3>1, <3>2
  <2>3. Min(S) \in S
    BY <2>2, MinIn
  <2> QED
    BY <2>3
<1>5. lines = [line \in 1 .. last(n) |-> rows[Min({i \in DOMAIN rows : line <= last(i)})]]
  BY DEF Wrapped
<1> HIDE DEF last, lines
<1>6. DOMAIN lines = 1 .. last(n) /\ last(n) \in Nat
  BY <1>1, <1>2, <1>5
<1>7. \A line \in 1 .. last(n) : lines[line] \in Range(rows)
  BY SMTT(20), <1>4, <1>5 DEF Range
<1>8. lines \in [1 .. last(n) -> Range(rows)]
  BY <1>5, <1>7
<1>9. lines \in Seq(Range(rows))
  BY <1>6, <1>8
<1>10. Range(lines) \subseteq Range(rows)
  BY <1>6, <1>7 DEF Range
<1> QED
  BY <1>9, <1>10 DEF lines

\* A key press goes to a line that is listed and no heading.
LEMMA NextListed ==
  ASSUME hit.rows \in Seq(Range(hit.rows)), Selectable # {}, NEW up \in BOOLEAN
  PROVE  NextIndex(up) \in DOMAIN hit.rows /\ hit.rows[NextIndex(up)] # Heading
<1> DEFINE n == Len(hit.rows)
           places == {i \in Selectable : hit.rows[i] = selected}
           beyond == {i \in Selectable : IF up THEN i < Min(places) ELSE i > Min(places)}
           from == IF places = {} THEN Selectable ELSE IF beyond = {} THEN {Min(places)} ELSE beyond
<1>1. n \in Nat /\ DOMAIN hit.rows = 1 .. n
  OBVIOUS
<1>2. Selectable \subseteq 1 .. n /\ \A i \in Selectable : hit.rows[i] # Heading
  BY <1>1 DEF Selectable
<1>3. places # {} => Min(places) \in Selectable
  <2>0. 1 .. n \subseteq Nat
    BY <1>1
  <2>1. places \subseteq Nat /\ places \subseteq Selectable
    BY Zenon, <1>2, <2>0
  <2> HIDE DEF places
  <2> QED
    BY Zenon, <2>1, MinIn
<1>4. from \subseteq Selectable /\ from # {}
  BY Zenon, <1>3
<1>5. NextIndex(up) = IF up THEN Max(from) ELSE Min(from)
  BY DEF NextIndex
<1> HIDE DEF from
<1>6. from \subseteq 1 .. n /\ from \subseteq Nat
  BY <1>2, <1>4
<1>7. Max(from) \in from /\ Min(from) \in from
  BY Zenon, <1>1, <1>4, <1>6, MinIn, MaxIn
<1> QED
  BY Zenon, <1>1, <1>2, <1>4, <1>5, <1>7

-----------------------------------------------------------------------------
(* The selection.  Input comes after a draw and before the next collection,  *)
(* so the hit map it is resolved with is of the shown tab and of the model's *)
(* present content.                                                          *)

Lists == {"Domains", "Denials", "Rulesets"}

HitOfTab ==
  phase = "input" =>
    IF tab = "Stats" THEN hit.rows = <<>> ELSE Range(hit.rows) \subseteq Range(content[tab])

TabInv ==
  /\ Listing(content) /\ Range(content["Denials"]) \subseteq listed
  /\ tab \in Lists \cup {"Stats"}
  /\ scroll \in Nat
  /\ hit.rows \in Seq(Range(hit.rows)) /\ hit.height \in Nat
  /\ HitOfTab
  /\ SelectionOfTab

\* Steps that change neither what is listed nor what is selected.
LEMMA TabFrame ==
  ASSUME TabInv, UNCHANGED <<content, listed, tab, selected, hit>>, detail' => detail,
         scroll' \in Nat, phase' # "input" \/ phase' = phase
  PROVE  TabInv'
<1>1. HitOfTab'
  BY DEF TabInv, HitOfTab
<1>2. SelectionOfTab'
  BY DEF TabInv, SelectionOfTab
<1> QED
  BY <1>1, <1>2 DEF TabInv

\* A selection from the list of the shown tab.
LEMMA TabSelect ==
  ASSUME TabInv, phase = "input", phase' = "collect", UNCHANGED <<content, listed, tab, hit>>,
         scroll' \in Nat, NEW i \in DOMAIN hit.rows, hit.rows[i] # Heading,
         selected' = hit.rows[i]
  PROVE  TabInv'
<1>1. tab \in Lists /\ selected' \in Range(content[tab])
  <2>1. tab # "Stats"
    <3>1. hit.rows # <<>>
      OBVIOUS
    <3> QED
      BY <3>1 DEF TabInv, HitOfTab
  <2>2. Range(hit.rows) \subseteq Range(content[tab]) /\ tab \in Lists
    BY <2>1 DEF TabInv, HitOfTab
  <2>3. selected' \in Range(hit.rows)
    BY DEF Range
  <2> QED
    BY <2>2, <2>3
<1>2. selected' # None
  BY <1>1 DEF TabInv, Listing, Lists
<1>3. SelectionOfTab'
  BY <1>1, <1>2 DEF TabInv, SelectionOfTab, Lists
<1> QED
  BY <1>3 DEF TabInv, HitOfTab

LEMMA DragNat ==
  ASSUME NEW relative \in Nat, NEW rows \in Nat, NEW height \in Nat, height > 0
  PROVE  (relative * rows) \div height \in Nat
<1>1. relative * rows \in Nat
  OBVIOUS
<1> QED
  BY <1>1

LEMMA ScrollNat ==
  ASSUME TabInv, NEW row \in 0 .. MaxRow, DragTo(row)
  PROVE  scroll' \in Nat
<1> DEFINE height == Max2(Monus(hit.height, 2), 1)
           relative == Min2(Monus(row, 1), height - 1)
           rows == Monus(Len(hit.rows), height)
           bottom == Max2(height - 1, 1)
<1>1. height \in Nat /\ height > 0
  BY DEF TabInv, Max2, Monus
<1>2. Len(hit.rows) \in Nat /\ row \in Nat
  BY DEF TabInv
<1> HIDE DEF height
<1>3. relative \in Nat
  BY <1>1, <1>2 DEF Min2, Monus
<1>4. rows \in Nat
  BY <1>1, <1>2 DEF Monus
<1>5. bottom \in Nat /\ bottom > 0
  BY <1>1 DEF Max2
<1>6. scroll' = (relative * rows) \div bottom
  BY DEF DragTo, height
<1> HIDE DEF relative, rows, bottom
<1> QED
  BY <1>3, <1>4, <1>5, <1>6, DragNat

LEMMA ViewportNat ==
  ASSUME NEW n \in Nat, NEW visible \in Nat, NEW index \in Nat, scroll \in Nat
  PROVE  viewport_scroll(n, visible, index) \in Nat
  BY DEF viewport_scroll, Min2, Monus

\* What is drawn: the wrapped rows of the tab.
LEMMA DrawnList ==
  ASSUME TabInv, Draw, tab # "Stats"
  PROVE  \E index \in Nat :
           /\ hit'.rows \in Seq(Range(hit'.rows)) /\ hit'.height \in Nat
           /\ Range(hit'.rows) \subseteq Range(content[tab])
           /\ scroll' = viewport_scroll(Len(hit'.rows), Monus(hit'.height, 2), index)
           /\ screen' = Lines(hit'.rows, scroll', Monus(hit'.height, 2))
           /\ index = 0 => selected \notin Range(hit'.rows)
           /\ index # 0 => /\ index \in DOMAIN hit'.rows /\ hit'.rows[index] = selected
                          /\ \A j \in DOMAIN hit'.rows : hit'.rows[j] = selected => index <= j
<1>1. PICK height \in Heights, narrow \in BOOLEAN : DrawList(Wrapped(content[tab], narrow), height)
  BY DEF Draw
<1>2. content[tab] \in Seq(Range(content[tab]))
  BY DEF TabInv, Listing, Lists
<1> DEFINE rows == Wrapped(content[tab], narrow)
           places == {i \in DOMAIN rows : rows[i] = selected}
           index == IF places = {} THEN 0 ELSE Min(places)
<1>3. rows \in Seq(Range(content[tab])) /\ Range(rows) \subseteq Range(content[tab])
  BY <1>2, WrappedLines
<1>4. /\ hit' = [rows |-> rows, height |-> height]
      /\ scroll' = viewport_scroll(Len(rows), Monus(height, 2), index)
      /\ screen' = Lines(rows, scroll', Monus(height, 2))
  BY <1>1 DEF DrawList
<1> HIDE DEF rows
<1>5. hit'.rows = rows /\ hit'.height = height /\ height \in Nat
  BY <1>4, ContentsAssumption
<1>6. rows \in Seq(Range(rows))
  <2>1. \A i \in 1 .. Len(rows) : rows[i] \in Range(rows)
    BY <1>3 DEF Range
  <2> QED
    BY <1>3, <2>1
<1>7. places \subseteq Nat /\ places \subseteq DOMAIN rows
  BY <1>3
<1>8. places # {} => index \in places /\ \A j \in places : index <= j
  <2> HIDE DEF places
  <2> QED
    BY Zenon, <1>7, MinIn
<1>9. index \in Nat
  BY <1>7, <1>8
<1>10. index = 0 => selected \notin Range(rows)
  <2>1. places = {} => selected \notin Range(rows)
    BY DEF Range
  <2>2. 0 \notin places
    BY <1>3, <1>7
  <2> HIDE DEF places
  <2> QED
    BY <1>8, <2>1, <2>2
<1>11. index # 0 => /\ index \in DOMAIN rows /\ rows[index] = selected
                   /\ \A j \in DOMAIN rows : rows[j] = selected => index <= j
  BY <1>8
<1> HIDE DEF index
<1> QED
  BY <1>3, <1>4, <1>5, <1>6, <1>9, <1>10, <1>11

LEMMA TabDraw == ASSUME TabInv, Draw PROVE TabInv'
<1>0. UNCHANGED <<content, listed, tab, selected, detail>>
  BY DEF Draw, model
<1>1. SelectionOfTab'
  BY <1>0 DEF TabInv, SelectionOfTab
<1>2. CASE tab = "Stats"
  <2>1. hit' = NoHit /\ scroll' = scroll
    BY <1>2 DEF Draw, DrawStats
  <2>2. hit'.rows = <<>> /\ hit'.height = 0
    BY <2>1 DEF NoHit
  <2> QED
    BY <1>0, <1>1, <1>2, <2>1, <2>2 DEF TabInv, HitOfTab
<1>3. CASE tab # "Stats"
  <2>1. PICK index \in Nat :
          /\ hit'.rows \in Seq(Range(hit'.rows)) /\ hit'.height \in Nat
          /\ Range(hit'.rows) \subseteq Range(content[tab])
          /\ scroll' = viewport_scroll(Len(hit'.rows), Monus(hit'.height, 2), index)
    BY <1>3, DrawnList
  <2>2. scroll' \in Nat
    <3>1. Len(hit'.rows) \in Nat
      BY <2>1
    <3>2. Monus(hit'.height, 2) \in Nat
      BY <2>1 DEF Monus
    <3> QED
      BY ZenonT(30), <2>1, <3>1, <3>2, ViewportNat DEF TabInv
  <2> QED
    BY <1>0, <1>1, <1>3, <2>1, <2>2 DEF TabInv, HitOfTab
<1> QED
  BY <1>2, <1>3

LEMMA TabCollect == ASSUME TabInv, Collect PROVE TabInv'
<1>0. listed' = listed \cup Range(content'["Denials"])
  BY DEF Collect
<1>1. CASE content' = content
  <2>1. listed' = listed
    BY <1>0, <1>1 DEF TabInv
  <2> QED
    BY <1>1, <2>1, TabFrame DEF Collect, app, drawn, TabInv
<1>2. CASE content' \in Contents /\ Extends(content', content)
  <2>1. UNCHANGED <<tab, selected, detail, scroll, hit>> /\ phase' = "draw"
    BY DEF Collect, app, drawn
  <2>2. Listing(content')
    BY <1>2, ContentsAssumption
  <2>3. SelectionOfTab'
    BY <1>0, <1>2, <2>1 DEF TabInv, SelectionOfTab, Lists, Extends
  <2> QED
    BY <1>0, <2>1, <2>2, <2>3 DEF TabInv, HitOfTab
<1> QED
  BY <1>1, <1>2 DEF Collect

LEMMA TabStep == TabInv /\ [Next]_vars => TabInv'
<1> SUFFICES ASSUME TabInv, [Next]_vars PROVE TabInv'
  OBVIOUS
<1>0. scroll \in Nat
  BY DEF TabInv
<1>1. CASE EnterRaw \/ EnterAlternate \/ EnterMouse
  BY <1>0, <1>1, TabFrame DEF EnterRaw, EnterAlternate, EnterMouse, model, app, drawn
<1>2. CASE DropSession \/ Leave \/ Quit
  BY <1>0, <1>2, TabFrame DEF DropSession, Restore, Leave, Quit, Reading, model, app, drawn
<1>3. CASE Collect
  BY <1>3, TabCollect
<1>4. CASE Draw
  BY <1>4, TabDraw
<1>5. CASE NoInput \/ CloseDetail \/ TogglePause \/ ReleaseScrollbar
  BY <1>0, <1>5, TabFrame
  DEF NoInput, CloseDetail, TogglePause, ReleaseScrollbar, Reading, Handled, model, app, drawn
<1>6. CASE Wheel
  <2>1. scroll' \in Nat
    BY <1>0, <1>6, ContentsAssumption DEF Wheel, WHEEL_SCROLL_ROWS, Monus, Min2
  <2> QED
    BY <1>6, <2>1, TabFrame DEF Wheel, Reading, Handled, model, drawn
<1>7. CASE PressScrollbar \/ DragScrollbar
  <2>1. scroll' \in Nat
    BY <1>7, ScrollNat DEF PressScrollbar, DragScrollbar
  <2> QED
    BY <1>7, <2>1, TabFrame DEF PressScrollbar, DragScrollbar, Reading, Handled, model, drawn
<1>8. CASE SelectTab
  <2>1. PICK new \in Range(Tabs) : set_tab(new)
    BY <1>8 DEF SelectTab
  <2>2. new \in Lists \cup {"Stats"}
    BY DEF Range, Tabs, Lists
  <2>3. /\ tab' = new /\ selected' = None /\ detail' = FALSE /\ scroll' = 0
        /\ phase' = "collect" /\ UNCHANGED <<content, listed, hit>>
    BY <1>8, <2>1 DEF SelectTab, Reading, Handled, set_tab, model, drawn
  <2>4. SelectionOfTab'
    BY <2>3, ContentsAssumption DEF SelectionOfTab
  <2> QED
    BY <2>2, <2>3, <2>4 DEF TabInv, HitOfTab
<1>9. CASE MoveSelection
  <2>1. phase = "input" /\ phase' = "collect" /\ UNCHANGED <<content, listed, tab, scroll, hit>>
    BY <1>9 DEF MoveSelection, Reading, Handled, model, drawn
  <2>2. CASE Selectable = {}
    BY <1>0, <1>9, <2>1, <2>2, TabFrame DEF MoveSelection
  <2>3. CASE Selectable # {}
    <3>1. PICK up \in BOOLEAN : selected' = hit.rows[NextIndex(up)]
      BY <1>9, <2>3 DEF MoveSelection
    <3>2. NextIndex(up) \in DOMAIN hit.rows /\ hit.rows[NextIndex(up)] # Heading
      BY <2>3, NextListed DEF TabInv
    <3> QED
      BY <1>0, <2>1, <3>1, <3>2, TabSelect
  <2> QED
    BY <2>2, <2>3
<1>10. CASE FollowDomain
  <2>1. /\ phase' = "collect" /\ UNCHANGED <<content, listed, hit>>
        /\ tab' = "Rulesets" /\ scroll' = 0
        /\ selected \in DOMAIN content.ruleset_of
        /\ selected' = content.ruleset_of[selected]
    BY <1>10 DEF FollowDomain, Reading, Handled, model, drawn
  <2>2. selected' \in Range(content["Rulesets"]) /\ selected' # None /\ selected' # Heading
    BY <2>1 DEF TabInv, Listing
  <2>3. SelectionOfTab'
    BY <2>1, <2>2 DEF SelectionOfTab
  <2> QED
    BY <2>1, <2>3 DEF TabInv, HitOfTab, Lists
<1>11. CASE ClickRow
  <2>1. phase = "input" /\ phase' = "collect" /\ UNCHANGED <<content, listed, tab, scroll, hit>>
    BY <1>11 DEF ClickRow, Reading, model, drawn
  <2>2. PICK i \in DOMAIN hit.rows : hit.rows[i] # Heading /\ selected' = hit.rows[i]
    BY <1>11 DEF ClickRow
  <2> QED
    BY <1>0, <2>1, <2>2, TabSelect
<1>12. CASE UNCHANGED vars
  BY <1>0, <1>12, TabFrame DEF vars, model, app, drawn
<1> QED
  BY <1>1, <1>2, <1>3, <1>4, <1>5, <1>6, <1>7, <1>8, <1>9, <1>10, <1>11, <1>12 DEF Next, Input

LEMMA TabInit == Init => TabInv
<1> SUFFICES ASSUME Init PROVE TabInv
  OBVIOUS
<1>1. \A list \in Lists : content[list] = <<>>
  BY DEF Init, Lists
<1>2. Range(<<>>) = {} /\ <<>> \in Seq({})
  BY DEF Range
<1>3. Listing(content)
  BY <1>1, <1>2 DEF Init, Listing, Lists
<1>4. hit.rows = <<>> /\ hit.height = 0
  BY DEF Init, NoHit
<1>5. SelectionOfTab
  BY ContentsAssumption DEF Init, SelectionOfTab
<1> QED
  BY <1>1, <1>2, <1>3, <1>4, <1>5 DEF Init, TabInv, HitOfTab, Lists

LEMMA TabAlways == Spec => []TabInv
  BY TabInit, TabStep, PTL DEF Spec

\* A selection is always an object of the shown tab, listed there or, if it is
\* an evicted denial, listed there before, although tabs change, events reorder
\* and remove rows and clicks are resolved with what was drawn before (set_tab,
\* move_selection, click_row, follow_domain).
THEOREM SelectionStaysInTab == Spec => []SelectionOfTab
<1>1. TabInv => SelectionOfTab
  BY DEF TabInv
<1> QED
  BY <1>1, TabAlways, PTL

-----------------------------------------------------------------------------
(* The screen.                                                              *)

\* The lines on the screen are those from the scroll position on.
LEMMA ScreenLines ==
  ASSUME NEW rows, rows \in Seq(Range(rows)), NEW s \in Nat, NEW v \in Nat, NEW i \in Nat,
         1 <= i, i <= v, s + i <= Len(rows)
  PROVE  i \in DOMAIN Lines(rows, s, v) /\ Lines(rows, s, v)[i] = rows[s + i]
<1> DEFINE last == Min2(s + v, Len(rows))
           window == SubSeq(rows, s + 1, last)
<1>1. last \in Nat /\ s + i <= last /\ last <= Len(rows) /\ s + 1 <= last
  BY DEF Min2
<1> HIDE DEF last
<1>2. /\ Len(window) = last - s
      /\ \A k \in 1 .. last - s : window[k] = rows[s + k]
      /\ DOMAIN window = 1 .. last - s
  BY <1>1, SubSeqProperties
<1> HIDE DEF window
<1>3. i \in 1 .. last - s
  BY <1>1
<1>4. i \in DOMAIN window /\ window[i] = rows[s + i]
  BY <1>2, <1>3
<1> QED
  BY Zenon, <1>4 DEF Lines, window, last

\* viewport_scroll shows the followed line and fills the screen.
LEMMA Viewport ==
  ASSUME NEW n \in Nat, NEW v \in Nat, NEW index \in 0 .. n, scroll \in Nat,
         NEW s, s = viewport_scroll(n, v, index)
  PROVE  /\ s \in Nat
         /\ (follow_selection /\ v > 0 /\ index # 0) => s < index /\ index <= s + v
         /\ s > 0 => n - s >= v
<1> DEFINE clamped == Min2(scroll, Monus(n, v))
<1>1. clamped \in Nat /\ (clamped > 0 => n - clamped >= v)
  BY DEF Min2, Monus
<1>2. s = IF ~follow_selection \/ index = 0 THEN clamped
          ELSE IF index - 1 < clamped THEN index - 1
          ELSE IF index - 1 >= clamped + v THEN Monus(index, v)
          ELSE clamped
  BY DEF viewport_scroll
<1> HIDE DEF clamped
<1>3. CASE ~follow_selection \/ index = 0
  BY <1>1, <1>2, <1>3
<1>4. CASE follow_selection /\ index # 0
  <2>1. CASE index - 1 < clamped
    <3>1. s = index - 1
      BY <1>2, <1>4, <2>1
    <3> QED
      BY <1>1, <1>4, <2>1, <3>1
  <2>2. CASE ~(index - 1 < clamped) /\ index - 1 >= clamped + v
    <3>1. s = index - v
      BY <1>1, <1>2, <1>4, <2>2 DEF Monus
    <3> QED
      BY <1>1, <1>4, <2>2, <3>1
  <2>3. CASE ~(index - 1 < clamped) /\ ~(index - 1 >= clamped + v)
    <3>1. s = clamped
      BY <1>2, <1>4, <2>3
    <3> QED
      BY <1>1, <1>4, <2>3, <3>1
  <2> QED
    BY <2>1, <2>2, <2>3
<1> QED
  BY <1>3, <1>4

\* After viewport_scroll the first line of a followed selection is on the screen.
LEMMA FollowedShown ==
  ASSUME NEW rows, rows \in Seq(Range(rows)), NEW v \in Nat, scroll \in Nat,
         NEW index \in Nat, NEW object,
         index = 0 => object \notin Range(rows),
         index # 0 => /\ index \in DOMAIN rows /\ rows[index] = object
                      /\ \A j \in DOMAIN rows : rows[j] = object => index <= j,
         NEW s, s = viewport_scroll(Len(rows), v, index)
  PROVE  /\ (follow_selection /\ v > 0 /\ object \in Range(rows))
              => \E i \in DOMAIN Lines(rows, s, v) :
                   /\ Lines(rows, s, v)[i] = object
                   /\ \A j \in 1 .. s + i - 1 : rows[j] # object
         /\ s > 0 => Len(rows) - s >= v
<1> DEFINE n == Len(rows)
<1>1. n \in Nat /\ DOMAIN rows = 1 .. n /\ index \in 0 .. n
  OBVIOUS
<1> HIDE DEF n
<1>2. /\ s \in Nat
      /\ (follow_selection /\ v > 0 /\ index # 0) => s < index /\ index <= s + v
      /\ s > 0 => n - s >= v
  <2>1. s = viewport_scroll(n, v, index)
    BY DEF n
  <2> QED
    BY Zenon, <1>1, <2>1, Viewport
<1>3. ASSUME follow_selection, v > 0, object \in Range(rows)
      PROVE  \E i \in DOMAIN Lines(rows, s, v) :
               /\ Lines(rows, s, v)[i] = object
               /\ \A j \in 1 .. s + i - 1 : rows[j] # object
  <2>1. index # 0
    BY <1>3
  <2>2. s < index /\ index <= s + v /\ index <= n
    BY <1>1, <1>2, <1>3, <2>1
  <2> DEFINE i == index - s
  <2>3. i \in Nat /\ 1 <= i /\ i <= v /\ s + i = index /\ s + i <= n
    BY <1>1, <1>2, <2>2
  <2> HIDE DEF i
  <2>4. i \in DOMAIN Lines(rows, s, v) /\ Lines(rows, s, v)[i] = rows[s + i]
    BY <1>2, <2>3, ScreenLines DEF n
  <2>5. ASSUME NEW j \in 1 .. s + i - 1 PROVE rows[j] # object
    <3>1. j \in 1 .. n /\ ~(index <= j)
      BY <1>1, <1>2, <2>2, <2>3
    <3> QED
      BY <1>1, <2>1, <3>1
  <2> QED
    BY <2>1, <2>3, <2>4, <2>5
<1> QED
  BY <1>2, <1>3 DEF n

LEMMA DrawFollows == ASSUME TabInv, Draw PROVE SelectionFollowed'
<1>0. UNCHANGED <<tab, selected, follow_selection>> /\ scroll \in Nat
  BY DEF Draw, TabInv
<1>1. CASE tab = "Stats"
  <2>1. hit'.rows = <<>>
    BY <1>1 DEF Draw, DrawStats, NoHit
  <2>2. Range(hit'.rows) = {}
    BY <2>1 DEF Range
  <2> QED
    BY <1>0, <1>1, <2>2 DEF SelectionFollowed
<1>2. CASE tab # "Stats"
  <2>1. PICK index \in Nat :
          /\ hit'.rows \in Seq(Range(hit'.rows)) /\ hit'.height \in Nat
          /\ scroll' = viewport_scroll(Len(hit'.rows), Monus(hit'.height, 2), index)
          /\ screen' = Lines(hit'.rows, scroll', Monus(hit'.height, 2))
          /\ index = 0 => selected \notin Range(hit'.rows)
          /\ index # 0 => /\ index \in DOMAIN hit'.rows /\ hit'.rows[index] = selected
                         /\ \A j \in DOMAIN hit'.rows : hit'.rows[j] = selected => index <= j
    BY <1>2, DrawnList
  <2>2. PICK rows, v, s : rows = hit'.rows /\ v = Monus(hit'.height, 2) /\ s = scroll'
    OBVIOUS
  <2>3. /\ rows \in Seq(Range(rows)) /\ v \in Nat
        /\ s = viewport_scroll(Len(rows), v, index)
        /\ index = 0 => selected \notin Range(rows)
        /\ index # 0 => /\ index \in DOMAIN rows /\ rows[index] = selected
                       /\ \A j \in DOMAIN rows : rows[j] = selected => index <= j
    BY <2>1, <2>2 DEF Monus
  <2>4. /\ (follow_selection /\ v > 0 /\ selected \in Range(rows))
             => \E i \in DOMAIN Lines(rows, s, v) :
                  /\ Lines(rows, s, v)[i] = selected
                  /\ \A j \in 1 .. s + i - 1 : rows[j] # selected
        /\ s > 0 => Len(rows) - s >= v
    BY <1>0, <2>3, FollowedShown
  <2>5. Visible' = v /\ screen' = Lines(rows, s, v)
    BY <2>1, <2>2 DEF Visible
  <2> QED
    BY <1>0, <2>2, <2>4, <2>5 DEF SelectionFollowed
<1> QED
  BY <1>1, <1>2

LEMMA FollowStep == TabInv /\ SelectionFollowed /\ [Next]_vars => SelectionFollowed'
<1> SUFFICES ASSUME TabInv, SelectionFollowed, [Next]_vars PROVE SelectionFollowed'
  OBVIOUS
<1>1. CASE Draw
  BY <1>1, DrawFollows
<1>2. CASE UNCHANGED vars
  <2>1. Visible' = Visible
    BY <1>2 DEF vars, drawn, Visible
  <2> QED
    BY <1>2, <2>1 DEF vars, app, drawn, SelectionFollowed
<1>3. CASE phase' # "input"
  BY <1>3 DEF SelectionFollowed
<1>4. (EnterRaw \/ EnterAlternate \/ EnterMouse \/ DropSession \/ Leave \/ Quit \/ Collect \/ Input)
        => phase' # "input"
  BY Zenon DEF EnterRaw, EnterAlternate, EnterMouse, DropSession, Restore, Leave, Quit, Collect, Input,
    NoInput, CloseDetail, SelectTab, TogglePause, MoveSelection, FollowDomain, Wheel,
    PressScrollbar, DragScrollbar, ReleaseScrollbar, ClickRow, Handled
<1> QED
  BY <1>1, <1>2, <1>3, <1>4 DEF Next

\* After every draw the first line of a followed selection is on the screen and
\* the screen is full if anything is scrolled out above, for every number of
\* rows, height and earlier scroll position (viewport_scroll).
THEOREM SelectionIsFollowed == Spec => []SelectionFollowed
<1>1. Init => SelectionFollowed
  BY DEF Init, SelectionFollowed
<1> QED
  BY <1>1, TabAlways, FollowStep, PTL DEF Spec

\* A click belongs to the input it came with, and input finds the list as it
\* was drawn on the screen.
ClickInv ==
  /\ clicked # None => phase = "collect"
  /\ (phase = "input" /\ tab # "Stats") => screen = Lines(hit.rows, scroll, Visible)

LEMMA ClickRowShown ==
  ASSUME TabInv, ClickInv, ClickRow
  PROVE  ClickInv' /\ clicked' \in DOMAIN screen /\ selected' = screen[clicked']
<1>1. PICK row \in 0 .. MaxRow :
        /\ Inside(row) /\ ClickedIndex(row) \in DOMAIN hit.rows
        /\ selected' = hit.rows[ClickedIndex(row)] /\ clicked' = row
  BY DEF ClickRow
<1>2. /\ row \in Nat /\ scroll \in Nat /\ hit.height \in Nat
      /\ hit.rows \in Seq(Range(hit.rows))
  BY DEF TabInv
<1>3. ClickedIndex(row) = scroll + row /\ 1 <= row
  BY <1>1, <1>2 DEF ClickedIndex, Inside
<1>4. Visible \in Nat /\ row <= Visible
  BY <1>1, <1>2 DEF Inside, Monus, Visible
<1>5. scroll + row <= Len(hit.rows)
  BY SMTT(20), <1>1, <1>2, <1>3
<1>6. screen = Lines(hit.rows, scroll, Visible)
  <2>1. hit.rows # <<>>
    BY <1>2, <1>3, <1>5
  <2> QED
    BY <2>1 DEF ClickInv, ClickRow, Reading, TabInv, HitOfTab
<1>7. row \in DOMAIN screen /\ screen[row] = hit.rows[scroll + row]
  BY <1>2, <1>3, <1>4, <1>5, <1>6, ScreenLines
<1> QED
  BY <1>1, <1>3, <1>7 DEF ClickRow, ClickInv

LEMMA ClickStep ==
  ASSUME TabInv, ClickInv, [Next]_vars
  PROVE  /\ ClickInv'
         /\ [clicked' # None => clicked' \in DOMAIN screen /\ selected' = screen[clicked']]_vars
<1>1. CASE ClickRow
  BY <1>1, ClickRowShown
<1>2. CASE clicked' = None /\ phase' # "input"
  BY <1>2 DEF ClickInv
<1>3. CASE EnterRaw \/ EnterAlternate \/ EnterMouse \/ DropSession
  BY <1>3 DEF EnterRaw, EnterAlternate, EnterMouse, DropSession, Restore, ClickInv
<1>4. CASE UNCHANGED vars
  BY SMTT(20), <1>4 DEF vars, app, drawn, ClickInv, Visible
<1>5. CASE Draw
  <2>1. clicked' = None /\ tab' = tab
    BY SMTT(20), <1>5 DEF Draw, ClickInv
  <2>2. tab # "Stats" => screen' = Lines(hit'.rows, scroll', Monus(hit'.height, 2))
    BY <1>5, DrawnList
  <2> QED
    BY <2>1, <2>2 DEF ClickInv, Visible
<1>6. (Leave \/ Quit \/ Collect \/ (Input /\ ~ClickRow)) => clicked' = None /\ phase' # "input"
  BY Zenon DEF Leave, Quit, Collect, Input,
    NoInput, CloseDetail, SelectTab, TogglePause, MoveSelection, FollowDomain, Wheel,
    PressScrollbar, DragScrollbar, ReleaseScrollbar, Handled
<1> QED
  BY <1>1, <1>2, <1>3, <1>4, <1>5, <1>6 DEF Next

\* A click selects the object the last draw put on the line of the screen it
\* hit, wherever the list is scrolled to (click_row).
THEOREM ClicksSelectShown == Spec => ClickSelectsShown
<1>1. Init => ClickInv
  BY DEF Init, ClickInv
<1>2. TabInv /\ ClickInv /\ [Next]_vars
        => /\ ClickInv'
           /\ [clicked' # None => clicked' \in DOMAIN screen /\ selected' = screen[clicked']]_vars
  BY ClickStep
<1> QED
  BY <1>1, <1>2, TabAlways, PTL DEF Spec, ClickSelectsShown
=============================================================================
