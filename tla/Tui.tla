--------------------------------- MODULE Tui ---------------------------------
(***************************************************************************)
(* lltop's interactive mode: the loop of lltop/src/tui/mod.rs, App and its *)
(* list drawing of ui.rs and TerminalSession of terminal.rs.               *)
(*                                                                         *)
(* The observation model is reduced to what is listed: for each tab the    *)
(* kinds of its rows.  Collecting events replaces it; the terminal may be  *)
(* resized between draws.                                                  *)
(***************************************************************************)
EXTENDS Naturals, Sequences, FiniteSetsExt

CONSTANTS
  Contents,   \* what the model may hold: [Domains, Denials, Rulesets, ruleset_of]
  Wide,       \* kinds of the rows that take two lines in a narrow list area
  Heights,    \* heights of the list area
  MaxRow,     \* bound: rows of the screen, counted from the top of the list area
  MaxScroll,  \* usize::MAX, where scrolling saturates
  None, Heading

VARIABLES
  phase,     \* where run is; "gone" when it returned or unwound
  content,   \* ObservationModel
  listed,    \* history: the rows the Denials tab has ever had
  tab, paused, selected, detail, scroll, follow_selection, dragging_scrollbar,  \* App
  hit,       \* HitMap: line kinds and height of the list area
  screen,    \* history: the kinds of the list lines the last draw put on the screen
  clicked,   \* history: the row of the last input if it clicked a list row
  session,   \* TerminalSession: the modes its drop restores
  terminal,  \* the modes the terminal is in
  failed     \* history: the modes whose reset failed

app == <<tab, paused, selected, detail, scroll, follow_selection, dragging_scrollbar>>
model == <<content, listed>>
drawn == <<hit, screen>>
guard == <<session, terminal, failed>>
vars == <<phase, model, app, drawn, clicked, guard>>

\* The rulesets domains refer to are listed (FactsTogether of State), rulesets
\* without headings.
Listing(c) ==
  /\ \A list \in {"Domains", "Denials", "Rulesets"} :
       c[list] \in Seq(Range(c[list])) /\ None \notin Range(c[list])
  /\ Heading \notin Range(c["Rulesets"])
  /\ \A d \in DOMAIN c.ruleset_of : c.ruleset_of[d] \in Range(c["Rulesets"])

ASSUME ContentsAssumption ==
  /\ \A c \in Contents : Listing(c)
  /\ Heights \subseteq Nat /\ MaxScroll \in Nat /\ None # Heading

Tabs == <<"Domains", "Denials", "Rulesets", "Stats">>
Modes == {"raw", "alternate", "mouse"}

Monus(a, b) == IF a >= b THEN a - b ELSE 0
Min2(a, b) == IF a <= b THEN a ELSE b
Max2(a, b) == IF a >= b THEN a ELSE b

-----------------------------------------------------------------------------
(* TerminalSession.                                                         *)

\* enable_raw_mode: the session remembers it after it succeeded.
EnterRaw ==
  /\ phase = "enter_raw"
  /\ \/ /\ terminal' = terminal \cup {"raw"} /\ session' = session \cup {"raw"}
        /\ phase' = "enter_alternate"
     \/ phase' = "drop_mouse" /\ UNCHANGED <<session, terminal>>
  /\ UNCHANGED <<model, app, drawn, clicked, failed>>

Armed_Late(new) == IF phase' = "drop_mouse" THEN session ELSE session \cup {new}

\* The flag is set before the sequence is written, which may take effect even
\* if flushing it fails.
Armed(new) == session \cup {new}

EnterAlternate ==
  /\ phase = "enter_alternate"
  /\ \/ terminal' = terminal \cup {"alternate"} /\ phase' \in {"enter_mouse", "drop_mouse"}
     \/ phase' = "drop_mouse" /\ UNCHANGED terminal
  /\ session' = Armed("alternate")
  /\ UNCHANGED <<model, app, drawn, clicked, failed>>

\* enable_mouse, whose result is ignored; creating or clearing the terminal
\* after it may fail.
EnterMouse ==
  /\ phase = "enter_mouse"
  /\ terminal' \in {terminal, terminal \cup {"mouse"}}
  /\ phase' \in {"collect", "drop_mouse"}
  /\ session' = Armed("mouse")
  /\ UNCHANGED <<model, app, drawn, clicked, failed>>

\* Drop tries to reset what is armed and goes on whether that fails or not; a
\* reset that fails may have taken effect.
Restore(mode, here, next) ==
  /\ phase = here
  /\ IF mode \in session
     THEN \/ terminal' = terminal \ {mode} /\ UNCHANGED failed
          \/ terminal' \in {terminal, terminal \ {mode}} /\ failed' = failed \cup {mode}
     ELSE UNCHANGED <<terminal, failed>>
  /\ phase' = next
  /\ UNCHANGED <<model, app, drawn, clicked, session>>

DropSession ==
  \/ Restore("mouse", "drop_mouse", "drop_alternate")
  \/ Restore("alternate", "drop_alternate", "drop_raw")
  \/ Restore("raw", "drop_raw", "gone")

\* An I/O error, a terminal collector error or a panic leaves the loop.
Leave ==
  /\ phase \in {"collect", "draw", "input"}
  /\ phase' = "drop_mouse" /\ clicked' = None
  /\ UNCHANGED <<model, app, drawn, guard>>

-----------------------------------------------------------------------------
(* Collecting and drawing.                                                  *)

\* Domains and rulesets are never forgotten; denials may be evicted.
Extends(new, old) ==
  /\ Range(old.Domains) \subseteq Range(new.Domains)
  /\ Range(old.Rulesets) \subseteq Range(new.Rulesets)
  /\ \A d \in DOMAIN old.ruleset_of : d \in DOMAIN new.ruleset_of

\* recv_timeout and drain_ready_events, unless paused.
Collect ==
  /\ phase = "collect"
  /\ content' \in IF paused THEN {content} ELSE {c \in Contents : Extends(c, content)}
  /\ listed' = listed \cup Range(content'.Denials)
  /\ phase' = "draw" /\ clicked' = None
  /\ UNCHANGED <<app, drawn, guard>>

viewport_scroll_OffByOne(row_count, visible, index) ==
  LET clamped == Min2(scroll, Monus(row_count, visible))
  IN IF ~follow_selection \/ index = 0 THEN clamped
     ELSE IF index - 1 < clamped THEN index - 1
     ELSE IF index - 1 > clamped + visible THEN Monus(index, visible)
     ELSE clamped

\* `index` counts from 1; 0 when the selection is not listed.
viewport_scroll(row_count, visible, index) ==
  LET clamped == Min2(scroll, Monus(row_count, visible))
  IN IF ~follow_selection \/ index = 0 THEN clamped
     ELSE IF index - 1 < clamped THEN index - 1
     ELSE IF index - 1 >= clamped + visible THEN Monus(index, visible)
     ELSE clamped

\* The last of the display lines of the first `i` rows.
LastLine(rows, narrow, i) == i + Cardinality({j \in 1 .. i : narrow /\ rows[j] \in Wide})

\* format::wrap: the display lines of the rows in order, each of its row's kind.
Wrapped(rows, narrow) ==
  [line \in 1 .. LastLine(rows, narrow, Len(rows)) |->
     rows[Min({i \in DOMAIN rows : line <= LastLine(rows, narrow, i)})]]

\* The lines a window of `visible` lines shows of rows scrolled by `skipped`.
Lines(rows, skipped, visible) == SubSeq(rows, skipped + 1, Min2(skipped + visible, Len(rows)))

\* draw_list, for a list area of some height and width.
DrawList(rows, height) ==
  LET places == {i \in DOMAIN rows : rows[i] = selected}
      index == IF places = {} THEN 0 ELSE Min(places)
      visible == Monus(height, 2)
  IN /\ scroll' = viewport_scroll(Len(rows), visible, index)
     /\ hit' = [rows |-> rows, height |-> height]
     /\ screen' = Lines(rows, scroll', visible)

NoHit == [rows |-> <<>>, height |-> 0]

DrawStats_KeepsHit == screen' = <<>> /\ UNCHANGED <<scroll, hit>>

\* The Stats tab has no list: its hit map is reset, its scroll left alone.
DrawStats == hit' = NoHit /\ screen' = <<>> /\ UNCHANGED scroll

Draw ==
  /\ phase = "draw"
  /\ IF tab = "Stats" THEN DrawStats
     ELSE \E height \in Heights, narrow \in BOOLEAN :
            DrawList(Wrapped(content[tab], narrow), height)
  /\ phase' = "input"
  /\ UNCHANGED <<model, tab, paused, selected, detail, follow_selection, dragging_scrollbar,
                 clicked, guard>>

-----------------------------------------------------------------------------
(* Input: at most one event between two draws.                              *)

Reading == phase = "input" /\ UNCHANGED <<model, drawn, guard>>

Handled == phase' = "collect" /\ clicked' = None

NoInput == Reading /\ Handled /\ UNCHANGED app

\* q, or Esc with no detail pane.
Quit ==
  /\ Reading
  /\ phase' = "drop_mouse" /\ clicked' = None
  /\ UNCHANGED app

CloseDetail ==
  /\ Reading /\ Handled /\ detail
  /\ detail' = FALSE
  /\ UNCHANGED <<tab, paused, selected, scroll, follow_selection, dragging_scrollbar>>

set_tab(new) ==
  /\ tab' = new /\ selected' = None /\ detail' = FALSE /\ scroll' = 0 /\ follow_selection' = TRUE
  /\ UNCHANGED <<paused, dragging_scrollbar>>

\* A digit, a click on a title, or Tab, which cycles: any tab.
SelectTab == Reading /\ Handled /\ \E new \in Range(Tabs) : set_tab(new)

TogglePause ==
  /\ Reading /\ Handled
  /\ paused' = ~paused
  /\ UNCHANGED <<tab, selected, detail, scroll, follow_selection, dragging_scrollbar>>

\* The lines to select from: of adjacent ones of one row, headings apart, the
\* first.
Selectable ==
  {i \in DOMAIN hit.rows :
     /\ hit.rows[i] # Heading
     /\ \A j \in 1 .. i - 1 :
          (\A k \in j + 1 .. i - 1 : hit.rows[k] = Heading) => hit.rows[j] # hit.rows[i]}

\* The selectable line before or after the selected one, if there is one.
NextIndex(up) ==
  LET places == {i \in Selectable : hit.rows[i] = selected}
      beyond == {i \in Selectable : IF up THEN i < Min(places) ELSE i > Min(places)}
      from == IF places = {} THEN Selectable ELSE IF beyond = {} THEN {Min(places)} ELSE beyond
  IN IF up THEN Max(from) ELSE Min(from)

MoveSelection ==
  /\ Reading /\ Handled
  /\ follow_selection' = TRUE
  /\ IF Selectable = {} THEN UNCHANGED <<selected, detail>>
     ELSE \E up \in BOOLEAN : selected' = hit.rows[NextIndex(up)] /\ detail' = TRUE
  /\ UNCHANGED <<tab, paused, scroll, dragging_scrollbar>>

\* Enter on a domain whose ruleset is known.
FollowDomain ==
  /\ Reading /\ Handled
  /\ selected \in DOMAIN content.ruleset_of
  /\ tab' = "Rulesets" /\ selected' = content.ruleset_of[selected] /\ detail' = TRUE
  /\ scroll' = 0 /\ follow_selection' = TRUE
  /\ UNCHANGED <<paused, dragging_scrollbar>>

WHEEL_SCROLL_ROWS == 3

Wheel ==
  /\ Reading /\ Handled
  /\ scroll' \in {Monus(scroll, WHEEL_SCROLL_ROWS), Min2(scroll + WHEEL_SCROLL_ROWS, MaxScroll)}
  /\ follow_selection' = FALSE
  /\ UNCHANGED <<tab, paused, selected, detail, dragging_scrollbar>>

\* The rows of the list area between its borders.
Inside(row) == row > 0 /\ row < Monus(hit.height, 1)

DragTo(row) ==
  LET height == Max2(Monus(hit.height, 2), 1)
      relative == Min2(Monus(row, 1), height - 1)
  IN /\ scroll' = (relative * Monus(Len(hit.rows), height)) \div Max2(height - 1, 1)
     /\ follow_selection' = FALSE

\* A press on the scrollbar, and dragging from there to any row.
PressScrollbar ==
  /\ Reading /\ Handled
  /\ \E row \in 0 .. MaxRow : Inside(row) /\ DragTo(row)
  /\ dragging_scrollbar' = TRUE
  /\ UNCHANGED <<tab, paused, selected, detail>>

DragScrollbar ==
  /\ Reading /\ Handled
  /\ dragging_scrollbar
  /\ \E row \in 0 .. MaxRow : DragTo(row)
  /\ UNCHANGED <<tab, paused, selected, detail, dragging_scrollbar>>

ReleaseScrollbar ==
  /\ Reading /\ Handled
  /\ dragging_scrollbar' = FALSE
  /\ UNCHANGED <<tab, paused, selected, detail, scroll, follow_selection>>

ClickedIndex_Header(row) == scroll + row + 1

\* scroll + (row - header_rows), counted from 1.
ClickedIndex(row) == scroll + (row - 1) + 1

ClickRow ==
  /\ Reading /\ phase' = "collect"
  /\ \E row \in 0 .. MaxRow :
       /\ Inside(row)
       /\ ClickedIndex(row) \in DOMAIN hit.rows
       /\ hit.rows[ClickedIndex(row)] # Heading
       /\ selected' = hit.rows[ClickedIndex(row)]
       /\ clicked' = row
  /\ detail' = TRUE
  /\ UNCHANGED <<tab, paused, scroll, follow_selection, dragging_scrollbar>>

-----------------------------------------------------------------------------

Init ==
  /\ phase = "enter_raw"
  /\ content = [Domains |-> <<>>, Denials |-> <<>>, Rulesets |-> <<>>,
                ruleset_of |-> [d \in {} |-> None]]
  /\ listed = {}
  /\ tab = "Domains" /\ paused = FALSE /\ selected = None /\ detail = FALSE
  /\ scroll = 0 /\ follow_selection = TRUE /\ dragging_scrollbar = FALSE
  /\ hit = NoHit /\ screen = <<>> /\ clicked = None
  /\ session = {} /\ terminal = {} /\ failed = {}

Input ==
  \/ NoInput \/ CloseDetail \/ SelectTab \/ TogglePause \/ MoveSelection \/ FollowDomain
  \/ Wheel \/ PressScrollbar \/ DragScrollbar \/ ReleaseScrollbar \/ ClickRow

Next ==
  \/ EnterRaw \/ EnterAlternate \/ EnterMouse
  \/ Collect \/ Draw \/ Input \/ Quit
  \/ Leave \/ DropSession

Spec == Init /\ [][Next]_vars
-----------------------------------------------------------------------------

Visible == Monus(hit.height, 2)

\* The selection is an object the shown tab lists or, in the Denials tab, has
\* listed before it was evicted: a click or a key press never selects from the
\* list of a tab left before, what is followed is listed, and a detail pane is
\* open only for a selection (draw, set_tab, follow_domain).
SelectionOfTab ==
  /\ selected # None =>
       /\ tab # "Stats"
       /\ selected \in IF tab = "Denials" THEN listed ELSE Range(content[tab])
  /\ selected # Heading
  /\ detail => selected # None

\* "Up/Down selection resumes following it" (lltop/README.md): a followed
\* selection that is listed has its first line on the screen, however events
\* reordered the rows and whatever the terminal's new height; and a drawn list
\* leaves no line of the screen empty while rows are scrolled out above
\* (viewport_scroll).
SelectionFollowed ==
  /\ (phase = "input" /\ follow_selection /\ Visible > 0 /\ selected \in Range(hit.rows)) =>
       \E i \in DOMAIN screen :
         /\ screen[i] = selected
         /\ \A j \in 1 .. scroll + i - 1 : hit.rows[j] # selected
  /\ (phase = "input" /\ tab # "Stats" /\ scroll > 0) => Len(hit.rows) - scroll >= Visible

\* A click selects the object the last draw put on the clicked line, whatever
\* moved or scrolled before that draw and whatever the input before it changed
\* (run, click_row).
ClickSelectsShown ==
  [][clicked' # None => clicked' \in DOMAIN screen /\ selected' = screen[clicked']]_vars

\* "Raw mode, alternate-screen state, and attempted mouse reporting are ...
\* restored on normal exit, errors, and panic" (lltop/README.md): a mode is
\* still on when the session is gone only if its own reset failed.  No failure
\* to enter a mode, of the loop or to reset another mode leaves it on
\* (TerminalSession).
TerminalRestored == phase = "gone" => terminal \subseteq failed
=============================================================================
