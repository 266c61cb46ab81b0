---------------------------- MODULE TerminalModel ----------------------------
(***************************************************************************)
(* The screen of a terminal (VtTerminalModel): a grid of cells with its    *)
(* scrollback, the cursor and its pending wrap, the scroll region, the     *)
(* alternate screen, and the reflow of a resize.  Every operator takes the *)
(* record v of a screen and returns the next one.                          *)
(*                                                                         *)
(* Rows and columns are counted from 1, lengths as in the code.  A cell    *)
(* has its characters and whether its background is a colour of its own;   *)
(* the second cell of a wide character has none.  Other attributes, modes  *)
(* that only the view reads and the characters of an escape sequence       *)
(* (the parser keeps its state between chunks) are left out.               *)
(***************************************************************************)
EXTENDS Integers, SequencesExt

CONSTANTS
    Narrow, Wide, Marks,        \* characters by their width; marks combine with the one before
    Space

ASSUME CharacterAssumption ==
    /\ Space \in Narrow
    /\ Narrow \cap Wide = {} /\ Narrow \cap Marks = {} /\ Wide \cap Marks = {}

AtLeast(a, b) == IF a < b THEN b ELSE a
AtMost(a, b) == IF a < b THEN a ELSE b
Within(low, a, high) == AtLeast(low, AtMost(a, high))

Cell(text, shade) == [text |-> text, shade |-> shade]
Blank(v) == Cell(<<Space>>, v.shade)
IsEmptyCell(cell) == cell = Cell(<<Space>>, FALSE)
Continues(cell) == cell.text = <<>>
BlankLine(v) == [cells |-> [c \in 1 .. v.cols |-> Blank(v)], wrap |-> -1]
BlankLines(v) == [r \in 1 .. v.rows |-> BlankLine(v)]
NoScreen == [lines |-> <<>>, row |-> 1, col |-> 1, pending |-> FALSE]

\* clear
Clear(v) == [v EXCEPT !.back = <<>>, !.lines = BlankLines(v), !.row = 1, !.col = 1, !.pending = FALSE]

\* reset, and the screen of a new model.
Reset(v) ==
    Clear([v EXCEPT !.shade = FALSE, !.saved = [row |-> 1, col |-> 1], !.top = 1, !.bottom = v.rows,
                    !.alt = FALSE, !.primary = NoScreen])
NewScreen(cols, rows, limit) ==
    Reset([cols |-> cols, rows |-> rows, limit |-> limit, lines |-> <<>>, back |-> <<>>, primary |-> NoScreen,
           row |-> 1, col |-> 1, pending |-> FALSE, saved |-> [row |-> 1, col |-> 1], top |-> 1, bottom |-> rows,
           alt |-> FALSE, shade |-> FALSE])

Latest(lines, limit) == SubSeq(lines, AtLeast(1, Len(lines) - limit + 1), Len(lines))
SetHistoryLimit(v, limit) == [v EXCEPT !.limit = limit, !.back = Latest(@, limit)]

-----------------------------------------------------------------------------
(* Erasing and scrolling. *)

\* eraseCells: the soft wrap of a row goes when the cells before it are erased.
EraseCells(v, row, from, to) ==
    LET line == v.lines[row]
        cut == to >= v.cols \/ (line.wrap >= 0 /\ to >= line.wrap)
    IN  [v EXCEPT !.lines[row] =
            [cells |-> [c \in 1 .. v.cols |-> IF c \in from .. to THEN Blank(v) ELSE line.cells[c]],
             wrap |-> IF cut THEN -1 ELSE line.wrap]]
EraseRows(v, rows) == [v EXCEPT !.lines = [r \in 1 .. v.rows |-> IF r \in rows THEN BlankLine(v) ELSE @[r]]]
Unwrapped(v, row) == IF row >= 1 THEN [v EXCEPT !.lines[row].wrap = -1] ELSE v

ShiftUp(v, from, to, count) ==
    [v EXCEPT !.lines = [r \in 1 .. v.rows |->
        IF r \notin from .. to THEN @[r] ELSE IF r + count <= to THEN @[r + count] ELSE BlankLine(v)]]
ShiftDown(v, from, to, count) ==
    [v EXCEPT !.lines = [r \in 1 .. v.rows |->
        IF r \notin from .. to THEN @[r] ELSE IF r - count >= from THEN @[r - count] ELSE BlankLine(v)]]

ScrollUp(v, n) ==
    LET count == AtMost(n, v.bottom - v.top + 1)
        keeps == ~v.alt /\ v.top = 1 /\ v.bottom = v.rows
        kept == IF keeps THEN [v EXCEPT !.back = Latest(@ \o SubSeq(v.lines, 1, count), v.limit)] ELSE v
    IN  Unwrapped(ShiftUp(kept, v.top, v.bottom, count), v.top - 1)
ScrollDown(v, n) ==
    LET count == AtMost(n, v.bottom - v.top + 1)
    IN  Unwrapped(Unwrapped(ShiftDown(v, v.top, v.bottom, count), v.bottom), v.top - 1)

\* lineFeed: wrap is -1 for a newline, and where the row went on for a soft wrap.
LineFeed(v, wrap) ==
    LET r == [v EXCEPT !.lines[v.row].wrap = wrap, !.pending = FALSE]
    IN  IF v.row = v.bottom THEN ScrollUp(r, 1) ELSE [r EXCEPT !.row = AtMost(v.rows, @ + 1)]
ReverseIndex(v) == IF v.row = v.top THEN ScrollDown(v, 1) ELSE [v EXCEPT !.row = AtLeast(1, @ - 1)]

EraseLine(v, mode) ==
    EraseCells(v, v.row, IF mode = 0 THEN v.col ELSE 1, IF mode = 1 THEN v.col ELSE v.cols)
EraseDisplay(v, mode) ==
    CASE mode = 0 -> EraseRows(EraseLine(v, 0), v.row + 1 .. v.rows)
      [] mode = 1 -> EraseLine(EraseRows(v, 1 .. v.row - 1), 1)
      [] mode = 2 -> EraseRows(v, 1 .. v.rows)
      [] OTHER -> EraseRows([v EXCEPT !.back = <<>>], 1 .. v.rows)

-----------------------------------------------------------------------------
(* Characters. *)

\* putCharacter: a character in the last column leaves the cursor there with a wrap pending.
Combine(v, ch) ==
    LET here == IF v.pending THEN v.col ELSE v.col - 1
        cell == IF Continues(v.lines[v.row].cells[here]) /\ here > 1 THEN here - 1 ELSE here
    IN  [v EXCEPT !.lines[v.row].cells[cell].text = Append(@, ch)]
WrapPending(v) == IF v.pending THEN LineFeed([v EXCEPT !.col = 1], v.cols) ELSE v
RoomFor(v, wide) == IF wide /\ v.col = v.cols THEN LineFeed([v EXCEPT !.col = 1], v.cols - 1) ELSE v
PutCells(v, ch, wide) ==
    LET put(c, old) == IF c = v.col THEN Cell(<<ch>>, v.shade)
                       ELSE IF wide /\ c = v.col + 1 THEN Cell(<<>>, v.shade) ELSE old
        next == v.col + (IF wide THEN 2 ELSE 1)
    IN  [v EXCEPT !.lines[v.row].cells = [c \in 1 .. v.cols |-> put(c, @[c])],
                  !.col = AtMost(next, v.cols), !.pending = @ \/ next > v.cols]
PutCharacter(v, ch) ==
    IF ch \in Marks /\ (v.col > 1 \/ v.pending) THEN Combine(v, ch)
    ELSE PutCells(RoomFor(WrapPending(v), ch \in Wide), ch, ch \in Wide)

ControlCharacter(v, ch) ==
    CASE ch = "CR" -> [v EXCEPT !.col = 1, !.pending = FALSE]
      [] ch = "LF" -> LineFeed(v, -1)
      [] ch = "BS" -> [v EXCEPT !.col = AtLeast(1, @ - 1), !.pending = FALSE]
      [] ch = "HT" -> [v EXCEPT !.col = AtMost(v.cols, ((@ - 1) \div 8 + 1) * 8 + 1), !.pending = FALSE]

\* Cursor positions that are remembered may lie outside after a resize, which the faulty variant
\* of restoring forgets.
ClampCursor(v) == [v EXCEPT !.col = Within(1, @, v.cols), !.row = Within(1, @, v.rows)]
SaveCursor(v) == [v EXCEPT !.saved = [row |-> v.row, col |-> v.col]]
RestoreCursorAsSaved(v) == [v EXCEPT !.row = v.saved.row, !.col = v.saved.col]
RestoreCursor(v) == ClampCursor([v EXCEPT !.row = v.saved.row, !.col = v.saved.col])

\* processEscape: ESC 8 leaves a pending wrap as it is.
EscapeSequence(v, ch) ==
    CASE ch = "7" -> SaveCursor(v)
      [] ch = "8" -> RestoreCursor(v)
      [] ch = "D" -> LineFeed(v, -1)
      [] ch = "E" -> LineFeed([v EXCEPT !.col = 1], -1)
      [] ch = "M" -> ReverseIndex(v)
      [] ch = "c" -> Reset(v)

\* Insertion and removal of cells and lines; a count below 1 only ends wraps.
DeleteCells(v, n) ==
    LET count == AtMost(n, v.cols - v.col + 1)
        moved == [v EXCEPT !.lines[v.row].cells =
                    [c \in 1 .. v.cols |-> IF c >= v.col /\ c + count <= v.cols THEN @[c + count] ELSE @[c]]]
    IN  EraseCells(moved, v.row, v.cols - count + 1, v.cols)
InsertCells(v, n) ==
    LET count == AtMost(n, v.cols - v.col + 1)
        moved == [v EXCEPT !.lines[v.row].cells =
                    [c \in 1 .. v.cols |-> IF c - count >= v.col THEN @[c - count] ELSE @[c]]]
    IN  EraseCells(moved, v.row, v.col, v.col + count - 1)
InsertLines(v, n) ==
    LET count == AtMost(n, v.bottom - v.row + 1)
    IN  Unwrapped(Unwrapped(ShiftDown(v, v.row, v.bottom, count), v.row - 1), v.bottom)
DeleteLines(v, n) == Unwrapped(ShiftUp(v, v.row, v.bottom, AtMost(n, v.bottom - v.row + 1)), v.row - 1)

SetRegion(v, from, to) ==
    LET top == Within(1, from, v.rows)
    IN  [v EXCEPT !.top = top, !.bottom = Within(top, to, v.rows), !.row = 1, !.col = 1]

\* processCsi: n and m are its parameters.  Every sequence but SGR and modes ends a pending wrap.
Csi(v, final, n, m) ==
    LET r == CASE final = "A" -> [v EXCEPT !.row = AtLeast(v.top, @ - n)]
               [] final = "B" -> [v EXCEPT !.row = AtMost(v.bottom, @ + n)]
               [] final = "C" -> [v EXCEPT !.col = AtMost(v.cols, @ + n)]
               [] final = "D" -> [v EXCEPT !.col = AtLeast(1, @ - n)]
               [] final = "E" -> [v EXCEPT !.row = AtMost(v.bottom, @ + n), !.col = 1]
               [] final = "F" -> [v EXCEPT !.row = AtLeast(v.top, @ - n), !.col = 1]
               [] final = "G" -> [v EXCEPT !.col = Within(1, n, v.cols)]
               [] final = "d" -> [v EXCEPT !.row = Within(1, n, v.rows)]
               [] final = "H" -> [v EXCEPT !.row = Within(1, n, v.rows), !.col = Within(1, m, v.cols)]
               [] final = "J" -> EraseDisplay(v, n)
               [] final = "K" -> EraseLine(v, n)
               [] final = "r" -> SetRegion(v, n, m)
               [] final = "s" -> SaveCursor(v)
               [] final = "u" -> RestoreCursor(v)
               [] final = "S" -> ScrollUp(v, n)
               [] final = "T" -> ScrollDown(v, n)
               [] final = "X" -> EraseCells(v, v.row, v.col, AtMost(v.cols, v.col + n - 1))
               [] final = "P" -> DeleteCells(v, n)
               [] final = "@" -> InsertCells(v, n)
               [] final = "L" -> InsertLines(v, n)
               [] final = "M" -> DeleteLines(v, n)
    IN  [r EXCEPT !.pending = FALSE]

SelectGraphicRendition(v, shade) == [v EXCEPT !.shade = shade]

\* setAlternateScreen: scrollback and region are shared, the shell's grid is put aside.
EnterAlternate(v) ==
    IF v.alt THEN v
    ELSE [v EXCEPT !.primary = [lines |-> v.lines, row |-> v.row, col |-> v.col, pending |-> v.pending],
                   !.alt = TRUE, !.lines = BlankLines(v), !.row = 1, !.col = 1, !.pending = FALSE]
LeaveAlternate(v, restore) ==
    LET p == v.primary
        back == [v EXCEPT !.lines = p.lines, !.primary = NoScreen, !.alt = FALSE, !.pending = restore /\ p.pending]
    IN  IF ~v.alt THEN v
        ELSE ClampCursor(IF restore THEN [back EXCEPT !.row = p.row, !.col = p.col] ELSE back)

-----------------------------------------------------------------------------
(* resize: soft wraps are joined into logical lines, which are wrapped anew. *)

\* The cells of a row that are text: up to its wrap, or to the last one that is not empty, and for
\* the row of the cursor at least up to the cursor.  The faulty variant drops the blanks before a wrap.
TakenTrimmed(line, insertion) ==
    SubSeq(line.cells, 1, AtLeast(Max({c \in DOMAIN line.cells : ~IsEmptyCell(line.cells[c])} \cup {0}), insertion))
Taken(line, insertion) ==
    LET used == {c \in DOMAIN line.cells : ~IsEmptyCell(line.cells[c])}
        end == IF line.wrap >= 0 THEN AtMost(line.wrap, Len(line.cells)) ELSE Max(used \cup {0})
    IN  SubSeq(line.cells, 1, AtLeast(end, insertion))

\* One logical line: its cells, and the places of the cursor and of the top of the screen in it.
Joined(acc, line, insertion, top) ==
    LET old == IF acc.open THEN Last(acc.lines) ELSE [cells |-> <<>>, cursor |-> 0, top |-> 0]
        rest == IF acc.open THEN Front(acc.lines) ELSE acc.lines
        at == Len(old.cells)
    IN  [lines |-> Append(rest,
            [cells |-> old.cells \o Taken(line, insertion),
             cursor |-> IF insertion >= 0 THEN at + insertion + 1 ELSE old.cursor,
             top |-> IF top THEN at + 1 ELSE old.top]),
         open |-> line.wrap >= 0]

\* Where the rows of a logical line begin; a wide character is not split.
RowStarts(cells, cols) ==
    LET step(starts, k) ==
            LET target == k - Last(starts)
                split == k < Len(cells) /\ Continues(cells[k + 1])
            IN  IF target = cols \/ (target = cols - 1 /\ split) THEN Append(starts, k) ELSE starts
    IN  FoldLeftDomain(step, <<1>>, cells)
RowOf(starts, place) == Max({i \in DOMAIN starts : starts[i] <= place})

\* The rows of a logical line on a screen v of the new width.
Wrapped(v, cells, starts) ==
    [i \in DOMAIN starts |->
        LET end == IF i < Len(starts) THEN starts[i + 1] - 1 ELSE Len(cells)
            used == end - starts[i] + 1
        IN  [cells |-> [c \in 1 .. v.cols |-> IF c <= used THEN cells[starts[i] + c - 1] ELSE Blank(v)],
             wrap |-> IF i < Len(starts) THEN used ELSE -1]]

\* The logical lines of the scrollback and of a grid g of the old width, down to its last text.
LogicalLines(v, g) ==
    LET insertion == IF g.pending THEN Len(g.lines[g.row].cells) ELSE g.col - 1
        busy == {r \in DOMAIN g.lines : g.lines[r].wrap >= 0 \/ \E c \in DOMAIN g.lines[r].cells :
                                            ~IsEmptyCell(g.lines[r].cells[c])}
        line(r) == IF r <= Len(v.back) THEN v.back[r] ELSE g.lines[r - Len(v.back)]
        join(acc, i) == LET r == i - Len(v.back) IN Joined(acc, line(i), IF r = g.row THEN insertion ELSE -1, r = 1)
    IN  FoldLeft(join, [lines |-> <<>>, open |-> FALSE],
                 [i \in 1 .. Len(v.back) + Max(busy \cup {g.row}) |-> i]).lines

\* The rows of logical lines on a screen v of the new size: scrollback, grid and cursor.
PutOnScreen(v, rows, start, row, col) ==
    [back |-> Latest(SubSeq(rows, 1, start), v.limit),
     lines |-> [r \in 1 .. v.rows |-> IF start + r <= Len(rows) THEN rows[start + r] ELSE BlankLine(v)],
     row |-> Within(1, row - start, v.rows),
     col |-> AtMost(col, v.cols), pending |-> col > v.cols]
Laid(v, joined, starts, keepTop) ==
    LET above(i) == FoldLeft(LAMBDA n, s : n + Len(s), 0, SubSeq(starts, 1, i - 1))
        here == CHOOSE i \in DOMAIN joined : joined[i].cursor > 0
        first == CHOOSE i \in DOMAIN joined : joined[i].top > 0
        row == RowOf(starts[here], joined[here].cursor)
        top == IF keepTop THEN above(first) + RowOf(starts[first], joined[first].top) - 1 ELSE 0
    IN  PutOnScreen(v, FlattenSeq([i \in DOMAIN joined |-> Wrapped(v, joined[i].cells, starts[i])]),
                    AtLeast(top, above(Len(joined) + 1) - v.rows),
                    above(here) + row, joined[here].cursor - starts[here][row] + 1)
Rewrapped(v, joined, keepTop) == Laid(v, joined, [i \in DOMAIN joined |-> RowStarts(joined[i].cells, v.cols)], keepTop)
Reflow(v, g, keepTop) == Rewrapped(v, LogicalLines(v, g), keepTop)

\* A full-screen program keeps its rectangle and draws anew.
Rectangle(v, old) ==
    [r \in 1 .. v.rows |->
        [cells |-> [c \in 1 .. v.cols |->
            IF r <= old.rows /\ c <= old.cols THEN old.lines[r].cells[c] ELSE Blank(v)],
         wrap |-> IF r <= old.rows /\ v.cols = old.cols THEN old.lines[r].wrap ELSE -1]]

\* Where a reflowed shell goes: on the screen, or aside under a full-screen program.
WithShell(v, old, shell) ==
    LET laid == [v EXCEPT !.back = shell.back]
        grid == [lines |-> shell.lines, row |-> shell.row, col |-> shell.col, pending |-> shell.pending]
    IN  IF v.alt THEN ClampCursor([laid EXCEPT !.primary = grid, !.lines = Rectangle(v, old), !.pending = FALSE])
        ELSE [laid EXCEPT !.lines = shell.lines, !.row = shell.row, !.col = shell.col, !.pending = shell.pending]
Resized(v, old) == WithShell(v, old, Reflow(v, IF v.alt THEN v.primary ELSE v, v.alt /\ v.rows >= old.rows))
Resize(v, cols, rows) ==
    IF cols = v.cols /\ rows = v.rows THEN v
    ELSE Resized([v EXCEPT !.cols = cols, !.rows = rows, !.top = 1, !.bottom = rows], v)

-----------------------------------------------------------------------------
(* What the screen says: all of a document, for the search and the selection. *)

HistoryLineCount(v) == IF v.alt THEN 0 ELSE Len(v.back)
DocumentLines(v) == (IF v.alt THEN <<>> ELSE v.back) \o v.lines
LineText(line) == FlattenSeq([c \in DOMAIN line.cells |-> line.cells[c].text])
=============================================================================
