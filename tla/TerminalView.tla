---------------------------- MODULE TerminalView ----------------------------
(***************************************************************************)
(* The terminal of a pane (TerminalView) over its screen.  A screen is     *)
(* driven in one of two ways.  Either a program draws on it with every     *)
(* control the screen knows, while the window is resized and its text is   *)
(* searched; or a shell edits one command line: keys travel to it, what it *)
(* draws travels back, and the view keeps its own copy of the line for the *)
(* command history and moves the shell's cursor when the user clicks.      *)
(*                                                                         *)
(* The shell is outside the code: after each key it draws its line anew.   *)
(* The selection, the input method, the mouse of programs, the marks of    *)
(* command blocks and all drawing are left out.                            *)
(***************************************************************************)
EXTENDS TerminalModel, FiniteSets

CONSTANTS
    Sizes,              \* sizes <<columns, rows>> of the window
    Starts,             \* what a program has drawn already: sequences of outputs
    Outputs,            \* what it may draw next
    Query,              \* the text searched for
    PromptSign,         \* the character a prompt ends with, before a space
    Letters,            \* what is typed
    Pastes,             \* what is pasted: sequences of letters and Enter
    Recalled,           \* the line that Up, Tab and the like bring, unknown to the view
    Limits,             \* limits of the scrollback
    MaxSteps,           \* outputs and resizes
    MaxKeys,            \* keys and clicks
    MaxLine             \* characters of a command line

ASSUME ViewAssumption ==
    /\ \A size \in Sizes : size[1] \in Nat /\ size[2] \in Nat /\ size[1] >= 2 /\ size[2] >= 2
    /\ Limits \subseteq Nat \ {0} /\ Letters \subseteq (Narrow \cup Wide) \ {PromptSign, Space}
    /\ PromptSign \in Narrow \ {Space} /\ Query # <<>>
    /\ Pastes \subseteq Seq(Letters \cup {"Enter"})
    /\ MaxSteps \in Nat /\ MaxKeys \in Nat /\ MaxLine \in Nat

VARIABLES
    screen,             \* the screen
    view,               \* what the view keeps beside it
    shell,              \* the command line as the shell has it, and whether a shell is there at all
    wire,               \* keys on their way to the shell
    echo,               \* what the shell drew, on its way back
    steps               \* a bound

vars == <<screen, view, shell, wire, echo, steps>>

Place(line, col) == [line |-> line, col |-> col]
NoPlace == Place(0, 0)
NewView ==
    [scroll |-> 0, shown |-> FALSE, matches |-> <<>>, current |-> 0, due |-> FALSE, missed |-> FALSE,
     command |-> <<>>, cursor |-> 0, sure |-> TRUE, click |-> NoPlace, blind |-> FALSE, hasty |-> FALSE]

-----------------------------------------------------------------------------
(* Output. *)

Feed(s, out) ==
    CASE out.kind = "character" -> PutCharacter(s, out.what)
      [] out.kind = "control" -> ControlCharacter(s, out.what)
      [] out.kind = "escape" -> EscapeSequence(s, out.what)
      [] out.kind = "csi" -> Csi(s, out.what, out.n, out.m)
      [] out.kind = "shade" -> SelectGraphicRendition(s, out.n = 1)
      [] out.kind = "enter" -> EnterAlternate(s)
      [] out.kind = "leave" -> LeaveAlternate(s, out.n = 1)
FeedAll(s, outs) == FoldLeft(Feed, s, outs)
Out(kind, what, n, m) == [kind |-> kind, what |-> what, n |-> n, m |-> m]

\* updateScrollBar: its range is the scrollback, and its value is kept inside.
Scrolled(w, s, follow) == [w EXCEPT !.scroll = IF follow THEN HistoryLineCount(s) ELSE AtMost(@, HistoryLineCount(s))]

-----------------------------------------------------------------------------
(* The search. *)

\* The column up to which a line shows so many characters of its text.  The faulty variant takes
\* every character to be as wide as its cell.
CharactersAreColumns(line, offset) == offset
ColumnForTextOffset(line, offset) ==
    LET reached == {c \in DOMAIN line.cells :
                        Len(LineText([cells |-> SubSeq(line.cells, 1, c)])) >= offset}
        c == Min(reached)
        wide == c < Len(line.cells) /\ Continues(line.cells[c + 1])
    IN  IF offset = 0 THEN 0 ELSE IF reached = {} THEN Len(line.cells) ELSE c + (IF wide THEN 1 ELSE 0)

\* Where the query begins in a text, one occurrence after the other.
Occurrences(text) ==
    LET q == Len(Query)
        step(found, k) ==
            IF SubSeq(text, k, k + q - 1) = Query /\ (found = <<>> \/ k >= Last(found) + q)
            THEN Append(found, k) ELSE found
    IN  FoldLeft(step, <<>>, [k \in 1 .. AtLeast(0, Len(text) - q + 1) |-> k])

MatchesIn(i, line, found) ==
    [k \in DOMAIN found |-> [line |-> i, from |-> ColumnForTextOffset(line, found[k] - 1),
                             to |-> ColumnForTextOffset(line, found[k] - 1 + Len(Query))]]
MatchesOf(doc) ==
    SelectSeq(FlattenSeq([i \in DOMAIN doc |-> MatchesIn(i, doc[i], Occurrences(LineText(doc[i])))]),
              LAMBDA match : match.to > match.from)

\* rebuildSearchMatches: the current match stays where it was, or is the first one in sight.
CurrentOf(w, found, preserve) ==
    LET same == {i \in DOMAIN found : found[i].line = w.matches[w.current].line
                                      /\ found[i].from = w.matches[w.current].from}
        visible == {i \in DOMAIN found : found[i].line > w.scroll}
    IN  IF found = <<>> THEN 0
        ELSE IF preserve /\ w.current > 0 /\ same # {} THEN Min(same)
        ELSE Min(visible \cup (IF visible = {} THEN {1} ELSE {}))
WithMatches(w, found, preserve) ==
    [w EXCEPT !.matches = found, !.current = CurrentOf(w, found, preserve), !.due = FALSE, !.missed = FALSE]
RebuildSearchMatches(w, s, preserve) == WithMatches(w, MatchesOf(DocumentLines(s)), preserve)

ScrollToCurrentSearchMatch(w, s) ==
    LET line == w.matches[w.current].line - 1
        to == IF line < w.scroll THEN line
              ELSE IF line > w.scroll + s.rows - 1 THEN line - s.rows + 1 ELSE w.scroll
    IN  [w EXCEPT !.scroll = Within(0, to, HistoryLineCount(s))]

\* findNext and findPrevious; by is 1 or -1.
StepMatch(w, s, by) ==
    IF w.matches = <<>> THEN w
    ELSE ScrollToCurrentSearchMatch([w EXCEPT !.current = ((@ - 1 + by + Len(w.matches)) % Len(w.matches)) + 1], s)
Found(w, s, by) == StepMatch(IF w.due \/ w.matches = <<>> THEN RebuildSearchMatches(w, s, TRUE) ELSE w, s, by)

-----------------------------------------------------------------------------
(* feedText, clear, updateGridSize, applyPreferences. *)

DocumentCursor(s) == Place(HistoryLineCount(s) + s.row, s.col)

Rescrolled(w, old, new, follow) ==
    IF old.alt = new.alt
    THEN Scrolled(IF DocumentCursor(new) = w.click THEN [w EXCEPT !.click = NoPlace] ELSE w, new, follow)
    ELSE Scrolled(RebuildSearchMatches([w EXCEPT !.click = NoPlace, !.command = <<>>, !.cursor = 0, !.sure = TRUE],
                                       new, FALSE), new, TRUE)
FeedText(w, old, new) ==
    [Rescrolled(w, old, new, w.scroll = HistoryLineCount(old)) EXCEPT !.due = @ \/ w.shown]

Cleared(w, s) == Scrolled(RebuildSearchMatches([w EXCEPT !.click = NoPlace], s, FALSE), s, TRUE)

\* A resize under the alternate screen, and a new limit of the scrollback, leave the matches as they are.
ViewResized(w, s) ==
    LET r == Scrolled([w EXCEPT !.click = NoPlace], s, TRUE)
    IN  IF ~s.alt /\ w.shown THEN RebuildSearchMatches(r, s, TRUE) ELSE [r EXCEPT !.missed = TRUE]

-----------------------------------------------------------------------------
(* The command line on the screen. *)

TrimmedTo(line, least) ==
    LET used == {c \in DOMAIN line.cells : line.cells[c].text # <<Space>>} IN AtLeast(Max(used \cup {0}), least)

\* shellInputLine: the cells of the logical line the cursor is in, with the place after them.
InputCells(s) ==
    LET doc == DocumentLines(s)
        here == DocumentCursor(s).line
        first == Min({i \in 1 .. here : \A j \in i .. here - 1 : doc[j].wrap >= 0})
        last == Max({i \in here .. Len(doc) : \A j \in here .. i - 1 : doc[j].wrap >= 0})
        width(i) == IF doc[i].wrap >= 0 THEN doc[i].wrap ELSE TrimmedTo(doc[i], IF i = here THEN s.col - 1 ELSE 0)
        at(i) == SelectSeq([c \in 1 .. width(i) |-> [place |-> Place(i, c), text |-> doc[i].cells[c].text]],
                           LAMBDA cell : cell.text # <<>>)
    IN  FlattenSeq([k \in 1 .. last - first + 1 |-> at(first + k - 1)])
        \o <<[place |-> Place(last, width(last) + 1), text |-> <<>>]>>

NoInput == [ok |-> FALSE, command |-> <<>>, first |-> 0, cursor |-> 0, cells |-> <<>>]
ShellInputLine(s) ==
    LET cells == InputCells(s)
        text == FlattenSeq([i \in DOMAIN cells |-> cells[i].text])
        plain == \A i \in 1 .. Len(cells) - 1 : Len(cells[i].text) = 1
        prompt == plain /\ text # <<>> /\ text[1] = PromptSign
        letters == {i \in 2 .. Len(text) : text[i] # Space}
        start == IF letters = {} THEN Len(text) + 1 ELSE Min(letters)
        cursor == SelectInSeq(cells, LAMBDA cell : cell.place = DocumentCursor(s))
    IN  IF s.alt \/ s.pending \/ ~prompt \/ cursor < start THEN NoInput
        ELSE [ok |-> TRUE, command |-> SubSeq(text, start, Len(text)), first |-> start, cursor |-> cursor, cells |-> cells]

\* commandFromCurrentScreenLine, with its second guess at the row of the cursor.
CommandFromScreen(s) ==
    LET input == ShellInputLine(s)
        line == s.lines[s.row]
        text == LineText([cells |-> SubSeq(line.cells, 1, TrimmedTo(line, 0))])
        ends == {i \in 2 .. Len(text) : text[i - 1] = PromptSign /\ text[i] = Space}
    IN  IF input.ok THEN input.command
        ELSE IF ends = {} THEN <<>> ELSE SubSeq(text, Max(ends) + 1, Len(text))

-----------------------------------------------------------------------------
(* Keys: what the view makes of them, and what the shell does. *)

Edit(line, cursor) == [line |-> line, cursor |-> cursor]
Insert(e, ch) == Edit(InsertAt(e.line, e.cursor + 1, ch), e.cursor + 1)
Without(line, from, to) == SubSeq(line, 1, from - 1) \o SubSeq(line, to + 1, Len(line))

\* What readline does, and trackKeyForCommand with it for the keys it knows.
Edited(e, key) ==
    CASE key \in Letters -> Insert(e, key)
      [] key = "Backspace" -> IF e.cursor = 0 THEN e ELSE Edit(Without(e.line, e.cursor, e.cursor), e.cursor - 1)
      [] key = "Delete" -> Edit(Without(e.line, e.cursor + 1, AtMost(e.cursor + 1, Len(e.line))), e.cursor)
      [] key = "Left" -> Edit(e.line, AtLeast(0, e.cursor - 1))
      [] key = "Right" -> Edit(e.line, AtMost(Len(e.line), e.cursor + 1))
      [] key = "Home" -> Edit(e.line, 0)
      [] key = "End" -> Edit(e.line, Len(e.line))
      [] key = "Ctrl-U" -> Edit(Without(e.line, 1, e.cursor), 0)
      [] key = "Ctrl-K" -> Edit(SubSeq(e.line, 1, e.cursor), e.cursor)
      [] key \in {"Ctrl-C", "Enter"} -> Edit(<<>>, 0)
Known == Letters \cup {"Backspace", "Delete", "Left", "Right", "Home", "End", "Ctrl-U", "Ctrl-K"}

\* Up, Down, Tab and words are the shell's affair: the line is read from the screen later.  The
\* faulty variant goes on as if it knew.
TrackKeyBlindly(w, key) ==
    LET e == Edited(Edit(w.command, w.cursor), key)
    IN  IF key \in Known THEN [w EXCEPT !.command = e.line, !.cursor = e.cursor] ELSE w
TrackKey(w, key) ==
    LET e == Edited(Edit(w.command, w.cursor), key)
    IN  CASE key \in Known -> [w EXCEPT !.command = e.line, !.cursor = e.cursor]
          [] key = "Up" -> [w EXCEPT !.sure = FALSE]
          [] key = "Ctrl-W" -> [w EXCEPT !.blind = TRUE]

\* submitTrackedCommand
Submitted(w, s) ==
    LET seen == CommandFromScreen(s) IN IF ~w.sure /\ seen # <<>> THEN seen ELSE w.command
Forgotten(w) == [w EXCEPT !.command = <<>>, !.cursor = 0, !.sure = TRUE, !.blind = FALSE]

\* The shell has one line to recall, and takes the last word away with Ctrl-W.
ShellEdited(e, key) ==
    CASE key = "Up" -> Edit(Recalled, Len(Recalled))
      [] key = "Ctrl-W" -> Edit(Without(e.line, 1, e.cursor), 0)
      [] OTHER -> Edited(e, key)

\* It goes back to its prompt, erases what follows, and draws the line and its cursor.
Prompt == <<PromptSign, Space>>
\* How far a text reaches on rows of so many columns; a wide character is not split.
Reach(cols, text) ==
    FoldLeft(LAMBDA at, ch : IF ch \notin Wide THEN at + 1 ELSE IF at % cols = cols - 1 THEN at + 3 ELSE at + 2, 0, text)
CursorOffset(cols, e) ==
    LET before == Reach(cols, Prompt \o SubSeq(e.line, 1, e.cursor))
        pushed == e.cursor < Len(e.line) /\ e.line[e.cursor + 1] \in Wide /\ before % cols = cols - 1
    IN  IF pushed THEN before + 1 ELSE before
Move(final, n) == IF n > 0 THEN <<Out("csi", final, n, 1)>> ELSE <<>>
Return == <<Out("control", "CR", 1, 1)>>
Drawn(cols, from, e) ==
    LET text == Prompt \o e.line
        end == Reach(cols, text)
        at == CursorOffset(cols, e)
        full == IF end % cols = 0 THEN <<Out("character", Space, 1, 1)>> \o Return ELSE <<>>
    IN  Move("A", from \div cols) \o Return \o <<Out("csi", "J", 0, 1)>>
        \o [i \in DOMAIN text |-> Out("character", text[i], 1, 1)] \o full
        \o Move("A", end \div cols - at \div cols) \o Return \o Move("C", at % cols)

Response(cols, e, key) ==
    LET next == ShellEdited(e, key)
        whole == Drawn(cols, CursorOffset(cols, e), Edit(e.line, Len(e.line)))
    IN  IF key \in {"Enter", "Ctrl-C"} THEN whole \o Return \o <<Out("control", "LF", 1, 1)>> \o Drawn(cols, 0, next)
        ELSE Drawn(cols, CursorOffset(cols, e), next)

-----------------------------------------------------------------------------
(* Steps. *)

Init ==
    /\ view = NewView /\ wire = <<>> /\ echo = <<>> /\ steps = 0
    /\ \E size \in Sizes, busy \in BOOLEAN, start \in Starts :
          LET blank == NewScreen(size[1], size[2], Max(Limits))
          IN  \/ ~busy /\ shell = [there |-> FALSE, line |-> <<>>, cursor |-> 0] /\ screen = FeedAll(blank, start)
              \/ busy /\ shell = [there |-> TRUE, line |-> <<>>, cursor |-> 0]
                      /\ screen = FeedAll(blank, Drawn(size[1], 0, Edit(<<>>, 0)))

Bounded(bound) == steps < bound /\ steps' = steps + 1
Program == ~shell.there /\ UNCHANGED <<shell, wire, echo>>
Draws(kinds) ==
    /\ Program /\ Bounded(MaxSteps)
    /\ \E out \in Outputs : out.kind \in kinds /\ screen' = Feed(screen, out) /\ view' = FeedText(view, screen, screen')

Characters == Draws({"character", "control"})
Sequences == Draws({"escape", "csi", "shade"})
Screens == Draws({"enter", "leave"})

ResizeTo(size) ==
    /\ Program /\ Bounded(MaxSteps) /\ size # <<screen.cols, screen.rows>>
    /\ screen' = Resize(screen, size[1], size[2]) /\ view' = ViewResized(view, screen')
ResizeWindow == \E size \in Sizes : ResizeTo(size)
ClearTerminal ==
    /\ Program /\ Bounded(MaxSteps)
    /\ \E modes \in BOOLEAN : screen' = IF modes THEN Reset(screen) ELSE Clear(screen)
    /\ view' = Cleared(view, screen')
ChangeLimit == \E limit \in Limits \ {screen.limit} :
    /\ Program /\ Bounded(MaxSteps)
    /\ screen' = SetHistoryLimit(screen, limit) /\ view' = [Scrolled(view, screen', FALSE) EXCEPT !.missed = TRUE]

Searches(w) == Program /\ view' = w /\ UNCHANGED <<screen, steps>>
ShowSearch == ~view.shown /\ Searches(RebuildSearchMatches([view EXCEPT !.shown = TRUE], screen, TRUE))
HideSearch == view.shown /\ Searches([view EXCEPT !.shown = FALSE, !.matches = <<>>, !.current = 0, !.due = FALSE])
Find == view.shown /\ \E by \in {1, -1} : Searches(Found(view, screen, by))
RefreshSearch == view.due /\ Searches(RebuildSearchMatches(view, screen, TRUE))
TurnWheel == \E by \in {3, -3} : Searches([view EXCEPT !.scroll = Within(0, @ + by, HistoryLineCount(screen))])

AtShell == shell.there /\ Bounded(MaxKeys)
Pressed(key, claim, vouched) == [key |-> key, claim |-> claim, vouched |-> vouched]
Settled == wire = <<>> /\ echo = <<>>

\* The command line stays on the screen: beyond it a shell scrolls what it cannot draw anew.
LineFits(typed) ==
    /\ Len(shell.line) + Len(wire) + typed <= MaxLine
    /\ Reach(screen.cols, Prompt \o shell.line) + 3 * (Len(wire) + typed) < screen.cols * screen.rows

PressKey(key) ==
    /\ AtShell /\ UNCHANGED <<screen, shell, echo>>
    /\ key \in Letters => LineFits(1)
    /\ view' = TrackKey([view EXCEPT !.click = NoPlace], key)
    /\ wire' = Append(wire, Pressed(key, <<>>, FALSE))
Type == \E key \in Known \cup {"Up", "Ctrl-W"} : PressKey(key)
PressEnter ==
    /\ AtShell /\ UNCHANGED <<screen, shell, echo>>
    /\ view' = Forgotten([view EXCEPT !.click = NoPlace])
    /\ wire' = Append(wire, Pressed("Enter", Submitted(view, screen), ~view.blind /\ (view.sure \/ Settled)))
SendInterrupt ==
    /\ AtShell /\ UNCHANGED <<screen, shell, echo>>
    /\ view' = Forgotten([view EXCEPT !.click = NoPlace])
    /\ wire' = Append(wire, Pressed("Ctrl-C", <<>>, FALSE))

\* trackTextForCommand: a pasted newline submits, as Enter does.
TrackText(w, text) ==
    LET step(acc, key) ==
            IF key = "Enter"
            THEN [view |-> Forgotten(acc.view),
                  keys |-> Append(acc.keys, Pressed(key, Submitted(acc.view, screen), ~acc.view.blind /\ acc.view.sure))]
            ELSE [view |-> TrackKey(acc.view, key), keys |-> Append(acc.keys, Pressed(key, <<>>, FALSE))]
    IN  FoldLeft(step, [view |-> w, keys |-> <<>>], text)

\* A paste that the user confirmed and that the shell takes as if it were typed.
SendPaste ==
    /\ AtShell /\ UNCHANGED <<screen, shell, echo>>
    /\ \E text \in Pastes :
          /\ LineFits(Len(text))
          /\ \E typed \in {TrackText([view EXCEPT !.click = NoPlace], text)} :
                view' = typed.view /\ wire' = wire \o typed.keys

\* moveShellCursorTo: arrows from the cursor on the screen to the character under the click.  The
\* faulty variant counts columns.
Arrows(n) == [i \in 1 .. AtLeast(n, -n) |-> Pressed(IF n < 0 THEN "Left" ELSE "Right", <<>>, FALSE)]
ArrowsByColumn(input, target) == Arrows(input.cells[target].place.col - input.cells[input.cursor].place.col)
ArrowsTo(input, target) == Arrows(target - input.cursor)

After(cell, place) == cell.line > place.line \/ (cell.line = place.line /\ cell.col > place.col)
Target(input, place) ==
    LET ahead == {i \in input.first .. Len(input.cells) : After(input.cells[i].place, place)}
    IN  IF ahead = {} THEN Len(input.cells) ELSE Min(ahead) - 1
MoveInLine(input, place, target) ==
    /\ input.command # <<>>
    /\ place.line <= Last(input.cells).place.line /\ ~After(input.cells[input.first].place, place)
    /\ view' = [view EXCEPT !.sure = FALSE, !.hasty = ~Settled,
                            !.click = IF target = input.cursor THEN NoPlace ELSE input.cells[target].place]
    /\ wire' = wire \o ArrowsTo(input, target)
MoveShellCursorTo(place) ==
    /\ view.click = NoPlace /\ ~view.shown /\ view.scroll = HistoryLineCount(screen)
    /\ \E input \in {ShellInputLine(screen)} : input.ok /\ MoveInLine(input, place, Target(input, place))
Click ==
    /\ AtShell /\ UNCHANGED <<screen, shell, echo>>
    /\ \E row \in 1 .. screen.rows, col \in 1 .. screen.cols : MoveShellCursorTo(Place(view.scroll + row, col))

ShellReads ==
    /\ wire # <<>>
    /\ LET next == ShellEdited(shell, Head(wire).key)
       IN  /\ shell' = [shell EXCEPT !.line = next.line, !.cursor = next.cursor]
           /\ echo' = Append(echo, Response(screen.cols, shell, Head(wire).key))
    /\ wire' = Tail(wire) /\ UNCHANGED <<screen, view, steps>>
EchoArrives ==
    /\ echo # <<>>
    /\ screen' = FeedAll(screen, Head(echo)) /\ view' = FeedText(view, screen, screen')
    /\ echo' = Tail(echo) /\ UNCHANGED <<shell, wire, steps>>

Next ==
    \/ Characters \/ Sequences \/ Screens \/ ResizeWindow \/ ClearTerminal \/ ChangeLimit
    \/ ShowSearch \/ HideSearch \/ Find \/ RefreshSearch \/ TurnWheel
    \/ Type \/ PressEnter \/ SendInterrupt \/ SendPaste \/ Click \/ ShellReads \/ EchoArrives

Spec == Init /\ [][Next]_vars

-----------------------------------------------------------------------------
(* Properties. *)

ScreenLine(cols) == [cells : [1 .. cols -> [text : Seq(Narrow \cup Wide \cup Marks), shade : BOOLEAN]], wrap : -1 .. cols]
GridIsSound(g) ==
    /\ Len(g.lines) = screen.rows /\ \A r \in 1 .. screen.rows : g.lines[r] \in ScreenLine(screen.cols)
    /\ g.row \in 1 .. screen.rows /\ g.col \in 1 .. screen.cols

\* Whatever is drawn, resized or restored, the cursor and the region lie on the screen, both grids
\* and the scrollback have rows of its width, and the scroll bar and the tracked cursor stay inside
\* what they index: cells are read by those numbers without a check (VtTerminalModel::index).
ScreenIsSound ==
    /\ GridIsSound(screen) /\ (screen.alt => GridIsSound(screen.primary))
    /\ \A i \in DOMAIN screen.back : screen.back[i] \in ScreenLine(screen.cols)
    /\ Len(screen.back) <= screen.limit
    /\ 1 <= screen.top /\ screen.top <= screen.bottom /\ screen.bottom <= screen.rows
    /\ view.scroll \in 0 .. HistoryLineCount(screen)
    /\ view.current \in 0 .. Len(view.matches) /\ view.cursor \in 0 .. Len(view.command)

\* What the shell has written: scrollback and grid, rows joined over soft wraps, without the blanks
\* that end a line and the empty lines that end the text.
Stripped(text, blank) == SubSeq(text, 1, Max({i \in DOMAIN text : text[i] # blank} \cup {0}))
ShellGrid(s) == IF s.alt THEN s.primary ELSE s
ShellText(s) ==
    LET join(acc, line) ==
            LET cells == IF line.wrap >= 0 THEN SubSeq(line.cells, 1, line.wrap) ELSE line.cells
                text == (IF acc.open THEN Last(acc.lines) ELSE <<>>) \o LineText([cells |-> cells])
            IN  [lines |-> Append(IF acc.open THEN Front(acc.lines) ELSE acc.lines, text), open |-> line.wrap >= 0]
        lines == FoldLeft(join, [lines |-> <<>>, open |-> FALSE], s.back \o ShellGrid(s).lines).lines
        stripped == [i \in DOMAIN lines |-> Append(Stripped(lines[i], Space), "newline")]
    IN  Stripped(FlattenSeq(stripped), "newline")

\* A row that is wrapped short of its end, for a wide character, has padding that a cursor may be moved to.
CursorInPadding(g) ==
    LET wrap == g.lines[g.row].wrap IN wrap >= 0 /\ (IF g.pending THEN Len(g.lines[g.row].cells) ELSE g.col - 1) > wrap

\* No resize, forth or back, in either screen, and nothing that a program draws in the alternate
\* screen costs a character of what the shell wrote (reflow: "joining them before rewrapping makes
\* narrowing and widening reversible, even repeatedly"), but for the oldest lines of a full
\* scrollback and the scrollback that is erased on purpose.  Exception, against that comment
\* (VtTerminalModel.cpp:82-84): a resize while the cursor stands in the padding of a row that is
\* wrapped short of its end, before a wide character (CursorInPadding).
TextSurvives ==
    [][LET resized == <<screen.cols, screen.rows>> # <<screen'.cols, screen'.rows>>
           erased == screen' = Reset(screen) \/ (screen.back # <<>> /\ screen'.back = <<>>)
           text == ShellText(screen)
           now == ShellText(screen')
       IN  (IF resized THEN ~CursorInPadding(ShellGrid(screen)) ELSE (screen.alt \/ screen'.alt) /\ ~erased)
           => now = text \/ (Len(screen'.back) = screen'.limit /\ IsSuffix(now, text))]_screen

\* Enter puts into the history of commands what the shell executes, though keys and echo travel and
\* the line is edited by recall, by clicks and on several rows.  Not vouched for: a line read from
\* the screen while keys or echo are still on their way, and keys the view does not know.  An empty
\* line may still be taken for what was typed before it was emptied.
CommandsAreTrue ==
    wire # <<>> /\ Head(wire).key = "Enter" /\ Head(wire).vouched /\ shell.line # <<>>
        => Head(wire).claim = shell.line

\* A click in the command line brings the cursor to the character clicked, over wide characters and
\* wrapped rows, so that the next click is not refused for good (m_pendingClickPosition).  Exception:
\* a click while keys or echo are still on their way (hasty), which counts from an old cursor.
ClickArrives == Settled /\ ~view.hasty => view.click = NoPlace

\* Find next and previous bring into sight a place where the query stands, though characters are
\* wide or combined and text has scrolled since.  Exception: after a resize under the alternate screen
\* or a new limit of the scrollback, which do not look for the matches again (missed), until that is
\* done.
FindShowsQuery ==
    [][Find /\ ~view'.missed /\ view'.current > 0 =>
        LET match == view'.matches[view'.current]
            line == DocumentLines(screen)[match.line]
        IN  /\ match.line - view'.scroll \in 1 .. screen.rows
            /\ IsPrefix(Query, LineText([cells |-> SubSeq(line.cells, match.from + 1, match.to)]))]_vars
=============================================================================
