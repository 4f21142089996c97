--------------------------- MODULE TerminalScreen ---------------------------
(***************************************************************************)
(* The screen model of termd/src/net/screen.rs: the grid of cached lines   *)
(* that the supervisor's journal and the daemon's mirror keep of a         *)
(* terminal, and the snapshot they send to a client that attaches.  A      *)
(* snapshot is itself terminal output: the client's emulator, or another   *)
(* TerminalScreen, has to reach the same screen by interpreting it.        *)
(*                                                                         *)
(* Output is a sequence of tokens, one per printed character or control    *)
(* sequence, so a screen is the fold of Apply over the tokens.  A read of  *)
(* the PTY may cut a control sequence or a UTF-8 character in two: the     *)
(* field `half` is then "control" or "utf8", and the rest arrives with the *)
(* next token.  A style is the set of its attributes: "bold" stands for    *)
(* the flags and "red" for the colours.  The modes that are only stored    *)
(* and restored (keypad, paste, mouse) are one mode, "paste".  Row and     *)
(* column numbers start at 0.                                              *)
(***************************************************************************)
EXTENDS Integers, Sequences, SequencesExt, FiniteSetsExt

CONSTANTS MaxCached,    \* DEFAULT_MAX_CACHED_LINES
          Sizes,        \* the <<rows, cols>> the terminal may be resized to
          Glyphs,       \* the characters printed: "a" is narrow, "w" is wide
          MaxToken      \* bound: tokens the program writes

ASSUME ScreenAssumption ==
          /\ Sizes \subseteq (Nat \ {0}) \X (Nat \ {0})
          /\ Sizes # {}
          /\ Glyphs \subseteq {"a", "w"}
          /\ MaxCached \in Nat
          /\ MaxToken \in Nat

VARIABLES scr,          \* the TerminalScreen
          tokens        \* tokens written so far

screenVars == <<scr, tokens>>

Plain == {}
ScreenStyles == SUBSET {"bold", "red"}
ScreenModes == {"wrap", "origin", "insert", "paste"}
DefaultModes == {"wrap"}

Cell(ch, style) == [ch |-> ch, style |-> style]
StyledBlank(style) == Cell("blank", style)
Continuation(style) == Cell("continuation", style)
IsBlank(line) == \A i \in DOMAIN line.cells : line.cells[i] = StyledBlank(Plain)
BlankLine(cols, style, touched) ==
    [cells |-> [i \in 1..cols |-> StyledBlank(style)], touched |-> touched]
BlankLines(n, cols, style, touched) ==
    [i \in 1..n |-> BlankLine(cols, style, touched)]

\* The part of a screen that entering the alternate screen saves.
Buffer(rows, cols) ==
    [lines |-> BlankLines(rows, cols, Plain, FALSE), row |-> 0, col |-> 0,
     saved |-> <<>>, style |-> Plain, modes |-> DefaultModes,
     top |-> 0, bottom |-> rows]

\* The screen s with the buffer b in the place of its own.
WithBuffer(s, b) ==
    [lines |-> b.lines, row |-> b.row, col |-> b.col, saved |-> b.saved,
     style |-> b.style, modes |-> b.modes, top |-> b.top, bottom |-> b.bottom,
     rows |-> s.rows, cols |-> s.cols, max |-> s.max, normal |-> s.normal,
     half |-> s.half, cut |-> s.cut]

NewScreen(rows, cols) ==
    WithBuffer([rows |-> rows, cols |-> cols, max |-> Max({MaxCached, rows}),
                normal |-> <<>>, half |-> "none", cut |-> FALSE],
               Buffer(rows, cols))

Alternate(s) == s.normal # <<>>
VisibleStart(s) == Max({Len(s.lines) - s.rows, 0})
LineIndex(s, row) == VisibleStart(s) + Min({row, s.rows - 1}) + 1

TrimLines(s) ==
    LET keep == IF Alternate(s) THEN s.rows ELSE s.max
        over == Max({Len(s.lines) - keep, 0})
    IN  [s EXCEPT !.lines = SubSeq(s.lines, over + 1, Len(s.lines))]

InsertVisibleLine(s, index) ==
    TrimLines([s EXCEPT !.lines =
        InsertAt(s.lines, Min({index, Len(s.lines)}) + 1,
                 BlankLine(s.cols, s.style, TRUE))])

RegionTop(s) == Min({s.top, s.rows - 1})
RegionBottom(s) == Max({Min({s.bottom, s.rows}), RegionTop(s) + 1})

\* One line of scroll_up_region: a region that starts at the first row of the
\* normal screen pushes that row into the scrollback.
ScrollUpOne(s) ==
    IF ~Alternate(s) /\ RegionTop(s) = 0
    THEN InsertVisibleLine(s, VisibleStart(s) + RegionBottom(s))
    ELSE InsertVisibleLine(
           [s EXCEPT !.lines = RemoveAt(@, VisibleStart(s) + RegionTop(s) + 1)],
           VisibleStart(s) + RegionBottom(s) - 1)

ScrollDownOne(s) ==
    InsertVisibleLine(
      [s EXCEPT !.lines = RemoveAt(@, VisibleStart(s) + RegionBottom(s))],
      VisibleStart(s) + RegionTop(s))

ScrollOne(s, up) == IF up THEN ScrollUpOne(s) ELSE ScrollDownOne(s)

\* A count is at most the height of the region.
Scroll(s, up, count) ==
    LET times == Min({count, RegionBottom(s) - RegionTop(s)})
        after[n \in 0..times] == IF n = 0 THEN s ELSE ScrollOne(after[n - 1], up)
    IN  [after[times] EXCEPT !.row = Min({@, s.rows - 1})]

ScrollUp(s, count) == Scroll(s, TRUE, count)
ScrollDown(s, count) == Scroll(s, FALSE, count)

LineFeed(s) ==
    IF s.row + 1 = s.bottom \/ s.row + 1 >= s.rows
    THEN ScrollUp(s, 1)
    ELSE [s EXCEPT !.row = @ + 1,
                   !.lines[LineIndex(s, s.row + 1)].touched = TRUE]

Width(ch) == IF ch = "w" THEN 2 ELSE 1

\* insert_blank_cells
Shifted(cells, col, width, style) ==
    LET shift == Min({width, Len(cells) - col})
    IN  [i \in DOMAIN cells |->
           CASE i > col + shift -> cells[i - shift]
             [] i > col /\ i <= col + shift -> StyledBlank(style)
             [] OTHER -> cells[i]]

\* Where a character goes: on the next line when the row is full, or over the
\* last columns when lines do not wrap.
PlacedFor(s, width) ==
    IF s.col < s.cols /\ (width > 1 => s.col + width <= s.cols) THEN s
    ELSE IF "wrap" \in s.modes THEN LineFeed([s EXCEPT !.col = 0])
    ELSE [s EXCEPT !.col = s.cols - Min({width, s.cols})]

Written(cells, col, ch, style) ==
    [i \in DOMAIN cells |->
       CASE i = col + 1 -> Cell(ch, style)
         [] i > col + 1 /\ i <= col + Width(ch) -> Continuation(style)
         [] OTHER -> cells[i]]

PrintAt(s, line, width, ch) ==
    [s EXCEPT
       !.lines[line] =
          [cells |-> Written(IF "insert" \in s.modes
                             THEN Shifted(@.cells, s.col, width, s.style)
                             ELSE @.cells, s.col, ch, s.style),
           touched |-> TRUE],
       !.col = IF "wrap" \in s.modes THEN @ + width
               ELSE Min({@ + width, s.cols - 1})]

PrintPlaced(s, ch) == PrintAt(s, LineIndex(s, s.row), Width(ch), ch)
PrintChar(s, ch) == PrintPlaced(PlacedFor(s, Width(ch)), ch)

\* A line cleared from column `from` to column `to`.
Cleared(line, from, to, style) ==
    [cells |-> [i \in DOMAIN line.cells |->
                  IF i > from /\ i <= to + 1 THEN StyledBlank(style) ELSE line.cells[i]],
     touched |-> TRUE]
ClearCells(s, row, from, to) ==
    [s EXCEPT !.lines[LineIndex(s, row)] = Cleared(@, from, to, s.style)]
ClearRows(s, rows) ==
    [s EXCEPT !.lines =
       [i \in DOMAIN s.lines |->
          IF \E row \in rows : i = LineIndex(s, row)
          THEN Cleared(s.lines[i], 0, s.cols - 1, s.style) ELSE s.lines[i]]]

EraseLine(s, mode) ==
    LET col == Min({s.col, s.cols - 1})
    IN  CASE mode = 0 -> [ClearCells(s, s.row, s.col, s.cols - 1) EXCEPT !.col = col]
          [] mode = 1 -> [ClearCells(s, s.row, 0, col) EXCEPT !.col = col]
          [] mode = 2 -> ClearCells(s, s.row, 0, s.cols - 1)

ClearScreen(s) == ClearRows(s, 0..(s.rows - 1))
ClearScreenAndScrollback(s) ==
    [s EXCEPT !.lines = BlankLines(s.rows, s.cols, s.style, TRUE),
              !.row = Min({@, s.rows - 1}), !.col = Min({@, s.cols - 1})]
ClearCachedLines(s) ==
    [s EXCEPT !.lines = BlankLines(s.rows, s.cols, s.style, FALSE),
              !.row = 0, !.col = 0]

EraseDisplay(s, mode) ==
    CASE mode = 0 -> ClearRows(EraseLine(s, 0), (s.row + 1)..(s.rows - 1))
      [] mode = 1 -> EraseLine(ClearRows(s, 0..(s.row - 1)), 1)
      [] mode = 2 -> IF s.cut THEN ClearScreenAndScrollback(s) ELSE ClearScreen(s)
      [] mode = 3 -> ClearCachedLines(s)

BufferOf(s) ==
    [lines |-> s.lines, row |-> s.row, col |-> s.col, saved |-> s.saved,
     style |-> s.style, modes |-> s.modes, top |-> s.top, bottom |-> s.bottom]

ResetScreenBuffer(s) == WithBuffer(s, Buffer(s.rows, s.cols))
EnterAlternateScreen(s) ==
    [ResetScreenBuffer(s) EXCEPT
       !.normal = IF Alternate(s) THEN s.normal ELSE <<BufferOf(s)>>,
       !.style = s.style, !.modes = s.modes]
LeaveAlternateScreen(s) ==
    IF ~Alternate(s) THEN ResetScreenBuffer(s)
    ELSE LET n   == s.normal[1]
             top == Min({n.top, s.rows - 1})
         IN  WithBuffer([s EXCEPT !.normal = <<>>],
               [n EXCEPT !.row = Min({@, s.rows - 1}), !.col = Min({@, s.cols - 1}),
                         !.top = top,
                         !.bottom = Max({Min({@, s.rows}), top + 1})])

HomeRow(s) == IF "origin" \in s.modes THEN Min({s.top, s.rows - 1}) ELSE 0
CursorRowFromParam(s, row) ==
    IF "origin" \in s.modes THEN Min({s.top + row, s.bottom - 1})
    ELSE Min({row, s.rows - 1})

\* DECSTBM: bottom 0 stands for a parameter left out.
SetScrollRegion(s, top, bottom) ==
    LET t == Min({top, s.rows - 1})
        r == [s EXCEPT !.top = t,
                       !.bottom = Max({Min({IF bottom = 0 THEN s.rows ELSE bottom,
                                            s.rows}), t + 1})]
    IN  [r EXCEPT !.row = HomeRow(r), !.col = 0]

SetMode(s, mode, on) ==
    LET m == [s EXCEPT !.modes = IF on THEN @ \cup {mode} ELSE @ \ {mode}]
    IN  IF mode = "origin" THEN [m EXCEPT !.row = HomeRow(m), !.col = 0] ELSE m

\* The escape sequence ESC c: the scroll region and the saved normal screen
\* stay.
ResetTerminal(s) ==
    [ClearScreenAndScrollback(s) EXCEPT
       !.row = 0, !.col = 0, !.saved = <<>>, !.style = Plain, !.modes = DefaultModes]

RestoreCursor(s) ==
    IF s.saved = <<>> THEN s
    ELSE [s EXCEPT !.row = Min({s.saved[1], s.rows - 1}),
                   !.col = Min({s.saved[2], s.cols - 1})]

TabWidth == 8

\* The control characters of apply_ground_byte.
Control(s, name) ==
    CASE name = "cr"  -> [s EXCEPT !.col = 0]
      [] name = "lf"  -> [LineFeed(s) EXCEPT !.col = 0]
      [] name = "bs"  -> [s EXCEPT !.col = Max({@ - 1, 0})]
      [] name = "tab" -> [s EXCEPT !.col =
                            Min({((@ \div TabWidth) + 1) * TabWidth, s.cols - 1})]
      [] name = "bel" -> s

\* apply_escape_byte: the two-byte escape sequences.
Escape(s, name) ==
    CASE name = "save"    -> [s EXCEPT !.saved = <<s.row, s.col>>]
      [] name = "restore" -> RestoreCursor(s)
      [] name = "reset"   -> ResetTerminal(s)

\* apply_sgr: code "reset" is 0, "unbold" is 22.
SgrCode(style, code) ==
    CASE code = "reset"  -> Plain
      [] code = "unbold" -> style \ {"bold"}
      [] OTHER           -> style \cup {code}
ApplySgr(style, codes) ==
    LET after[i \in 0..Len(codes)] ==
          IF i = 0 THEN style ELSE SgrCode(after[i - 1], codes[i])
    IN  after[Len(codes)]

\* sgr_bytes
SgrCodes(style, resetFirst) ==
    IF style = Plain THEN <<"reset">>
    ELSE (IF resetFirst THEN <<"reset">> ELSE <<>>) \o SetToSeq(style)

\* dispatch_csi
DispatchCsi(s, t) ==
    CASE t.csi = "up"     -> [s EXCEPT !.row = Max({@ - t.n, 0})]
      [] t.csi = "down"   -> [s EXCEPT !.row = Min({@ + t.n, s.rows - 1})]
      [] t.csi = "right"  -> [s EXCEPT !.col = Min({@ + t.n, s.cols - 1})]
      [] t.csi = "left"   -> [s EXCEPT !.col = Max({@ - t.n, 0})]
      [] t.csi = "column" -> [s EXCEPT !.col = Min({t.n, s.cols - 1})]
      [] t.csi = "line"   -> [s EXCEPT !.row = CursorRowFromParam(s, t.n)]
      [] t.csi = "move"   -> [s EXCEPT !.row = CursorRowFromParam(s, t.n),
                                       !.col = Min({t.m, s.cols - 1})]
      [] t.csi = "display" -> EraseDisplay(s, t.n)
      [] t.csi = "erase"  -> EraseLine(s, t.n)
      [] t.csi = "sgr"    -> [s EXCEPT !.style = ApplySgr(@, t.codes)]
      [] t.csi = "region" -> SetScrollRegion(s, t.n, t.m)
      [] t.csi = "scroll" -> ScrollUp(s, t.n)
      [] t.csi = "unscroll" -> ScrollDown(s, t.n)
      [] t.csi = "set"    -> SetMode(s, t.mode, TRUE)
      [] t.csi = "clear"  -> SetMode(s, t.mode, FALSE)
      [] t.csi = "alternate" -> EnterAlternateScreen(s)
      [] t.csi = "normal" -> LeaveAlternateScreen(s)

\* pending_home_clear_cut is set by a cursor move to the first cell, kept by a
\* change of style, and cleared by everything else.
CutAfter(s, t, r) ==
    CASE t.kind = "csi" /\ t.csi = "move" -> r.row = 0 /\ r.col = 0
      [] t.kind = "csi" /\ t.csi = "sgr"  -> s.cut
      [] OTHER -> FALSE

\* A UTF-8 character that something else interrupts is printed as the
\* replacement character.
FlushInvalidUtf8(s) ==
    IF s.half = "utf8" THEN PrintChar([s EXCEPT !.half = "none"], "a") ELSE s

\* The first half of a control sequence or of a character: only the parser
\* changes, unless it interrupts a character (a second lead byte is consumed
\* with the first).
BeginHalf(s, kind) ==
    IF s.half = "utf8" /\ kind = "utf8" THEN FlushInvalidUtf8(s)
    ELSE [FlushInvalidUtf8(s) EXCEPT !.half = kind,
                                     !.cut = kind = "control" /\ s.cut]

\* apply_byte over the bytes of one token, whole or the rest of a half.
Apply(s, t) ==
    LET clean == IF t.kind = "print" /\ t.ch = "w" THEN [s EXCEPT !.half = "none"]
                 ELSE [FlushInvalidUtf8(s) EXCEPT !.half = "none"]
        after == CASE t.kind = "print"   -> PrintChar(clean, t.ch)
                   [] t.kind = "control" -> Control(clean, t.name)
                   [] t.kind = "escape"  -> Escape(clean, t.name)
                   [] t.kind = "csi"     -> DispatchCsi(clean, t)
                   [] t.kind = "half"    -> BeginHalf(s, t.name)
    IN  IF t.kind = "half" THEN after
        ELSE [after EXCEPT !.cut = CutAfter(clean, t, after)]

ApplyAll(s, ts) == FoldLeft(Apply, s, ts)

-----------------------------------------------------------------------------
(* Snapshots: snapshot_bytes and the functions it calls.                   *)

Glyph(ch) == [kind |-> "print", ch |-> ch]
Csi(name, n, m) == [kind |-> "csi", csi |-> name, n |-> n, m |-> m]
Mode(name, mode) == [kind |-> "csi", csi |-> name, mode |-> mode]
Sgr(codes) == [kind |-> "csi", csi |-> "sgr", codes |-> codes]
ControlToken(name) == [kind |-> "control", name |-> name]
EscapeToken(name) == [kind |-> "escape", name |-> name]
HalfToken(name) == [kind |-> "half", name |-> name]

\* snapshot_line_bounds_for: the first and the last line written, <<0, 0>>
\* when there is nothing to write.
SnapshotLineBounds(lines, rows) ==
    LET content == {i \in DOMAIN lines : lines[i].touched \/ ~IsBlank(lines[i])}
        view    == Max({Len(lines) - rows, 0}) + 1
    IN  IF content = {} THEN <<0, 0>>
        ELSE <<Min({Min(content), view}), Max(content)>>

DisplayWidth(cells) ==
    Max({0} \cup {i \in DOMAIN cells : cells[i] # StyledBlank(Plain)})

\* A mutant: the style of a row's last cell is left on.
EndRowStyled(style) == <<>>

EndRow(style) == IF style = Plain THEN <<>> ELSE <<Sgr(SgrCodes(Plain, FALSE))>>

\* row_ansi_bytes: every row starts and ends with the default style; the
\* second half of a wide character is not written.
RowTokens(line) ==
    LET Write(acc, cell) ==
          IF cell.ch = "continuation" THEN acc
          ELSE [style |-> cell.style,
                out |-> acc.out
                        \o (IF cell.style = acc.style THEN <<>>
                            ELSE <<Sgr(SgrCodes(cell.style, acc.style # Plain))>>)
                        \o <<Glyph(cell.ch)>>]
        row == FoldLeft(Write, [style |-> Plain, out |-> <<>>],
                        SubSeq(line.cells, 1, DisplayWidth(line.cells)))
    IN  row.out \o EndRow(row.style)

RestoreModes(modes) ==
    [i \in 1..4 |-> LET mode == <<"wrap", "origin", "insert", "paste">>[i]
                    IN  Mode(IF mode \in modes THEN "set" ELSE "clear", mode)]

ScrollRegionTokens(b, rows) ==
    IF b.top = 0 /\ b.bottom = rows THEN <<Csi("region", 0, 0)>>
    ELSE <<Csi("region", b.top, Max({Min({b.bottom, rows}), 1}))>>

CursorTokens(row, col, cols) == <<Csi("move", row, Min({col, cols - 1}))>>

SavedCursorTokens(saved, rows, cols) ==
    IF saved = <<>> THEN <<>>
    ELSE CursorTokens(Min({saved[1], rows - 1}), saved[2], cols)
         \o <<EscapeToken("save")>>

\* snapshot_state_bytes: the lines, then modes, region, cursors and style.
StateTokens(b, rows, cols) ==
    LET bounds == SnapshotLineBounds(b.lines, rows)
        text   == IF bounds = <<0, 0>> THEN <<>>
                  ELSE FlattenSeq([i \in 1..(bounds[2] - bounds[1] + 1) |->
                         LET index == bounds[1] + i - 1
                         IN  RowTokens(b.lines[index])
                             \o (IF index < bounds[2]
                                 THEN <<ControlToken("cr"), ControlToken("lf")>>
                                 ELSE <<>>)])
    IN  text \o RestoreModes(b.modes) \o ScrollRegionTokens(b, rows)
        \o SavedCursorTokens(b.saved, rows, cols)
        \o CursorTokens(b.row, b.col, cols)
        \o (IF b.style = Plain THEN <<>> ELSE <<Sgr(SgrCodes(b.style, FALSE))>>)

NeedsStateRestore(s) ==
    BufferOf(s) # [Buffer(s.rows, s.cols) EXCEPT !.lines = s.lines]

Snapshot(s) ==
    IF /\ ~Alternate(s) /\ s.half = "none" /\ ~NeedsStateRestore(s)
       /\ SnapshotLineBounds(s.lines, s.rows) = <<0, 0>>
    THEN <<>>
    ELSE (IF Alternate(s)
          THEN StateTokens(s.normal[1], s.rows, s.cols)
               \o <<Csi("alternate", 0, 0)>>
          ELSE <<>>)
         \o StateTokens(s, s.rows, s.cols)
         \o (IF s.half = "none" THEN <<>> ELSE <<HalfToken(s.half)>>)

\* What a client's emulator shows after it has read the snapshot.
Replay(s) == ApplyAll(NewScreen(s.rows, s.cols), Snapshot(s))
-----------------------------------------------------------------------------
(* TerminalScreen::resize.                                                 *)

ResizeCells(line, cols) ==
    [line EXCEPT !.cells = [i \in 1..cols |-> IF i \in DOMAIN line.cells
                                              THEN line.cells[i]
                                              ELSE StyledBlank(Plain)]]

ResizeLines(lines, rows, cols, keep, style) ==
    LET grown == [i \in DOMAIN lines |-> ResizeCells(lines[i], cols)]
                 \o BlankLines(Max({rows - Len(lines), 0}), cols, style, FALSE)
    IN  SubSeq(grown, Max({Len(grown) - keep, 0}) + 1, Len(grown))

ResizeBuffer(b, old, rows, cols, keep, style) ==
    LET whole == b.top = 0 /\ b.bottom = old
        top   == IF whole THEN 0 ELSE Min({b.top, rows - 1})
    IN  [b EXCEPT !.lines = ResizeLines(@, rows, cols, keep, style),
                  !.row = Min({@, rows - 1}), !.col = Min({@, cols - 1}),
                  !.top = top,
                  !.bottom = IF whole THEN rows ELSE Max({Min({@, rows}), top + 1})]

ResizeScreen(s, rows, cols) ==
    LET max == Max({s.max, rows})
    IN  WithBuffer([s EXCEPT !.rows = rows, !.cols = cols, !.max = max,
                      !.normal = IF @ = <<>> THEN @
                                 ELSE <<ResizeBuffer(@[1], s.rows, rows, cols, max, Plain)>>],
                   ResizeBuffer(BufferOf(s), s.rows, rows, cols,
                                IF Alternate(s) THEN rows ELSE max, s.style))
-----------------------------------------------------------------------------
\* The sequences Csi(c, n, m), and the ones that set or clear a mode.
Csis(names, ns, ms) == [kind : {"csi"}, csi : names, n : ns, m : ms]
ModeTokens == [kind : {"csi"}, csi : {"set", "clear"}, mode : ScreenModes]

ScreenTokens ==
    {Glyph(g) : g \in Glyphs}
    \cup {ControlToken(c) : c \in {"cr", "lf", "bs", "tab", "bel"}}
    \cup {EscapeToken(e) : e \in {"save", "restore", "reset"}}
    \cup Csis({"up", "down", "right", "left", "column", "line", "scroll", "unscroll"},
              {1}, {0})
    \cup Csis({"move"}, 0..1, 0..1)
    \cup Csis({"display"}, 0..3, {0})
    \cup Csis({"erase"}, 0..2, {0})
    \cup {Sgr(<<c>>) : c \in {"reset", "bold", "unbold", "red"}}
    \cup {Csi("region", 0, 0), Csi("region", 0, 1), Csi("region", 1, 2)}
    \cup ModeTokens
    \cup Csis({"alternate", "normal"}, {0}, {0})

ScreenInit ==
    /\ \E size \in Sizes : scr = NewScreen(size[1], size[2])
    /\ tokens = 0

\* The program writes one token, or the rest of the one a read has cut.
ProgramWrites(t) ==
    /\ tokens < MaxToken
    /\ scr.half = "control" => t.kind \in {"csi", "escape"}
    /\ scr' = Apply(scr, t)
    /\ tokens' = tokens + 1

ProgramWritesHalf(kind) ==
    /\ tokens < MaxToken
    /\ scr.half # "control"
    /\ kind = "utf8" => "w" \in Glyphs
    /\ scr' = BeginHalf(scr, kind)
    /\ tokens' = tokens + 1

TerminalResizes(size) ==
    /\ tokens < MaxToken
    /\ size # <<scr.rows, scr.cols>>
    /\ scr' = ResizeScreen(scr, size[1], size[2])
    /\ tokens' = tokens + 1

ScreenNext ==
    \/ \E t \in ScreenTokens : ProgramWrites(t)
    \/ \E kind \in {"control", "utf8"} : ProgramWritesHalf(kind)
    \/ \E size \in Sizes : TerminalResizes(size)

ScreenSpec == ScreenInit /\ [][ScreenNext]_screenVars
-----------------------------------------------------------------------------
ScreenTypeOK ==
    /\ scr.row \in 0..(scr.rows - 1) /\ scr.col \in 0..(scr.cols + 1)
    /\ scr.top < scr.bottom /\ scr.bottom <= scr.rows
    /\ Len(scr.lines) \in scr.rows..scr.max
    /\ \A i \in DOMAIN scr.lines : Len(scr.lines[i].cells) = scr.cols
    /\ scr.style \in ScreenStyles /\ scr.modes \subseteq ScreenModes
    /\ scr.half \in {"none", "control", "utf8"}
    /\ tokens \in 0..MaxToken

\* The cursor a snapshot can express: a cursor past the last column, which a
\* terminal keeps until the next character wraps, becomes the last column.
Expressed(pos, s) == <<Min({pos[1], s.rows - 1}), Min({pos[2], s.cols - 1})>>

\* The lines of a buffer that a reader sees, leading blank scrollback aside.
Content(b, rows) ==
    LET from == Min({Len(b.lines) - rows + 1}
                    \cup {i \in DOMAIN b.lines : ~IsBlank(b.lines[i])})
    IN  [i \in 1..(Len(b.lines) - from + 1) |-> b.lines[from + i - 1].cells]

SameBuffer(b, c, s) ==
    /\ Content(b, s.rows) = Content(c, s.rows)
    /\ Expressed(<<b.row, b.col>>, s) = Expressed(<<c.row, c.col>>, s)
    /\ <<b.style, b.modes, b.top, b.bottom>> = <<c.style, c.modes, c.top, c.bottom>>
    /\ (b.saved = <<>>) = (c.saved = <<>>)
    /\ b.saved # <<>> => Expressed(b.saved, s) = Expressed(c.saved, s)

\* What a snapshot does not express.  The cursor is sent in absolute rows,
\* which origin mode reads relative to the region; half of a wide character
\* that was overwritten keeps its column on the screen and has none in the
\* snapshot; a resize can leave untouched lines below a scrollback; and the
\* lines of the alternate screen are written in the style of the normal one.
OriginRegion(b, rows) == "origin" \in b.modes /\ ~(b.top = 0 /\ b.bottom = rows)
SplitWide(b) ==
    \E i \in DOMAIN b.lines : \E j \in 1..Len(b.lines[i].cells) :
       LET cells == b.lines[i].cells
       IN  \/ cells[j].ch = "continuation" /\ (j = 1 \/ cells[j - 1].ch # "w")
           \/ cells[j].ch = "w" /\ (j = Len(cells) \/ cells[j + 1].ch # "continuation")
BlankTail(b, rows) ==
    LET bounds == SnapshotLineBounds(b.lines, rows)
    IN  /\ bounds # <<0, 0>>
        /\ bounds[1] <= Len(b.lines) - rows
        /\ bounds[2] < Len(b.lines)
Expressible(b, rows) == ~OriginRegion(b, rows) /\ ~SplitWide(b) /\ ~BlankTail(b, rows)

(***************************************************************************)
(* A terminal that reads a snapshot shows the screen the snapshot was      *)
(* taken of: lines and scrollback, both cursors, style, modes and scroll   *)
(* region, of the normal screen behind an alternate one too, and it stands *)
(* in the middle of the same control sequence or character, so the output  *)
(* that follows is interpreted alike.  The cases above are the exceptions. *)
(* The code this is about is snapshot_bytes (net/screen.rs:428), read back *)
(* by apply.                                                               *)
(***************************************************************************)
ScreenIsReplayed ==
    (/\ Expressible(scr, scr.rows)
     /\ Alternate(scr) => /\ Expressible(scr.normal[1], scr.rows)
                          /\ scr.normal[1].style = Plain)
    => LET r == Replay(scr)
       IN  /\ SameBuffer(r, scr, scr)
           /\ r.half = scr.half
           /\ Alternate(r) = Alternate(scr)
           /\ Alternate(scr) => SameBuffer(r.normal[1], scr.normal[1], scr)

(***************************************************************************)
(* "saved_cursor_restore_bytes" says that after ESC 7 the final cursor     *)
(* sequence puts the cursor back where it was.                             *)
(***************************************************************************)
CursorIsRestored ==
    LET r == Replay(scr)
    IN  Expressed(<<r.row, r.col>>, scr) = Expressed(<<scr.row, scr.col>>, scr)
=============================================================================
