------------------------------- MODULE Editor -------------------------------
(***************************************************************************)
(* The GUI text editor of CottonOS (gui/mod.rs): TextEditorState and its   *)
(* methods, driven by the GUI loop's key handling (handle_key_event, then  *)
(* handle_keyboard with keyevent_to_char of the same event), the editor    *)
(* toolbar and text-area clicks of handle_mouse, and the file it edits     *)
(* through fs::read_file / fs::write_file.                                 *)
(*                                                                         *)
(* A line is a sequence of bytes (Rust String indices and len() count      *)
(* bytes).  A byte is a typed ASCII character, the newline NL, or one of   *)
(* the two bytes LEAD, CONT of a two-byte UTF-8 character, which only a    *)
(* file can hold: keyevent_to_char yields ASCII only.  Cursor blink and    *)
(* selection_start (never read) are left out.                              *)
(***************************************************************************)
EXTENDS Integers, SequencesExt

CONSTANTS
    Chars,          \* the printable characters typed
    InitFiles,      \* contents the edited file may have at boot
    VIS_LINES,      \* ensure_cursor_visible's visible_lines (25)
    VIS_COLS,       \* and visible_cols (80)
    PAGE,           \* page_up / page_down's visible_lines (20)
    UNDO_LIMIT,     \* push_undo's history limit (100)
    MAX_CHARS       \* bound on char_count for typing

NL == "nl"
LEAD == "lead"
CONT == "cont"

Snap(e) == [lines |-> e.lines, l |-> e.cl, c |-> e.cc]

\* TextEditorState::new
New ==
    [lines |-> <<<<>>>>, cl |-> 0, cc |-> 0, sy |-> 0, sx |-> 0,
     named |-> FALSE, modified |-> FALSE, undo |-> <<>>, redo |-> <<>>]

Line(e) == e.lines[e.cl + 1]
SetLine(e, s) == [e.lines EXCEPT ![e.cl + 1] = s]
Min2(a, b) == IF a < b THEN a ELSE b
SatSub(a, b) == IF a > b THEN a - b ELSE 0

\* content(): lines.join("\n")
Join(ls) ==
    IF ls = <<>> THEN <<>>
    ELSE FlattenSeq([i \in 1..(2 * Len(ls) - 1) |->
                        IF i % 2 = 1 THEN ls[(i + 1) \div 2] ELSE <<NL>>])

\* str::lines(): split at each newline; a final newline ends the last line
\* rather than starting an empty one.
RECURSIVE LinesOf(_)
LinesOf(t) ==
    IF t = <<>> THEN <<>>
    ELSE LET i == SelectInSeq(t, LAMBDA b : b = NL)
         IN  IF i = 0 THEN <<t>>
             ELSE <<SubSeq(t, 1, i - 1)>> \o LinesOf(SubSeq(t, i + 1, Len(t)))

\* char_count(): the bytes of all lines plus the newlines between them.
CharCount(e) ==
    LET n[i \in 0..Len(e.lines)] == IF i = 0 THEN 0 ELSE n[i - 1] + Len(e.lines[i])
    IN  n[Len(e.lines)] + SatSub(Len(e.lines), 1)

\* load_file after a successful read_file (from_utf8_lossy keeps valid UTF-8).
LoadFile(text) ==
    [New EXCEPT !.lines = IF LinesOf(text) = <<>> THEN <<<<>>>> ELSE LinesOf(text),
                !.named = TRUE]

\* push_undo: snapshot, clear redo, drop the oldest beyond the limit.
PushUndo(e) ==
    LET u == Append(e.undo, Snap(e))
    IN  [e EXCEPT !.undo = IF Len(u) > UNDO_LIMIT THEN Tail(u) ELSE u, !.redo = <<>>]

Restore(e, s) == [e EXCEPT !.lines = s.lines, !.cl = s.l, !.cc = s.c, !.modified = TRUE]

Undo(e) ==
    IF e.undo = <<>> THEN e
    ELSE Restore([e EXCEPT !.redo = Append(e.redo, Snap(e)), !.undo = Front(e.undo)], Last(e.undo))

Redo(e) ==
    IF e.redo = <<>> THEN e
    ELSE Restore([e EXCEPT !.undo = Append(e.undo, Snap(e)), !.redo = Front(e.redo)], Last(e.redo))

\* insert_char: '\n' splits the line at the cursor, any other character is
\* pushed or inserted at the cursor.
InsertChar(e0, ch) ==
    LET e == PushUndo(e0)
        k == Min2(e.cc, Len(Line(e)))
    IN  IF ch = NL
        THEN [e EXCEPT !.lines = InsertAt(SetLine(e, SubSeq(Line(e), 1, k)), e.cl + 2,
                                          SubSeq(Line(e), k + 1, Len(Line(e)))),
                       !.cl = e.cl + 1, !.cc = 0, !.modified = TRUE]
        ELSE [e EXCEPT !.lines = SetLine(e, IF e.cc >= Len(Line(e)) THEN Append(Line(e), ch)
                                            ELSE InsertAt(Line(e), e.cc + 1, ch)),
                       !.cc = e.cc + 1, !.modified = TRUE]

\* delete_char (backspace): remove the byte before the cursor, or join the
\* line to the previous one.
DeleteChar(e0) ==
    LET e == PushUndo(e0)
    IN  IF e.cc > 0
        THEN [e EXCEPT !.lines = IF e.cc <= Len(Line(e)) THEN SetLine(e, RemoveAt(Line(e), e.cc))
                                 ELSE e.lines,
                       !.cc = e.cc - 1, !.modified = TRUE]
        ELSE IF e.cl > 0
        THEN LET rest == RemoveAt(e.lines, e.cl + 1)
             IN  [e EXCEPT !.lines = [rest EXCEPT ![e.cl] = rest[e.cl] \o Line(e)],
                           !.cl = e.cl - 1, !.cc = Len(rest[e.cl]), !.modified = TRUE]
        ELSE [e EXCEPT !.modified = TRUE]

\* delete_forward (Delete key): remove the byte at the cursor, or join the
\* next line to this one.
DeleteForward(e0) ==
    LET e == PushUndo(e0)
    IN  IF e.cc < Len(Line(e))
        THEN [e EXCEPT !.lines = SetLine(e, RemoveAt(Line(e), e.cc + 1)), !.modified = TRUE]
        ELSE IF e.cl + 1 < Len(e.lines)
        THEN [e EXCEPT !.lines = RemoveAt(SetLine(e, Line(e) \o e.lines[e.cl + 2]), e.cl + 2),
                       !.modified = TRUE]
        ELSE e

\* The cursor column kept within the new line (move_up, move_down, page_*).
ClampCol(e) == [e EXCEPT !.cc = Min2(e.cc, Len(Line(e)))]

\* move_up without the clamp of the column to the shorter line above.
MoveUpNoClamp(e) == IF e.cl > 0 THEN [e EXCEPT !.cl = e.cl - 1] ELSE e

MoveUp(e) == IF e.cl > 0 THEN ClampCol([e EXCEPT !.cl = e.cl - 1]) ELSE e
MoveDown(e) == IF e.cl + 1 < Len(e.lines) THEN ClampCol([e EXCEPT !.cl = e.cl + 1]) ELSE e

MoveLeft(e) ==
    IF e.cc > 0 THEN [e EXCEPT !.cc = e.cc - 1]
    ELSE IF e.cl > 0 THEN [e EXCEPT !.cl = e.cl - 1, !.cc = Len(e.lines[e.cl])]
    ELSE e

MoveRight(e) ==
    IF e.cc < Len(Line(e)) THEN [e EXCEPT !.cc = e.cc + 1]
    ELSE IF e.cl + 1 < Len(e.lines) THEN [e EXCEPT !.cl = e.cl + 1, !.cc = 0]
    ELSE e

MoveHome(e) == [e EXCEPT !.cc = 0]
MoveEnd(e) == [e EXCEPT !.cc = Len(Line(e))]
PageUp(e) == ClampCol([e EXCEPT !.cl = SatSub(e.cl, PAGE)])
PageDown(e) == ClampCol([e EXCEPT !.cl = Min2(e.cl + PAGE, SatSub(Len(e.lines), 1))])

\* ensure_cursor_visible(25, 80): scroll so that the cursor is on screen.
Ensure(e) ==
    [e EXCEPT !.sy = IF e.cl < e.sy THEN e.cl
                     ELSE IF e.cl >= e.sy + VIS_LINES THEN e.cl - VIS_LINES + 1 ELSE e.sy,
              !.sx = IF e.cc < e.sx THEN e.cc
                     ELSE IF e.cc >= e.sx + VIS_COLS THEN e.cc - VIS_COLS + 1 ELSE e.sx]

\* A click in the text area: the row and column under the pointer, from
\* the scroll offsets, clamped to the text.
ClickAt(e, row, col) ==
    LET l == Min2(row + e.sy, SatSub(Len(e.lines), 1))
    IN  [e EXCEPT !.cl = l, !.cc = Min2(col + e.sx, Len(e.lines[l + 1]))]

VARIABLES
    ed,       \* the focused editor window's TextEditorState
    file,     \* {its bytes} if the edited file exists, {} if not
    key       \* the last input handled

vars == <<ed, file, key>>

Init ==
    /\ file \in {{}} \cup {{f} : f \in InitFiles}
    /\ ed = New
    /\ key = "none"

Typing == CharCount(ed) < MAX_CHARS

\* One GUI-loop iteration for a key press: handle_key_event, then
\* handle_keyboard if keyevent_to_char gives a character.
Key(k, e) == ed' = e /\ key' = k /\ UNCHANGED file

KeyUp == Key("up", Ensure(MoveUp(ed)))
KeyDown == Key("down", Ensure(MoveDown(ed)))
KeyLeft == Key("left", Ensure(MoveLeft(ed)))
KeyRight == Key("right", Ensure(MoveRight(ed)))
KeyHome == Key("home", Ensure(MoveHome(ed)))
KeyEnd == Key("end", Ensure(MoveEnd(ed)))
KeyPageUp == Key("pageup", Ensure(PageUp(ed)))
KeyPageDown == Key("pagedown", Ensure(PageDown(ed)))
\* Delete: delete_forward in handle_key_event, then '\x7f' in handle_keyboard.
KeyDelete == Key("delete", Ensure(DeleteChar(DeleteForward(ed))))
KeyBackspace == Key("backspace", Ensure(DeleteChar(ed)))
KeyEnter == Typing /\ Key("enter", Ensure(InsertChar(ed, NL)))
KeyChar(ch) == Typing /\ Key("char", Ensure(InsertChar(ed, ch)))

\* The toolbar's Save: save_file writes content() if the editor has a name.
ClickSave ==
    /\ ed.named
    /\ file' = {Join(ed.lines)}
    /\ ed' = [ed EXCEPT !.modified = FALSE]
    /\ key' = "save"

ClickUndo == Key("undo", Undo(ed))
ClickRedo == Key("redo", Redo(ed))
ClickText(row, col) == Key("click", ClickAt(ed, row, col))

\* open_file_in_editor from the file manager, which lists only existing
\* files: a new editor, then load_file (read_file of a RamFS file succeeds).
OpenFile == \E f \in file : ed' = LoadFile(f) /\ key' = "open" /\ UNCHANGED file

\* Save As, confirmed with the same name: write_file of the content, then
\* open_file_in_editor on it.
SaveAs ==
    /\ file' = {Join(ed.lines)}
    /\ ed' = LoadFile(Join(ed.lines))
    /\ key' = "saveas"

\* The dock's editor: a new window with TextEditorState::new().
NewEditor == Key("new", New)

Next ==
    \/ KeyUp \/ KeyDown \/ KeyLeft \/ KeyRight \/ KeyHome \/ KeyEnd
    \/ KeyPageUp \/ KeyPageDown \/ KeyDelete \/ KeyBackspace \/ KeyEnter
    \/ \E ch \in Chars : KeyChar(ch)
    \/ ClickSave \/ ClickUndo \/ ClickRedo
    \/ \E r \in 0..VIS_LINES, c \in 0..VIS_COLS : ClickText(r, c)
    \/ OpenFile \/ SaveAs \/ NewEditor

Spec == Init /\ [][Next]_vars

(***************************************************************************)
(* Properties                                                              *)
(***************************************************************************)

InBounds(s) == s.l < Len(s.lines) /\ s.c <= Len(s.lines[s.l + 1])

\* The cursor, and the cursor of every snapshot undo or redo can restore,
\* names an existing line (every method indexes lines[cursor_line], which
\* panics otherwise) and a column within it, whatever sequence of keys,
\* clicks, undos, redos, saves and reopens led there.
CursorInBounds ==
    \A s \in {Snap(ed)} \cup ToSet(ed.undo) \cup ToSet(ed.redo) : InBounds(s)

\* One press of the Delete key removes one character (or one line break).
DeleteRemovesOne ==
    [][key' = "delete" => CharCount(ed') >= CharCount(ed) - 1]_vars

\* A named editor with no unsaved changes shows what reopening its file
\* would show: save_file's content() and load_file's lines() round-trip.
SavedReloads ==
    ed.named /\ ~ed.modified => \A f \in file : LoadFile(f).lines = ed.lines

\* The cursor never stands inside a multi-byte character: insert_char and
\* split_at panic at a byte index that is not a char boundary.
CursorOnCharBoundary ==
    ed.cc = 0 \/ ed.cc >= Len(Line(ed)) \/ Line(ed)[ed.cc + 1] # CONT

TypeOK ==
    /\ ed.cl \in Nat /\ ed.cc \in Nat /\ ed.sy \in Nat /\ ed.sx \in Nat
    /\ Len(ed.undo) <= UNDO_LIMIT

====
