------------------------------- MODULE Editor -------------------------------
(***************************************************************************)
(* The text editor of the shell (kernel/shell/shell.c, open_text_editor)   *)
(* and the line editor of its prompt, on the bytes the keyboard sends.     *)
(* One action stands for the handling of one byte, up to the next read of  *)
(* the keyboard: the editor's ends with the screen drawn again.            *)
(***************************************************************************)
EXTENDS Naturals, Sequences, FiniteSets

CONSTANTS
    Cap,            \* MAX_FILE_CONTENT
    LineCap,        \* the characters a line of input holds, 254
    VisibleLines,   \* the lines of text the editor's screen shows
    Keys,           \* the keys that type a character
    Glyphs,         \* the characters the contents tell apart
    Glyph,          \* the character of a key, without and with Shift
    NewLine, NUL

\* The keys the editor's commands are on.
CommandKeys == {"i", "h", "l", "k", "j", "q", "s"}

ASSUME CapAssumption == Cap \in Nat /\ Cap > 0
ASSUME LinesAssumption == VisibleLines \in Nat /\ VisibleLines > 0
ASSUME KeysAssumption == CommandKeys \subseteq Keys
ASSUME GlyphAssumption == Glyph \in [Keys \X BOOLEAN -> Glyphs]
ASSUME NULAssumption == NUL # NewLine /\ NUL \notin Glyphs

Symbols == Glyphs \union {NewLine}

Shifts == {"LShift", "RShift"}
Modifiers == Shifts \union {"Ctrl"}

VARIABLES
    content,        \* VirtualFile.content of the file
    size,           \* VirtualFile.size
    open,           \* in open_text_editor, or at the prompt
    length, cursor, scroll_line, insert_mode, dirty,    \* TextEditor
    shift_pressed, ctrl_pressed,    \* of the session, or of get_keyboard_char
    held,           \* the modifiers that are down on the keyboard
    line            \* shell_state.buffer, pos characters

text == <<content, length, cursor, dirty>>
keyboard == <<shift_pressed, ctrl_pressed, held>>
vars == <<content, size, open, length, cursor, scroll_line, insert_mode, dirty,
          shift_pressed, ctrl_pressed, held, line>>

-----------------------------------------------------------------------------
(* The functions on the text. *)

\* str_len: the characters in front of the first NUL.
str_len(buf) ==
    CHOOSE n \in 0 .. Cap - 1 : /\ buf[n] = NUL
                                /\ \A i \in 0 .. n - 1 : buf[i] # NUL

\* The line and the column of every position, counted from the start.
LineCol(buf) ==
    LET at[n \in 0 .. Cap] ==
            IF n = 0 THEN <<0, 0>>
            ELSE IF buf[n - 1] = NewLine THEN <<at[n - 1][1] + 1, 0>>
            ELSE <<at[n - 1][1], at[n - 1][2] + 1>>
    IN  at

\* Where the line of a position starts and ends, looked for from there.
LineStart(buf, c) ==
    CHOOSE i \in 0 .. c : /\ i = 0 \/ buf[i - 1] = NewLine
                          /\ \A j \in i .. c - 1 : buf[j] # NewLine

LineEnd(buf, len, c) ==
    CHOOSE i \in c .. len : /\ i = len \/ buf[i] = NewLine
                            /\ \A j \in c .. i - 1 : buf[j] # NewLine

Least(a, b) == IF a < b THEN a ELSE b

\* Mutant: the line below the last one shown counts as shown.
ScrolledLate(first, buf, c) ==
    LET l == LineCol(buf)[c][1]
    IN  IF l < first THEN l
        ELSE IF l > first + VisibleLines THEN l - VisibleLines + 1
        ELSE first

\* editor_render: the first line shown follows the caret.
Scrolled(first, buf, c) ==
    LET l == LineCol(buf)[c][1]
    IN  IF l < first THEN l
        ELSE IF l >= first + VisibleLines THEN l - VisibleLines + 1
        ELSE first

-----------------------------------------------------------------------------
(* open_text_editor, one action for a branch of its loop. *)

Render == scroll_line' = Scrolled(scroll_line, content', cursor')

\* help -m, manual, read and edit end here, after the line was entered.
Open ==
    /\ ~open /\ line # << >>
    /\ open' = TRUE
    /\ length' = str_len(content)
    /\ cursor' = length'
    /\ insert_mode' = FALSE
    /\ dirty' = FALSE
    /\ shift_pressed' = FALSE
    /\ ctrl_pressed' = FALSE
    /\ scroll_line' = Scrolled(0, content, cursor')
    /\ UNCHANGED <<content, size, held, line>>

\* The function returns, and the prompt starts on an empty line.
Close ==
    /\ open' = FALSE
    /\ size' = length
    /\ line' = << >>
    /\ shift_pressed' = FALSE
    /\ ctrl_pressed' = FALSE
    /\ UNCHANGED <<content, length, cursor, scroll_line, insert_mode, dirty, held>>

InEditor ==
    /\ open
    /\ UNCHANGED <<open, held, line, shift_pressed, ctrl_pressed>>

Escape ==
    /\ InEditor
    /\ insert_mode' = FALSE
    /\ UNCHANGED <<text, size>>
    /\ Render

\* Mutant: the caret stays in front of the new character.
InsertBehind(c) ==
    IF length >= Cap - 1
    THEN UNCHANGED text
    ELSE /\ content' = [i \in 0 .. Cap - 1 |->
                            IF i = length + 1 THEN NUL
                            ELSE IF i = cursor THEN c
                            ELSE IF i > cursor /\ i <= length THEN content[i - 1]
                            ELSE content[i]]
         /\ length' = length + 1
         /\ dirty' = TRUE
         /\ UNCHANGED cursor

editor_insert_char(c) ==
    IF length >= Cap - 1
    THEN UNCHANGED text
    ELSE /\ content' = [i \in 0 .. Cap - 1 |->
                            IF i = length + 1 THEN NUL
                            ELSE IF i = cursor THEN c
                            ELSE IF i > cursor /\ i <= length THEN content[i - 1]
                            ELSE content[i]]
         /\ length' = length + 1
         /\ cursor' = cursor + 1
         /\ dirty' = TRUE

\* Mutant: the NUL is not moved with the text.
BackspaceShort ==
    IF cursor = 0
    THEN UNCHANGED text
    ELSE /\ content' = [i \in 0 .. Cap - 1 |->
                            IF i >= cursor - 1 /\ i < length - 1 THEN content[i + 1]
                            ELSE content[i]]
         /\ cursor' = cursor - 1
         /\ length' = length - 1
         /\ dirty' = TRUE

editor_backspace ==
    IF cursor = 0
    THEN UNCHANGED text
    ELSE /\ content' = [i \in 0 .. Cap - 1 |->
                            IF i >= cursor - 1 /\ i < length THEN content[i + 1]
                            ELSE content[i]]
         /\ cursor' = cursor - 1
         /\ length' = length - 1
         /\ dirty' = TRUE

Backspace ==
    /\ InEditor
    /\ IF insert_mode THEN editor_backspace ELSE UNCHANGED text
    /\ UNCHANGED <<size, insert_mode>>
    /\ Render

Enter ==
    /\ InEditor
    /\ IF insert_mode THEN editor_insert_char(NewLine) ELSE UNCHANGED text
    /\ UNCHANGED <<size, insert_mode>>
    /\ Render

\* Ctrl+S, in both modes.
Save ==
    /\ InEditor
    /\ ctrl_pressed
    /\ size' = length
    /\ dirty' = FALSE
    /\ UNCHANGED <<content, length, cursor, insert_mode>>
    /\ Render

\* Ctrl+Q, or q in normal mode without Shift.
Quit ==
    /\ open
    /\ ctrl_pressed \/ (~insert_mode /\ ~shift_pressed)
    /\ Close

editor_move_left == cursor' = IF cursor > 0 THEN cursor - 1 ELSE cursor

editor_move_right == cursor' = IF cursor < length THEN cursor + 1 ELSE cursor

\* Mutant: the line break counts as a column of the shorter line.
UpTooFar ==
    LET start == LineStart(content, cursor)
        above == LineStart(content, start - 1)
    IN  cursor' = IF start = 0 THEN cursor
                  ELSE above + Least(cursor - start, start - above)

editor_move_up ==
    LET start == LineStart(content, cursor)
        above == LineStart(content, start - 1)
    IN  cursor' = IF start = 0 THEN cursor
                  ELSE above + Least(cursor - start, start - 1 - above)

editor_move_down ==
    LET end   == LineEnd(content, length, cursor)
        below == LineEnd(content, length, end + 1)
        col   == cursor - LineStart(content, cursor)
    IN  cursor' = IF end >= length THEN cursor
                  ELSE end + 1 + Least(col, below - (end + 1))

Move(k) ==
    /\ InEditor
    /\ ~insert_mode /\ ~shift_pressed
    /\ CASE k = "h" -> editor_move_left
         [] k = "l" -> editor_move_right
         [] k = "k" -> editor_move_up
         [] k = "j" -> editor_move_down
    /\ UNCHANGED <<content, length, dirty, size, insert_mode>>
    /\ Render

InsertMode ==
    /\ InEditor
    /\ ~insert_mode /\ ~shift_pressed
    /\ insert_mode' = TRUE
    /\ UNCHANGED <<text, size>>
    /\ Render

\* A character typed into the text: Ctrl keeps only s and q from it.
Type(k) ==
    /\ InEditor
    /\ insert_mode
    /\ ~(ctrl_pressed /\ k \in {"s", "q"})
    /\ editor_insert_char(Glyph[<<k, shift_pressed>>])
    /\ UNCHANGED <<size, insert_mode>>
    /\ Render

-----------------------------------------------------------------------------
(* editor_get_scancode and get_keyboard_char: the modifiers.  The prompt's *)
(* reader knows nothing of Ctrl.                                           *)

Press(m) ==
    /\ held' = held \union {m}
    /\ shift_pressed' = (shift_pressed \/ m \in Shifts)
    /\ ctrl_pressed' = (ctrl_pressed \/ (open /\ m = "Ctrl"))
    /\ UNCHANGED <<text, size, open, scroll_line, insert_mode, line>>

\* Mutant: the release of the right Shift key is ignored.
ReleaseLeft(m) ==
    /\ m \in held
    /\ held' = held \ {m}
    /\ shift_pressed' = (shift_pressed /\ m # "LShift")
    /\ ctrl_pressed' = (ctrl_pressed /\ m # "Ctrl")
    /\ UNCHANGED <<text, size, open, scroll_line, insert_mode, line>>

Release(m) ==
    /\ m \in held
    /\ held' = held \ {m}
    /\ shift_pressed' = (shift_pressed /\ m \notin Shifts)
    /\ ctrl_pressed' = (ctrl_pressed /\ m # "Ctrl")
    /\ UNCHANGED <<text, size, open, scroll_line, insert_mode, line>>

-----------------------------------------------------------------------------
(* fb_shell_run: a line of input.  Each character is a call of             *)
(* get_keyboard_char of its own, which starts with Shift not pressed.      *)

AtPrompt ==
    /\ ~open
    /\ shift_pressed' = FALSE
    /\ UNCHANGED <<text, size, open, scroll_line, insert_mode, ctrl_pressed, held>>

LineType(k) ==
    /\ AtPrompt
    /\ line' = IF Len(line) < LineCap
               THEN Append(line, Glyph[<<k, shift_pressed>>]) ELSE line

LineBackspace ==
    /\ AtPrompt
    /\ line' = SubSeq(line, 1, Len(line) - 1)

\* A command that opens no file.
LineEnter ==
    /\ AtPrompt
    /\ line' = << >>

-----------------------------------------------------------------------------
Init ==
    /\ content \in [0 .. Cap - 1 -> Symbols \union {NUL}]
    /\ content[Cap - 1] = NUL
    /\ size = str_len(content)
    /\ open = FALSE
    /\ length = 0 /\ cursor = 0 /\ scroll_line = 0
    /\ insert_mode = FALSE /\ dirty = FALSE
    /\ shift_pressed = FALSE /\ ctrl_pressed = FALSE
    /\ held = {}
    /\ line = << >>

Session ==
    \/ Escape \/ Backspace \/ Enter \/ Save \/ Quit \/ InsertMode
    \/ \E k \in {"h", "l", "k", "j"} : Move(k)
    \/ \E k \in Keys : Type(k)

Prompt ==
    \/ Open \/ LineBackspace \/ LineEnter
    \/ \E k \in Keys : LineType(k)

Next ==
    \/ Session \/ Prompt
    \/ \E m \in Modifiers : Press(m) \/ Release(m)

Spec == Init /\ [][Next]_vars

-----------------------------------------------------------------------------
(* Properties. *)

\* Type invariant.
TypeOK ==
    /\ content \in [0 .. Cap - 1 -> Symbols \union {NUL}]
    /\ size \in 0 .. Cap - 1 /\ length \in 0 .. Cap - 1
    /\ cursor \in 0 .. length
    /\ open \in BOOLEAN /\ insert_mode \in BOOLEAN /\ dirty \in BOOLEAN
    /\ shift_pressed \in BOOLEAN /\ ctrl_pressed \in BOOLEAN
    /\ held \subseteq Modifiers
    /\ line \in Seq(Glyphs)

\* However the shifts of the insertions and the deletions follow each other,
\* the text the editor holds is what str_len finds in the file: there is a NUL
\* right behind it and none in it, and it never leaves the array.
Terminated ==
    /\ \E n \in 0 .. Cap - 1 : content[n] = NUL
    /\ open => /\ content[length] = NUL
               /\ \A i \in 0 .. length - 1 : content[i] # NUL

\* The line of the caret is on the screen, after any jump and any edit.
CaretShown ==
    open => LineCol(content)[cursor][1] \in scroll_line .. scroll_line + VisibleLines - 1

\* At the prompt, and in the editor as long as it reports "No changes", the
\* recorded size is the length of the text, also when the editor was left
\* without saving.
SizeIsLength == (open /\ dirty) \/ size = str_len(content)

\* A character is taken as shifted, and s or q as a command, only while the
\* modifier is down: a release is never missed, in whichever of the two readers
\* the modifier was pressed.
ModifiersHeld ==
    /\ shift_pressed => held \intersect Shifts # {}
    /\ ctrl_pressed => "Ctrl" \in held

\* k and j, which look for line ends from the caret, move it by exactly one of
\* the lines the screen counts from the top, to the same column or to the end of
\* a shorter line, and stay where there is no such line.
LineLength(n) == Cardinality({i \in 0 .. length : LineCol(content)[i][1] = n}) - 1

MovesTo(n) ==
    LET from == LineCol(content)[cursor]
        to   == LineCol(content)[cursor']
    IN  IF n \in 0 .. LineCol(content)[length][1]
        THEN to = <<n, Least(from[2], LineLength(n))>>
        ELSE cursor' = cursor

VerticalMoves ==
    [][ LET l == LineCol(content)[cursor][1]
        IN  /\ Move("k") => MovesTo(l - 1)
            /\ Move("j") => MovesTo(l + 1) ]_vars

\* The file through the editor is a text with a caret: a key inserts or deletes
\* one character at the caret and moves no other, a full file takes no more, and
\* leaving the editor keeps the text.
Piece(buf, from, to) == [i \in 1 .. to - from |-> buf[from + i - 1]]
Before == IF open THEN Piece(content, 0, cursor) ELSE Piece(content, 0, str_len(content))
After  == IF open THEN Piece(content, cursor, length) ELSE << >>

TB == INSTANCE TextBuffer WITH MaxText <- Cap - 1, before <- Before, after <- After

ImplementsTextBuffer == TB!Spec

=============================================================================
