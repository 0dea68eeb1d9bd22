---------------------------- MODULE Editor_proof ----------------------------
(***************************************************************************)
(* Editor: types, the NUL behind the text, the recorded size and the       *)
(* modifiers, the caret on the screen and the moves between lines, for     *)
(* every size of a file and of a screen, and that the editor implements    *)
(* TextBuffer.                                                             *)
(***************************************************************************)
EXTENDS Editor, Integers, TLAPS, WellFoundedInduction, SequenceTheorems,
        FiniteSetTheorems

\* The inductive invariant.
Inv == TypeOK /\ Terminated /\ SizeIsLength /\ ModifiersHeld

-----------------------------------------------------------------------------
(* The functions that look for a position.                                 *)

LEMMA LeastElement ==
  ASSUME NEW T \in SUBSET Nat, T # {}
  PROVE  \E x \in T : \A y \in T : x <= y
<1>1. \E x \in T : \A y \in T : ~ (<<y, x>> \in OpToRel(<, Nat))
  BY NatLessThanWellFounded, WFMin
<1>2. PICK x \in T : \A y \in T : ~ (<<y, x>> \in OpToRel(<, Nat))
  BY <1>1
<1>3. ASSUME NEW y \in T PROVE x <= y
  <2>1. ~(y < x)
    BY <1>2, <1>3 DEF OpToRel
  <2>. QED  BY <2>1
<1>. QED  BY <1>3

\* Two positions that are both the first of their kind are the same.
LEMMA LengthIs ==
  ASSUME NEW buf, NEW n \in 0 .. Cap - 1,
         buf[n] = NUL, \A i \in 0 .. n - 1 : buf[i] # NUL
  PROVE  str_len(buf) = n
<1>1. \A m \in 0 .. Cap - 1 :
        (buf[m] = NUL /\ \A i \in 0 .. m - 1 : buf[i] # NUL) => m = n
  BY CapAssumption
<1>. QED  BY <1>1 DEF str_len

LEMMA LengthExists ==
  ASSUME NEW buf, \E n \in 0 .. Cap - 1 : buf[n] = NUL
  PROVE  /\ str_len(buf) \in 0 .. Cap - 1
         /\ buf[str_len(buf)] = NUL
         /\ \A i \in 0 .. str_len(buf) - 1 : buf[i] # NUL
<1>. DEFINE T == {n \in 0 .. Cap - 1 : buf[n] = NUL}
<1>1. T \in SUBSET Nat /\ T # {}
  BY CapAssumption
<1>2. PICK x \in T : \A y \in T : x <= y
  <2>. HIDE DEF T
  <2>. QED  BY <1>1, LeastElement
<1>3. x \in 0 .. Cap - 1 /\ buf[x] = NUL
  BY <1>2
<1>4. ASSUME NEW i \in 0 .. x - 1 PROVE buf[i] # NUL
  <2>1. i \in 0 .. Cap - 1 /\ ~(x <= i)
    BY <1>3, CapAssumption
  <2>. QED  BY <1>2, <2>1
<1>. QED  BY <1>3, <1>4 DEF str_len

LEMMA LineStartIs ==
  ASSUME NEW buf, NEW c \in Nat
  PROVE  /\ LineStart(buf, c) \in 0 .. c
         /\ LineStart(buf, c) = 0 \/ buf[LineStart(buf, c) - 1] = NewLine
         /\ \A j \in LineStart(buf, c) .. c - 1 : buf[j] # NewLine
<1>. DEFINE T == {i \in 0 .. c : \A j \in i .. c - 1 : buf[j] # NewLine}
<1>1. T \in SUBSET Nat /\ T # {}
  <2>1. c \in T
    OBVIOUS
  <2>2. T \subseteq Nat
    OBVIOUS
  <2>. QED  BY <2>1, <2>2
<1>2. PICK x \in T : \A y \in T : x <= y
  <2>. HIDE DEF T
  <2>. QED  BY <1>1, LeastElement
<1>3. x \in 0 .. c /\ \A j \in x .. c - 1 : buf[j] # NewLine
  BY <1>2
<1>4. x = 0 \/ buf[x - 1] = NewLine
  <2>. SUFFICES ASSUME x # 0, buf[x - 1] # NewLine PROVE FALSE
    OBVIOUS
  <2>1. x - 1 \in 0 .. c
    BY <1>3
  <2>2. ASSUME NEW j \in (x - 1) .. c - 1 PROVE buf[j] # NewLine
    <3>1. j = x - 1 \/ j \in x .. c - 1
      BY <1>3
    <3>. QED  BY <3>1, <1>3
  <2>3. x - 1 \in T
    BY <2>1, <2>2
  <2>. QED  BY <1>2, <1>3, <2>3
<1>. QED  BY <1>3, <1>4 DEF LineStart

LEMMA LineEndIs ==
  ASSUME NEW buf, NEW len \in Nat, NEW c \in 0 .. len
  PROVE  /\ LineEnd(buf, len, c) \in c .. len
         /\ LineEnd(buf, len, c) = len \/ buf[LineEnd(buf, len, c)] = NewLine
         /\ \A j \in c .. LineEnd(buf, len, c) - 1 : buf[j] # NewLine
<1>. DEFINE T == {i \in c .. len : i = len \/ buf[i] = NewLine}
<1>1. T \in SUBSET Nat /\ T # {}
  <2>1. len \in T
    OBVIOUS
  <2>. QED  BY <2>1
<1>2. PICK x \in T : \A y \in T : x <= y
  <2>. HIDE DEF T
  <2>. QED  BY <1>1, LeastElement
<1>3. x \in c .. len /\ (x = len \/ buf[x] = NewLine)
  BY <1>2
<1>4. ASSUME NEW j \in c .. x - 1 PROVE buf[j] # NewLine
  <2>1. j \in c .. len /\ ~(x <= j)
    BY <1>3
  <2>. QED  BY <1>2, <2>1
<1>. QED  BY <1>3, <1>4 DEF LineEnd

-----------------------------------------------------------------------------
(* The steps that leave the text alone.                                    *)

LEMMA GlyphType ==
  ASSUME NEW k \in Keys, NEW b \in BOOLEAN
  PROVE  Glyph[<<k, b>>] \in Glyphs
<1>1. <<k, b>> \in Keys \X BOOLEAN
  OBVIOUS
<1>. QED  BY <1>1, GlyphAssumption

LEMMA NoLine == << >> \in Seq(Glyphs)
OBVIOUS

LEMMA InitInv == Init => Inv
<1>. SUFFICES ASSUME Init PROVE Inv
  OBVIOUS
<1>1. content \in [0 .. Cap - 1 -> Symbols \union {NUL}]
  BY DEF Init
<1>2. \E n \in 0 .. Cap - 1 : content[n] = NUL
  BY CapAssumption DEF Init
<1>3. str_len(content) \in 0 .. Cap - 1
  BY <1>2, LengthExists
<1>4. TypeOK
  <2>1. size \in 0 .. Cap - 1 /\ length \in 0 .. Cap - 1 /\ cursor \in 0 .. length
    BY <1>3, CapAssumption DEF Init
  <2>2. /\ open \in BOOLEAN /\ insert_mode \in BOOLEAN /\ dirty \in BOOLEAN
        /\ shift_pressed \in BOOLEAN /\ ctrl_pressed \in BOOLEAN
    BY DEF Init
  <2>3. held \subseteq Modifiers /\ line \in Seq(Glyphs)
    BY NoLine DEF Init
  <2>. QED  BY <1>1, <2>1, <2>2, <2>3 DEF TypeOK
<1>5. Terminated
  BY <1>2 DEF Init, Terminated
<1>. QED  BY <1>4, <1>5 DEF Init, Inv, SizeIsLength, ModifiersHeld

\* In the editor the length is the file's.
LEMMA OpenLength ==
  ASSUME Inv, open
  PROVE  /\ length \in 0 .. Cap - 1 /\ str_len(content) = length
         /\ content[length] = NUL
         /\ \A i \in 0 .. length - 1 : content[i] # NUL
<1>1. length \in 0 .. Cap - 1
  BY DEF Inv, TypeOK
<1>. QED  BY <1>1, LengthIs DEF Inv, Terminated

LEMMA OpenInv ==
  ASSUME Inv, Open
  PROVE  Inv'
<1>1. /\ str_len(content) \in 0 .. Cap - 1
      /\ content[str_len(content)] = NUL
      /\ \A i \in 0 .. str_len(content) - 1 : content[i] # NUL
  BY LengthExists DEF Inv, Terminated
<1>2. TypeOK'
  <2>1. length' = str_len(content) /\ cursor' = str_len(content)
    BY DEF Open
  <2>2. length' \in 0 .. Cap - 1 /\ cursor' \in 0 .. length'
    BY <2>1, <1>1, CapAssumption
  <2>. QED  BY <2>2 DEF Inv, TypeOK, Open
<1>3. Terminated'
  BY <1>1 DEF Inv, Terminated, Open
<1>4. SizeIsLength' /\ ModifiersHeld'
  BY DEF Inv, SizeIsLength, ModifiersHeld, Open
<1>. QED  BY <1>2, <1>3, <1>4 DEF Inv

LEMMA QuitInv ==
  ASSUME Inv, Quit
  PROVE  Inv'
<1>1. open
  BY DEF Quit
<1>2. TypeOK'
  <2>1. line' = << >>
    BY DEF Quit, Close
  <2>2. line' \in Seq(Glyphs)
    BY <2>1, NoLine
  <2>. QED  BY <2>2 DEF Inv, TypeOK, Quit, Close
<1>3. Terminated'
  BY DEF Inv, Terminated, Quit, Close
<1>4. SizeIsLength'
  BY <1>1, OpenLength DEF SizeIsLength, Quit, Close
<1>5. ModifiersHeld'
  BY DEF Inv, ModifiersHeld, Quit, Close
<1>. QED  BY <1>2, <1>3, <1>4, <1>5 DEF Inv

\* The caret stays in the text.
LEMMA MoveCaret ==
  ASSUME Inv, NEW k \in {"h", "l", "k", "j"}, Move(k)
  PROVE  cursor' \in 0 .. length
<1>1. length \in Nat /\ cursor \in 0 .. length
  BY CapAssumption DEF Inv, TypeOK
<1>2. CASE k = "h"
  <2>1. editor_move_left
    BY <1>2 DEF Move
  <2>. QED  BY <2>1, <1>1 DEF editor_move_left
<1>3. CASE k = "l"
  <2>1. editor_move_right
    BY <1>3 DEF Move
  <2>. QED  BY <2>1, <1>1 DEF editor_move_right
<1>4. CASE k = "k"
  <2>1. editor_move_up
    BY <1>4 DEF Move
  <2>. DEFINE start == LineStart(content, cursor)
              above == LineStart(content, start - 1)
  <2>2. start \in 0 .. cursor
    BY <1>1, LineStartIs
  <2>3. cursor' = IF start = 0 THEN cursor
                  ELSE above + Least(cursor - start, start - 1 - above)
    BY <2>1 DEF editor_move_up
  <2>4. start # 0 => above \in 0 .. start - 1
    <3>1. start # 0 => start - 1 \in Nat
      BY <2>2, <1>1
    <3>. QED  BY <3>1, LineStartIs
  <2>. HIDE DEF start, above
  <2>. QED  BY <1>1, <2>2, <2>3, <2>4 DEF Least
<1>5. CASE k = "j"
  <2>1. editor_move_down
    BY <1>5 DEF Move
  <2>. DEFINE end == LineEnd(content, length, cursor)
              below == LineEnd(content, length, end + 1)
              start == LineStart(content, cursor)
  <2>2. end \in cursor .. length
    BY <1>1, LineEndIs
  <2>3. start \in 0 .. cursor
    BY <1>1, LineStartIs
  <2>4. cursor' = IF end >= length THEN cursor
                  ELSE end + 1 + Least(cursor - start, below - (end + 1))
    BY <2>1 DEF editor_move_down
  <2>5. end < length => below \in end + 1 .. length
    <3>1. end < length => end + 1 \in 0 .. length
      BY <2>2, <1>1
    <3>. QED  BY <3>1, <1>1, LineEndIs
  <2>. HIDE DEF start, end, below
  <2>. QED  BY <1>1, <2>2, <2>3, <2>4, <2>5 DEF Least
<1>. QED  BY <1>2, <1>3, <1>4, <1>5

LEMMA MoveInv ==
  ASSUME Inv, NEW k \in {"h", "l", "k", "j"}, Move(k)
  PROVE  Inv'
<1>1. cursor' \in 0 .. length
  BY MoveCaret
<1>2. UNCHANGED <<content, size, open, length, insert_mode, dirty, shift_pressed,
                  ctrl_pressed, held, line>>
  BY DEF Move, InEditor
<1>. QED  BY <1>1, <1>2 DEF Inv, TypeOK, Terminated, SizeIsLength, ModifiersHeld

\* Steps that change neither the text nor the caret.
LEMMA QuietInv ==
  ASSUME Inv,
         Escape \/ InsertMode \/ LineBackspace \/ LineEnter
         \/ (\E k \in Keys : LineType(k))
         \/ (\E m \in Modifiers : Press(m) \/ Release(m))
         \/ UNCHANGED vars
  PROVE  Inv'
<1>1. CASE Escape \/ InsertMode
  <2>1. insert_mode' \in BOOLEAN
    BY <1>1 DEF Escape, InsertMode
  <2>2. UNCHANGED <<content, size, open, length, cursor, dirty, shift_pressed,
                    ctrl_pressed, held, line>>
    BY <1>1 DEF Escape, InsertMode, InEditor, text
  <2>. QED  BY <2>1, <2>2 DEF Inv, TypeOK, Terminated, SizeIsLength, ModifiersHeld
<1>7. CASE UNCHANGED vars
  <2>1. UNCHANGED <<content, size, open, length, cursor, dirty, insert_mode,
                    shift_pressed, ctrl_pressed, held, line>>
    BY <1>7 DEF vars
  <2>. QED  BY <2>1 DEF Inv, TypeOK, Terminated, SizeIsLength, ModifiersHeld
<1>2. CASE LineBackspace
  <2>1. line \in Seq(Glyphs)
    BY DEF Inv, TypeOK
  <2>2. line' \in Seq(Glyphs)
    <3>1. CASE line = << >>
      <4>1. line' = << >>
        BY <1>2, <3>1 DEF LineBackspace
      <4>. QED  BY <4>1
    <3>2. CASE line # << >>
      BY <1>2, <2>1, <3>2 DEF LineBackspace
    <3>. QED  BY <3>1, <3>2
  <2>. QED  BY <1>2, <2>2 DEF Inv, TypeOK, Terminated, SizeIsLength, ModifiersHeld,
                              LineBackspace, AtPrompt, text
<1>3. CASE LineEnter
  <2>1. line' = << >>
    BY <1>3 DEF LineEnter
  <2>2. line' \in Seq(Glyphs)
    BY <2>1, NoLine
  <2>. QED  BY <1>3, <2>2 DEF Inv, TypeOK, Terminated, SizeIsLength, ModifiersHeld,
                              LineEnter, AtPrompt, text
<1>4. ASSUME NEW k \in Keys, LineType(k) PROVE Inv'
  <2>1. line' \in Seq(Glyphs)
    <3>1. line \in Seq(Glyphs) /\ Glyph[<<k, shift_pressed>>] \in Glyphs
      BY GlyphType DEF Inv, TypeOK
    <3>2. Append(line, Glyph[<<k, shift_pressed>>]) \in Seq(Glyphs)
      BY <3>1
    <3>3. line' = Append(line, Glyph[<<k, shift_pressed>>]) \/ line' = line
      BY <1>4 DEF LineType
    <3>. QED  BY <3>1, <3>2, <3>3
  <2>. QED  BY <1>4, <2>1 DEF Inv, TypeOK, Terminated, SizeIsLength, ModifiersHeld,
                              LineType, AtPrompt, text
<1>5. ASSUME NEW m \in Modifiers, Press(m) PROVE Inv'
  BY <1>5 DEF Inv, TypeOK, Terminated, SizeIsLength, ModifiersHeld, Press, text,
              Modifiers, Shifts
<1>6. ASSUME NEW m \in Modifiers, Release(m) PROVE Inv'
  <2>1. TypeOK' /\ Terminated' /\ SizeIsLength'
    BY <1>6 DEF Inv, TypeOK, Terminated, SizeIsLength, Release, text
  <2>2. shift_pressed' => held' \intersect Shifts # {}
    <3>1. shift_pressed' => shift_pressed /\ m \notin Shifts /\ held' = held \ {m}
      BY <1>6 DEF Release
    <3>. QED  BY <3>1 DEF Inv, ModifiersHeld
  <2>3. ctrl_pressed' => "Ctrl" \in held'
    <3>1. shift_pressed \in BOOLEAN /\ ctrl_pressed \in BOOLEAN
      BY DEF Inv, TypeOK
    <3>2. ctrl_pressed => "Ctrl" \in held
      BY DEF Inv, ModifiersHeld
    <3>3. ctrl_pressed' => ctrl_pressed /\ m # "Ctrl" /\ held' = held \ {m}
      BY <1>6 DEF Release
    <3>. QED  BY <3>1, <3>2, <3>3
  <2>. QED  BY <2>1, <2>2, <2>3 DEF Inv, ModifiersHeld
<1>. QED  BY <1>1, <1>2, <1>3, <1>4, <1>5, <1>6, <1>7

LEMMA SaveInv ==
  ASSUME Inv, Save
  PROVE  Inv'
<1>1. open
  BY DEF Save, InEditor
<1>2. str_len(content) = length
  BY <1>1, OpenLength
<1>. QED  BY <1>2 DEF Inv, TypeOK, Terminated, SizeIsLength, ModifiersHeld, Save, InEditor

-----------------------------------------------------------------------------
(* The steps that edit.                                                    *)

LEMMA InsertInv ==
  ASSUME Inv, open, NEW c \in Symbols, editor_insert_char(c),
         UNCHANGED <<size, open, insert_mode, shift_pressed, ctrl_pressed, held, line>>
  PROVE  Inv'
<1>1. CASE length >= Cap - 1
  <2>1. UNCHANGED <<content, length, cursor, dirty>>
    BY <1>1 DEF editor_insert_char, text
  <2>. QED  BY <2>1 DEF Inv, TypeOK, Terminated, SizeIsLength, ModifiersHeld
<1>2. CASE ~(length >= Cap - 1)
  <2>1. /\ content' = [i \in 0 .. Cap - 1 |->
                            IF i = length + 1 THEN NUL
                            ELSE IF i = cursor THEN c
                            ELSE IF i > cursor /\ i <= length THEN content[i - 1]
                            ELSE content[i]]
        /\ length' = length + 1 /\ cursor' = cursor + 1 /\ dirty' = TRUE
    BY <1>2 DEF editor_insert_char
  <2>2. /\ length \in 0 .. Cap - 1 /\ cursor \in 0 .. length
        /\ content \in [0 .. Cap - 1 -> Symbols \union {NUL}]
    BY DEF Inv, TypeOK
  <2>3. length' \in 0 .. Cap - 1 /\ cursor' \in 0 .. length'
    BY <1>2, <2>1, <2>2, CapAssumption
  <2>4. ASSUME NEW i \in 0 .. Cap - 1 PROVE content'[i] \in Symbols \union {NUL}
    <3>1. i > cursor /\ i <= length => i - 1 \in 0 .. Cap - 1
      BY <2>2, CapAssumption
    <3>. QED  BY <2>1, <2>2, <3>1
  <2>5. content' \in [0 .. Cap - 1 -> Symbols \union {NUL}]
    BY <2>1, <2>4
  <2>6. TypeOK'
    BY <2>1, <2>3, <2>5 DEF Inv, TypeOK
  <2>7. content'[length'] = NUL
    BY <2>1, <2>3
  <2>8. ASSUME NEW i \in 0 .. length' - 1 PROVE content'[i] # NUL
    <3>1. c # NUL
      BY NULAssumption DEF Symbols
    <3>2. \A j \in 0 .. length - 1 : content[j] # NUL
      BY OpenLength
    <3>3. i \in 0 .. Cap - 1 /\ i # length + 1 /\ i <= length
      BY <1>2, <2>1, <2>2, CapAssumption
    <3>4. CASE i = cursor
      BY <2>1, <3>1, <3>3, <3>4
    <3>5. CASE i > cursor
      <4>1. i - 1 \in 0 .. length - 1 /\ content'[i] = content[i - 1]
        BY <2>1, <2>2, <3>3, <3>5
      <4>. QED  BY <3>2, <4>1
    <3>6. CASE i < cursor
      <4>1. i \in 0 .. length - 1 /\ content'[i] = content[i]
        BY <2>1, <2>2, <3>3, <3>6
      <4>. QED  BY <3>2, <4>1
    <3>. QED  BY <2>2, <3>4, <3>5, <3>6
  <2>9. Terminated'
    BY <2>3, <2>7, <2>8 DEF Terminated
  <2>. QED  BY <2>1, <2>6, <2>9 DEF Inv, SizeIsLength, ModifiersHeld
<1>. QED  BY <1>1, <1>2

LEMMA BackspaceInv ==
  ASSUME Inv, open, editor_backspace,
         UNCHANGED <<size, open, insert_mode, shift_pressed, ctrl_pressed, held, line>>
  PROVE  Inv'
<1>1. CASE cursor = 0
  <2>1. UNCHANGED <<content, length, cursor, dirty>>
    BY <1>1 DEF editor_backspace, text
  <2>. QED  BY <2>1 DEF Inv, TypeOK, Terminated, SizeIsLength, ModifiersHeld
<1>2. CASE cursor # 0
  <2>1. /\ content' = [i \in 0 .. Cap - 1 |->
                            IF i >= cursor - 1 /\ i < length THEN content[i + 1]
                            ELSE content[i]]
        /\ length' = length - 1 /\ cursor' = cursor - 1 /\ dirty' = TRUE
    BY <1>2 DEF editor_backspace
  <2>2. /\ length \in 0 .. Cap - 1 /\ cursor \in 0 .. length
        /\ content \in [0 .. Cap - 1 -> Symbols \union {NUL}]
    BY DEF Inv, TypeOK
  <2>3. length' \in 0 .. Cap - 1 /\ cursor' \in 0 .. length'
    BY <1>2, <2>1, <2>2, CapAssumption
  <2>4. ASSUME NEW i \in 0 .. Cap - 1 PROVE content'[i] \in Symbols \union {NUL}
    <3>1. i < length => i + 1 \in 0 .. Cap - 1
      BY <2>2, CapAssumption
    <3>. QED  BY <2>1, <2>2, <3>1
  <2>5. content' \in [0 .. Cap - 1 -> Symbols \union {NUL}]
    BY <2>1, <2>4
  <2>6. TypeOK'
    BY <2>1, <2>3, <2>5 DEF Inv, TypeOK
  <2>7. content[length] = NUL /\ \A j \in 0 .. length - 1 : content[j] # NUL
    BY OpenLength
  <2>8. content'[length'] = NUL
    <3>1. length' >= cursor - 1 /\ length' < length /\ length' + 1 = length
      BY <1>2, <2>1, <2>2, CapAssumption
    <3>. QED  BY <2>1, <2>3, <2>7, <3>1
  <2>9. ASSUME NEW i \in 0 .. length' - 1 PROVE content'[i] # NUL
    <3>1. i \in 0 .. Cap - 1 /\ i \in 0 .. length - 1 /\ i + 1 \in 0 .. length - 1
      BY <2>1, <2>2, CapAssumption
    <3>2. content'[i] = content[i] \/ content'[i] = content[i + 1]
      BY <2>1, <3>1
    <3>. QED  BY <2>7, <3>1, <3>2
  <2>10. Terminated'
    BY <2>3, <2>8, <2>9 DEF Terminated
  <2>. QED  BY <2>1, <2>6, <2>10 DEF Inv, SizeIsLength, ModifiersHeld
<1>. QED  BY <1>1, <1>2

LEMMA EditInv ==
  ASSUME Inv, Backspace \/ Enter \/ (\E k \in Keys : Type(k))
  PROVE  Inv'
<1>1. /\ open
      /\ UNCHANGED <<size, open, insert_mode, shift_pressed, ctrl_pressed, held, line>>
  BY DEF Backspace, Enter, Type, InEditor
<1>2. CASE UNCHANGED text
  <2>1. UNCHANGED <<content, length, cursor, dirty>>
    BY <1>2 DEF text
  <2>. QED  BY <1>1, <2>1 DEF Inv, TypeOK, Terminated, SizeIsLength, ModifiersHeld
<1>3. CASE editor_backspace
  BY <1>1, <1>3, BackspaceInv
<1>4. ASSUME NEW c \in Symbols, editor_insert_char(c) PROVE Inv'
  BY <1>1, <1>4, InsertInv
<1>5. NewLine \in Symbols
  BY DEF Symbols
<1>6. \A k \in Keys : Glyph[<<k, shift_pressed>>] \in Symbols
  <2>1. shift_pressed \in BOOLEAN
    BY DEF Inv, TypeOK
  <2>. QED  BY <2>1, GlyphType DEF Symbols
<1>7. UNCHANGED text \/ editor_backspace \/ \E c \in Symbols : editor_insert_char(c)
  BY <1>5, <1>6 DEF Backspace, Enter, Type
<1>. QED  BY <1>2, <1>3, <1>4, <1>7

LEMMA NextInv == Inv /\ [Next]_vars => Inv'
<1>. SUFFICES ASSUME Inv, [Next]_vars PROVE Inv'
  OBVIOUS
<1>1. CASE Open
  BY <1>1, OpenInv
<1>2. CASE Quit
  BY <1>2, QuitInv
<1>3. CASE Save
  BY <1>3, SaveInv
<1>4. ASSUME NEW k \in {"h", "l", "k", "j"}, Move(k) PROVE Inv'
  BY <1>4, MoveInv
<1>5. CASE Backspace \/ Enter \/ (\E k \in Keys : Type(k))
  BY <1>5, EditInv
<1>6. CASE \/ Escape \/ InsertMode \/ LineBackspace \/ LineEnter
           \/ (\E k \in Keys : LineType(k))
           \/ (\E m \in Modifiers : Press(m) \/ Release(m))
           \/ UNCHANGED vars
  BY <1>6, QuietInv
<1>. QED  BY <1>1, <1>2, <1>3, <1>4, <1>5, <1>6 DEF Next, Session, Prompt

-----------------------------------------------------------------------------
\* The text, its length and its end, the recorded size and the modifiers, for
\* every key in every mode: TypeOK of Editor.
THEOREM TypeCorrect == Spec => []TypeOK
<1>1. Inv => TypeOK
  BY DEF Inv
<1>. QED  BY <1>1, InitInv, NextInv, PTL DEF Spec

\* The NUL is right behind the text, whatever was inserted and deleted where.
THEOREM TextTerminated == Spec => []Terminated
<1>1. Inv => Terminated
  BY DEF Inv
<1>. QED  BY <1>1, InitInv, NextInv, PTL DEF Spec

\* The recorded size is the length of the text, saved or not.
THEOREM SizeCorrect == Spec => []SizeIsLength
<1>1. Inv => SizeIsLength
  BY DEF Inv
<1>. QED  BY <1>1, InitInv, NextInv, PTL DEF Spec

\* No modifier is taken for pressed that is not down.
THEOREM ModifiersSound == Spec => []ModifiersHeld
<1>1. Inv => ModifiersHeld
  BY DEF Inv
<1>. QED  BY <1>1, InitInv, NextInv, PTL DEF Spec

-----------------------------------------------------------------------------
(* The editor implements TextBuffer.                                       *)

Contents == [0 .. Cap - 1 -> Symbols \union {NUL}]

\* A part of the text without a NUL is a sequence of symbols.
LEMMA PieceType ==
  ASSUME NEW buf \in Contents, NEW a \in Nat, NEW b \in a .. Cap - 1,
         \A i \in a .. b - 1 : buf[i] # NUL
  PROVE  /\ Piece(buf, a, b) \in Seq(Symbols)
         /\ Len(Piece(buf, a, b)) = b - a
<1>1. b - a \in Nat
  OBVIOUS
<1>2. ASSUME NEW i \in 1 .. b - a PROVE buf[a + i - 1] \in Symbols
  <2>1. a + i - 1 \in a .. b - 1 /\ a + i - 1 \in 0 .. Cap - 1
    BY CapAssumption
  <2>2. buf[a + i - 1] \in Symbols \union {NUL}
    BY <2>1 DEF Contents
  <2>. QED  BY <2>1, <2>2
<1>. QED  BY <1>1, <1>2 DEF Piece

\* Two adjacent parts make up a part.
LEMMA PieceSplit ==
  ASSUME NEW buf \in Contents, NEW n \in 0 .. Cap - 1, NEW c \in 0 .. n,
         \A i \in 0 .. n - 1 : buf[i] # NUL
  PROVE  Piece(buf, 0, c) \o Piece(buf, c, n) = Piece(buf, 0, n)
<1>. DEFINE u == Piece(buf, 0, c)
            v == Piece(buf, c, n)
            w == Piece(buf, 0, n)
<1>1. /\ u \in Seq(Symbols) /\ Len(u) = c
      /\ v \in Seq(Symbols) /\ Len(v) = n - c
      /\ w \in Seq(Symbols) /\ Len(w) = n
  <2>1. n \in Nat /\ c \in Nat /\ c \in 0 .. Cap - 1 /\ n \in c .. Cap - 1
    BY CapAssumption
  <2>2. \A i \in 0 .. c - 1 : buf[i] # NUL
    BY <2>1
  <2>3. \A i \in c .. n - 1 : buf[i] # NUL
    BY <2>1
  <2>4. u \in Seq(Symbols) /\ Len(u) = c - 0
    BY <2>1, <2>2, PieceType
  <2>5. v \in Seq(Symbols) /\ Len(v) = n - c
    BY <2>1, <2>3, PieceType
  <2>6. w \in Seq(Symbols) /\ Len(w) = n - 0
    BY <2>1, PieceType
  <2>. HIDE DEF u, v, w
  <2>. QED  BY <2>1, <2>4, <2>5, <2>6
<1>2. \A i \in 1 .. c : u[i] = buf[i - 1]
  BY DEF Piece
<1>3. \A i \in 1 .. n - c : v[i] = buf[c + i - 1]
  BY DEF Piece
<1>4. \A i \in 1 .. n : w[i] = buf[i - 1]
  BY DEF Piece
<1>. HIDE DEF u, v, w
<1>5. u \o v \in Seq(Symbols) /\ Len(u \o v) = n
  BY <1>1
<1>6. ASSUME NEW i \in 1 .. n PROVE (u \o v)[i] = w[i]
  <2>1. n \in Nat /\ c \in Nat /\ i \in Nat /\ i <= n
    BY CapAssumption
  <2>2. i \in 1 .. Len(u) + Len(v)
    BY <1>1, <2>1
  <2>3. (u \o v)[i] = IF i <= Len(u) THEN u[i] ELSE v[i - Len(u)]
    BY <1>1, <2>2, ConcatProperties
  <2>. DEFINE x == (u \o v)[i]
  <2>. HIDE DEF x
  <2>4. CASE i <= c
    <3>1. i \in 1 .. c
      BY <2>1, <2>4
    <3>. QED  BY <1>1, <1>2, <1>4, <2>3, <2>4, <3>1 DEF x
  <2>5. CASE i > c
    <3>1. i - c \in 1 .. n - c /\ c + (i - c) - 1 = i - 1 /\ ~(i <= c)
      BY <2>1, <2>5
    <3>. QED  BY <1>1, <1>3, <1>4, <2>3, <3>1 DEF x
  <2>6. i <= c \/ i > c
    BY <2>1
  <2>. QED  BY <2>4, <2>5, <2>6
<1>7. u \o v = w
  BY <1>1, <1>5, <1>6, SeqEqual
<1>. QED  BY <1>7 DEF u, v, w

\* What the invariant says of the text in the editor.
TextFacts ==
  /\ content \in Contents
  /\ length \in 0 .. Cap - 1 /\ cursor \in 0 .. length
  /\ \A i \in 0 .. length - 1 : content[i] # NUL
  /\ str_len(content) = length
  /\ Before \o After = Piece(content, 0, length)
  /\ Before \in Seq(Symbols) /\ Len(Before) = cursor
  /\ After \in Seq(Symbols) /\ Len(After) = length - cursor

LEMMA InText == Inv /\ open => TextFacts
<1>. SUFFICES ASSUME Inv, open PROVE TextFacts
  OBVIOUS
<1>1. /\ content \in Contents
      /\ length \in 0 .. Cap - 1 /\ cursor \in 0 .. length
      /\ str_len(content) = length
      /\ \A i \in 0 .. length - 1 : content[i] # NUL
  BY OpenLength DEF Inv, TypeOK, Contents
<1>2. Before = Piece(content, 0, cursor) /\ After = Piece(content, cursor, length)
  BY DEF Before, After
<1>3. Before \o After = Piece(content, 0, length)
  BY <1>1, <1>2, PieceSplit
<1>4. Before \in Seq(Symbols) /\ Len(Before) = cursor - 0
  <2>1. cursor \in 0 .. Cap - 1 /\ 0 \in Nat
    BY <1>1, CapAssumption
  <2>2. \A i \in 0 .. cursor - 1 : content[i] # NUL
    BY <1>1
  <2>. QED  BY <1>1, <1>2, <2>1, <2>2, PieceType
<1>5. After \in Seq(Symbols) /\ Len(After) = length - cursor
  <2>1. cursor \in Nat /\ length \in cursor .. Cap - 1
    BY <1>1, CapAssumption
  <2>2. \A i \in cursor .. length - 1 : content[i] # NUL
    BY <1>1
  <2>. QED  BY <1>1, <1>2, <2>1, <2>2, PieceType
<1>6. cursor - 0 = cursor
  BY <1>1, CapAssumption
<1>. QED  BY <1>1, <1>3, <1>4, <1>5, <1>6 DEF TextFacts

\* The same in the next state.
LEMMA InTextNext == Inv' /\ open' => TextFacts'
BY InText, PTL

\* The elements of the two parts.
LEMMA Elements ==
  ASSUME open
  PROVE  /\ \A i \in 1 .. cursor - 0 : Before[i] = content[0 + i - 1]
         /\ \A i \in 1 .. length - cursor : After[i] = content[cursor + i - 1]
BY DEF Before, After, Piece

LEMMA ElementsNext ==
  ASSUME open'
  PROVE  /\ \A i \in 1 .. cursor' - 0 : Before'[i] = content'[0 + i - 1]
         /\ \A i \in 1 .. length' - cursor' : After'[i] = content'[cursor' + i - 1]
BY DEF Before, After, Piece

LEMMA CaretStep ==
  ASSUME Inv, Inv', open, UNCHANGED <<open, content, length>>
  PROVE  TB!Place
<1>1. Before \o After = Piece(content, 0, length)
  BY InText DEF TextFacts
<1>2. Before' \o After' = Piece(content', 0, length')
  BY InTextNext DEF TextFacts
<1>3. Before' \o After' = Before \o After
  BY <1>1, <1>2
<1>. QED  BY <1>3 DEF TB!Place

LEMMA InsertStep ==
  ASSUME Inv, Inv', open, UNCHANGED open, length < Cap - 1,
         NEW c \in Symbols, editor_insert_char(c)
  PROVE  TB!Insert
<1>1. /\ content' = [i \in 0 .. Cap - 1 |->
                          IF i = length + 1 THEN NUL
                          ELSE IF i = cursor THEN c
                          ELSE IF i > cursor /\ i <= length THEN content[i - 1]
                          ELSE content[i]]
      /\ length' = length + 1 /\ cursor' = cursor + 1
  <2>1. ~(length >= Cap - 1)
    BY CapAssumption DEF Inv, TypeOK
  <2>. QED  BY <2>1 DEF editor_insert_char
<1>2. /\ length \in 0 .. Cap - 1 /\ cursor \in 0 .. length
      /\ Before \in Seq(Symbols) /\ Len(Before) = cursor
      /\ After \in Seq(Symbols) /\ Len(After) = length - cursor
  BY InText DEF TextFacts
<1>3. /\ Before' \in Seq(Symbols) /\ Len(Before') = cursor + 1
      /\ After' \in Seq(Symbols) /\ Len(After') = length - cursor
  <2>1. /\ Before' \in Seq(Symbols) /\ Len(Before') = cursor'
        /\ After' \in Seq(Symbols) /\ Len(After') = length' - cursor'
    BY InTextNext DEF TextFacts
  <2>. QED  BY <1>1, <1>2, <2>1, CapAssumption
<1>4. /\ \A i \in 1 .. cursor : Before[i] = content[i - 1]
      /\ \A i \in 1 .. length - cursor : After[i] = content[cursor + i - 1]
  BY <1>2, Elements, CapAssumption
<1>5. /\ \A i \in 1 .. cursor + 1 : Before'[i] = content'[i - 1]
      /\ \A i \in 1 .. length - cursor : After'[i] = content'[cursor + i]
  <2>1. /\ \A i \in 1 .. cursor' - 0 : Before'[i] = content'[0 + i - 1]
        /\ \A i \in 1 .. length' - cursor' : After'[i] = content'[cursor' + i - 1]
    BY ElementsNext
  <2>2. /\ cursor' - 0 = cursor + 1
        /\ length' - cursor' = length - cursor
        /\ \A i \in Int : 0 + i - 1 = i - 1 /\ cursor' + i - 1 = cursor + i
    BY <1>1, <1>2, CapAssumption
  <2>. QED  BY <2>1, <2>2
<1>6. Before' = Append(Before, c)
  <2>1. /\ Append(Before, c) \in Seq(Symbols) /\ Len(Append(Before, c)) = cursor + 1
        /\ \A i \in 1 .. cursor : Append(Before, c)[i] = Before[i]
        /\ Append(Before, c)[cursor + 1] = c
    BY <1>2, AppendProperties
  <2>2. ASSUME NEW i \in 1 .. cursor + 1 PROVE Before'[i] = Append(Before, c)[i]
    <3>1. i - 1 \in 0 .. Cap - 1 /\ i - 1 # length + 1
      BY <1>2, CapAssumption
    <3>2. CASE i = cursor + 1
      <4>1. i - 1 = cursor
        BY <1>2, <3>2, CapAssumption
      <4>2. content'[i - 1] = c
        BY <1>1, <3>1, <4>1
      <4>. QED  BY <1>5, <2>1, <3>2, <4>2
    <3>3. CASE i # cursor + 1
      <4>1. i \in 1 .. cursor /\ i - 1 # cursor /\ ~(i - 1 > cursor)
        BY <1>2, <3>3, CapAssumption
      <4>2. content'[i - 1] = content[i - 1]
        BY <1>1, <3>1, <4>1
      <4>. QED  BY <1>4, <1>5, <2>1, <4>1, <4>2
    <3>. QED  BY <3>2, <3>3
  <2>. QED  BY <1>3, <2>1, <2>2, SeqEqual
<1>7. After' = After
  <2>1. ASSUME NEW i \in 1 .. length - cursor PROVE After'[i] = After[i]
    <3>1. /\ cursor + i \in 0 .. Cap - 1 /\ cursor + i # length + 1
          /\ cursor + i # cursor /\ cursor + i > cursor /\ cursor + i <= length
      BY <1>2, CapAssumption
    <3>2. \A j \in 0 .. Cap - 1 :
             j # length + 1 /\ j # cursor /\ j > cursor /\ j <= length
               => content'[j] = content[j - 1]
      BY <1>1
    <3>. DEFINE k == cursor + i
    <3>3. content'[k] = content[k - 1]
      <4>. HIDE DEF k
      <4>1. k \in 0 .. Cap - 1 /\ k # length + 1 /\ k # cursor /\ k > cursor /\ k <= length
        BY <3>1 DEF k
      <4>. QED  BY <3>2, <4>1
    <3>4. After'[i] = content'[cursor + i] /\ After[i] = content[cursor + i - 1]
      BY <1>4, <1>5
    <3>5. cursor + i - 1 = (cursor + i) - 1
      BY <1>2, CapAssumption
    <3>. QED  BY <3>3, <3>4, <3>5
  <2>. QED  BY <1>2, <1>3, <2>1, SeqEqual
<1>8. Len(Before) + Len(After) < Cap - 1
  BY <1>2, CapAssumption
<1>. QED  BY <1>6, <1>7, <1>8 DEF TB!Insert

LEMMA EraseStep ==
  ASSUME Inv, Inv', open, UNCHANGED open, cursor # 0, editor_backspace
  PROVE  TB!Erase
<1>1. /\ content' = [i \in 0 .. Cap - 1 |->
                          IF i >= cursor - 1 /\ i < length THEN content[i + 1]
                          ELSE content[i]]
      /\ length' = length - 1 /\ cursor' = cursor - 1
  BY DEF editor_backspace
<1>2. /\ length \in 0 .. Cap - 1 /\ cursor \in 0 .. length
      /\ Before \in Seq(Symbols) /\ Len(Before) = cursor
      /\ After \in Seq(Symbols) /\ Len(After) = length - cursor
  BY InText DEF TextFacts
<1>3. /\ Before' \in Seq(Symbols) /\ Len(Before') = cursor - 1
      /\ After' \in Seq(Symbols) /\ Len(After') = length - cursor
  <2>1. /\ Before' \in Seq(Symbols) /\ Len(Before') = cursor'
        /\ After' \in Seq(Symbols) /\ Len(After') = length' - cursor'
    BY InTextNext DEF TextFacts
  <2>. QED  BY <1>1, <1>2, <2>1, CapAssumption
<1>4. /\ \A i \in 1 .. cursor : Before[i] = content[i - 1]
      /\ \A i \in 1 .. length - cursor : After[i] = content[cursor + i - 1]
  BY <1>2, Elements, CapAssumption
<1>5. /\ \A i \in 1 .. cursor - 1 : Before'[i] = content'[i - 1]
      /\ \A i \in 1 .. length - cursor : After'[i] = content'[cursor + i - 2]
  <2>1. /\ \A i \in 1 .. cursor' - 0 : Before'[i] = content'[0 + i - 1]
        /\ \A i \in 1 .. length' - cursor' : After'[i] = content'[cursor' + i - 1]
    BY ElementsNext
  <2>2. /\ cursor' - 0 = cursor - 1
        /\ length' - cursor' = length - cursor
        /\ \A i \in Int : 0 + i - 1 = i - 1 /\ cursor' + i - 1 = cursor + i - 2
    BY <1>1, <1>2, CapAssumption
  <2>. QED  BY <2>1, <2>2
<1>6. Before # << >> /\ Before' = SubSeq(Before, 1, Len(Before) - 1)
  <2>1. /\ SubSeq(Before, 1, cursor - 1) \in Seq(Symbols)
        /\ Len(SubSeq(Before, 1, cursor - 1)) = cursor - 1
        /\ \A i \in 1 .. cursor - 1 : SubSeq(Before, 1, cursor - 1)[i] = Before[i]
    BY <1>2, CapAssumption
  <2>2. ASSUME NEW i \in 1 .. cursor - 1
        PROVE  Before'[i] = SubSeq(Before, 1, cursor - 1)[i]
    <3>1. i - 1 \in 0 .. Cap - 1 /\ ~(i - 1 >= cursor - 1) /\ i \in 1 .. cursor
      BY <1>2, CapAssumption
    <3>2. content'[i - 1] = content[i - 1]
      BY <1>1, <3>1
    <3>. QED  BY <1>4, <1>5, <2>1, <3>1, <3>2
  <2>3. Before' = SubSeq(Before, 1, cursor - 1)
    BY <1>3, <2>1, <2>2, SeqEqual
  <2>4. Before # << >>
    BY <1>2, CapAssumption
  <2>. QED  BY <1>2, <2>3, <2>4
<1>7. After' = After
  <2>1. ASSUME NEW i \in 1 .. length - cursor PROVE After'[i] = After[i]
    <3>1. /\ cursor + i - 2 \in 0 .. Cap - 1
          /\ cursor + i - 2 >= cursor - 1 /\ cursor + i - 2 < length
          /\ cursor + i - 2 + 1 = cursor + i - 1
      BY <1>2, CapAssumption
    <3>2. content'[cursor + i - 2] = content[cursor + i - 1]
      BY <1>1, <3>1
    <3>. QED  BY <1>4, <1>5, <3>2
  <2>. QED  BY <1>2, <1>3, <2>1, SeqEqual
<1>. QED  BY <1>6, <1>7 DEF TB!Erase

LEMMA TBOpenStep ==
  ASSUME Inv, Inv', Open
  PROVE  TB!Open
<1>1. /\ ~open /\ open' /\ content' = content
      /\ length' = str_len(content) /\ cursor' = str_len(content)
  BY DEF Open
<1>2. str_len(content) \in 0 .. Cap - 1
  BY LengthExists DEF Inv, Terminated
<1>3. Before' = Before /\ After = << >>
  BY <1>1 DEF Before, After
<1>4. After' = << >>
  <2>1. length' - cursor' = 0
    BY <1>1, <1>2, CapAssumption
  <2>2. After' \in Seq(Symbols) /\ Len(After') = 0
    BY <1>1, <2>1, InTextNext DEF TextFacts
  <2>. QED  BY <2>2
<1>5. open' = TRUE
  BY <1>1 DEF Open
<1>. QED  BY <1>1, <1>3, <1>4, <1>5 DEF TB!Open

LEMMA TBCloseStep ==
  ASSUME Inv, Inv', Quit
  PROVE  TB!Close
<1>1. open /\ open' = FALSE /\ content' = content
  BY DEF Quit, Close
<1>2. Before \o After = Piece(content, 0, length) /\ str_len(content) = length
  BY <1>1, InText DEF TextFacts
<1>3. Before' = Piece(content, 0, length) /\ After' = << >>
  BY <1>1, <1>2 DEF Before, After
<1>. QED  BY <1>1, <1>2, <1>3 DEF TB!Close

\* An insertion, of a full file too.
LEMMA TBInsertStep ==
  ASSUME Inv, Inv', open, UNCHANGED open, NEW c \in Symbols, editor_insert_char(c)
  PROVE  TB!Insert \/ TB!Place
<1>1. length \in 0 .. Cap - 1
  BY DEF Inv, TypeOK
<1>2. CASE length < Cap - 1
  BY <1>2, InsertStep
<1>3. CASE length >= Cap - 1
  <2>1. UNCHANGED <<open, content, length>>
    BY <1>3 DEF editor_insert_char, text
  <2>. QED  BY <2>1, CaretStep
<1>. QED  BY <1>1, <1>2, <1>3, CapAssumption

LEMMA TBEditStep ==
  ASSUME Inv, Inv', Backspace \/ Enter \/ (\E k \in Keys : Type(k))
  PROVE  TB!Insert \/ TB!Erase \/ TB!Place
<1>1. open /\ UNCHANGED open
  BY DEF Backspace, Enter, Type, InEditor
<1>2. CASE UNCHANGED text
  <2>1. UNCHANGED <<open, content, length>>
    BY <1>1, <1>2 DEF text
  <2>. QED  BY <1>1, <2>1, CaretStep
<1>3. CASE editor_backspace
  <2>1. CASE cursor = 0
    <3>1. UNCHANGED <<open, content, length>>
      BY <1>1, <1>3, <2>1 DEF editor_backspace, text
    <3>. QED  BY <1>1, <3>1, CaretStep
  <2>2. CASE cursor # 0
    BY <1>1, <1>3, <2>2, EraseStep
  <2>. QED  BY <2>1, <2>2
<1>4. ASSUME NEW c \in Symbols, editor_insert_char(c) PROVE TB!Insert \/ TB!Place
  BY <1>1, <1>4, TBInsertStep
<1>5. NewLine \in Symbols
  BY DEF Symbols
<1>6. \A k \in Keys : Glyph[<<k, shift_pressed>>] \in Symbols
  <2>1. shift_pressed \in BOOLEAN
    BY DEF Inv, TypeOK
  <2>. QED  BY <2>1, GlyphType DEF Symbols
<1>7. UNCHANGED text \/ editor_backspace \/ \E c \in Symbols : editor_insert_char(c)
  BY <1>5, <1>6 DEF Backspace, Enter, Type
<1>. QED  BY <1>2, <1>3, <1>4, <1>7

LEMMA TBStep == Inv /\ Inv' /\ [Next]_vars => [TB!Next]_(TB!vars)
<1>. SUFFICES ASSUME Inv, Inv', [Next]_vars
              PROVE  TB!Next \/ UNCHANGED TB!vars
  OBVIOUS
<1>1. CASE Open
  BY <1>1, TBOpenStep DEF TB!Next
<1>2. CASE Quit
  BY <1>2, TBCloseStep DEF TB!Next
<1>3. CASE Backspace \/ Enter \/ (\E k \in Keys : Type(k))
  BY <1>3, TBEditStep DEF TB!Next
<1>4. CASE Save \/ Escape \/ InsertMode \/ (\E k \in {"h", "l", "k", "j"} : Move(k))
  <2>1. open /\ UNCHANGED <<open, content, length>>
    BY <1>4 DEF Save, Escape, InsertMode, Move, InEditor, text
  <2>. QED  BY <2>1, CaretStep DEF TB!Next
<1>5. CASE \/ LineBackspace \/ LineEnter
           \/ (\E k \in Keys : LineType(k))
           \/ (\E m \in Modifiers : Press(m) \/ Release(m))
           \/ UNCHANGED vars
  <2>1. UNCHANGED <<open, content, length, cursor>>
    BY <1>5 DEF LineBackspace, LineEnter, LineType, AtPrompt, Press, Release, text, vars
  <2>2. UNCHANGED <<Before, After, open>>
    BY <2>1 DEF Before, After
  <2>. QED  BY <2>2 DEF TB!vars
<1>. QED  BY <1>1, <1>2, <1>3, <1>4, <1>5 DEF Next, Session, Prompt

LEMMA TBInit == Init => TB!Init
<1>. SUFFICES ASSUME Init PROVE TB!Init
  OBVIOUS
<1>1. content \in Contents /\ open = FALSE
  BY DEF Init, Contents
<1>2. \E n \in 0 .. Cap - 1 : content[n] = NUL
  BY CapAssumption DEF Init
<1>3. /\ str_len(content) \in 0 .. Cap - 1
      /\ \A i \in 0 .. str_len(content) - 1 : content[i] # NUL
  BY <1>2, LengthExists
<1>4. Before = Piece(content, 0, str_len(content)) /\ After = << >>
  BY <1>1 DEF Before, After
<1>5. Before \in Seq(Symbols) /\ Len(Before) = str_len(content) - 0
  <2>1. 0 \in Nat /\ str_len(content) \in 0 .. Cap - 1
    BY <1>3
  <2>. QED  BY <1>1, <1>3, <1>4, <2>1, PieceType
<1>6. Len(Before) <= Cap - 1
  BY <1>3, <1>5, CapAssumption
<1>. QED  BY <1>1, <1>4, <1>5, <1>6 DEF TB!Init

\* Through every sequence of keys the file is a text with a caret: the shifts of
\* the array insert and delete at the caret only.
THEOREM EditorRefines == Spec => ImplementsTextBuffer
<1>1. Spec => []Inv
  BY InitInv, NextInv, PTL DEF Spec
<1>. QED  BY <1>1, TBInit, TBStep, PTL DEF Spec, ImplementsTextBuffer, TB!Spec
-----------------------------------------------------------------------------
(***************************************************************************)
(* Lines and columns.  LineCol is a recursive function; that there is one, *)
(* and what holds along it, follows from there being no least position     *)
(* where it fails.                                                         *)
(***************************************************************************)
Position(buf, n, prev) ==
  IF buf[n - 1] = NewLine THEN <<prev[1] + 1, 0>> ELSE <<prev[1], prev[2] + 1>>

Counting(at, buf, m) ==
  /\ at \in [0 .. m -> Nat \X Nat] /\ at[0] = <<0, 0>>
  /\ \A n \in 1 .. m : at[n] = Position(buf, n, at[n - 1])

LEMMA PositionType ==
  ASSUME NEW buf, NEW n, NEW prev \in Nat \X Nat
  PROVE  Position(buf, n, prev) \in Nat \X Nat
BY DEF Position

LEMMA CountingExists ==
  ASSUME NEW buf, NEW m \in Nat
  PROVE  \E at : Counting(at, buf, m)
<1>. DEFINE T == {n \in Nat : ~\E at : Counting(at, buf, n)}
<1>. SUFFICES ASSUME T # {} PROVE FALSE
  OBVIOUS
<1>1. PICK x \in T : \A y \in T : x <= y
  <2>1. T \in SUBSET Nat
    OBVIOUS
  <2>. HIDE DEF T
  <2>. QED  BY <2>1, LeastElement
<1>2. x # 0
  <2>. SUFFICES \E at : Counting(at, buf, 0)
    BY <1>1
  <2>. DEFINE at == [n \in 0 .. 0 |-> <<0, 0>>]
  <2>1. at \in [0 .. 0 -> Nat \X Nat] /\ at[0] = <<0, 0>>
    OBVIOUS
  <2>. HIDE DEF at
  <2>2. Counting(at, buf, 0)
    BY <2>1 DEF Counting
  <2>. QED  BY <2>2
<1>3. x \in Nat \ {0} /\ x - 1 \in Nat /\ x - 1 \notin T
  BY <1>1, <1>2
<1>4. PICK at : Counting(at, buf, x - 1)
  BY <1>3
<1>. DEFINE p == Position(buf, x, at[x - 1])
            new == [n \in 0 .. x |-> IF n = x THEN p ELSE at[n]]
<1>5. /\ at \in [0 .. x - 1 -> Nat \X Nat] /\ at[0] = <<0, 0>> /\ at[x - 1] \in Nat \X Nat
      /\ \A n \in 1 .. x - 1 : at[n] = Position(buf, n, at[n - 1])
  BY <1>3, <1>4 DEF Counting
<1>6. p \in Nat \X Nat
  BY <1>5, PositionType
<1>. HIDE DEF p
<1>7. new \in [0 .. x -> Nat \X Nat] /\ new[x] = p /\ \A n \in 0 .. x - 1 : new[n] = at[n]
  BY <1>3, <1>5, <1>6
<1>. HIDE DEF new
<1>8. ASSUME NEW n \in 1 .. x PROVE new[n] = Position(buf, n, new[n - 1])
  <2>1. CASE n = x
    BY <1>3, <1>7, <2>1 DEF p
  <2>2. CASE n # x
    <3>1. n \in 1 .. x - 1 /\ n \in 0 .. x - 1 /\ n - 1 \in 0 .. x - 1
      BY <1>3, <2>2
    <3>. QED  BY <1>5, <1>7, <3>1
  <2>. QED  BY <2>1, <2>2
<1>9. Counting(new, buf, x)
  BY <1>3, <1>5, <1>7, <1>8, SMTT(20) DEF Counting
<1>. QED  BY <1>1, <1>9

LEMMA CountedFrom ==
  ASSUME NEW at, NEW buf, NEW m \in Nat, Counting(at, buf, m)
  PROVE  /\ \A n \in 0 .. m : at[n] \in Nat \X Nat
         /\ \A n \in 1 .. m :
              IF buf[n - 1] = NewLine
              THEN at[n][1] = at[n - 1][1] + 1 /\ at[n][2] = 0
              ELSE at[n][1] = at[n - 1][1] /\ at[n][2] = at[n - 1][2] + 1
<1>1. \A n \in 0 .. m : at[n] \in Nat \X Nat
  BY DEF Counting
<1>2. ASSUME NEW n \in 1 .. m
      PROVE  IF buf[n - 1] = NewLine
             THEN at[n][1] = at[n - 1][1] + 1 /\ at[n][2] = 0
             ELSE at[n][1] = at[n - 1][1] /\ at[n][2] = at[n - 1][2] + 1
  <2>1. at[n] = Position(buf, n, at[n - 1])
    BY DEF Counting
  <2>. QED  BY <2>1 DEF Position
<1>. QED  BY <1>1, <1>2

LEMMA LineColIs ==
  ASSUME NEW buf
  PROVE  Counting(LineCol(buf), buf, Cap)
<1>. DEFINE L == LineCol(buf)
            F(f) == [n \in 0 .. Cap |-> IF n = 0 THEN <<0, 0>>
                                        ELSE IF buf[n - 1] = NewLine THEN <<f[n - 1][1] + 1, 0>>
                                        ELSE <<f[n - 1][1], f[n - 1][2] + 1>>]
<1>1. PICK at : Counting(at, buf, Cap)
  BY CapAssumption, CountingExists
<1>. DEFINE G(f, n) == IF n = 0 THEN <<0, 0>> ELSE Position(buf, n, f[n - 1])
<1>2. \A f : F(f) = [n \in 0 .. Cap |-> G(f, n)]
  BY DEF Position
<1>3. at = F(at)
  <2>1. at = [n \in 0 .. Cap |-> at[n]] /\ \A n \in 0 .. Cap : n = 0 \/ n \in 1 .. Cap
    BY <1>1, CapAssumption DEF Counting
  <2>2. ASSUME NEW n \in 0 .. Cap PROVE at[n] = G(at, n)
    BY <1>1, <2>1, CapAssumption DEF Counting
  <2>. HIDE DEF F, G
  <2>3. at = [n \in 0 .. Cap |-> G(at, n)]
    BY <2>1, <2>2
  <2>. QED  BY <1>2, <2>3
<1>4. L = CHOOSE f : f = F(f)
  BY DEF LineCol
<1>5. L = F(L)
  <2>. HIDE DEF L, F
  <2>. QED  BY <1>4, <1>3
<1>6. L[0] = <<0, 0>> /\ \A n \in 1 .. Cap : L[n] = Position(buf, n, L[n - 1])
  <2>. HIDE DEF L, F, G
  <2>1. \A n \in 0 .. Cap : L[n] = G(L, n)
    <3>1. L = [n \in 0 .. Cap |-> G(L, n)]
      BY <1>2, <1>5
    <3>. DEFINE H == [n \in 0 .. Cap |-> G(L, n)]
    <3>2. \A n \in 0 .. Cap : H[n] = G(L, n)
      OBVIOUS
    <3>. HIDE DEF H
    <3>. QED  BY <3>1, <3>2 DEF H
  <2>2. 0 \in 0 .. Cap /\ \A n \in 1 .. Cap : n \in 0 .. Cap /\ n # 0
    BY CapAssumption
  <2>. QED  BY <2>1, <2>2 DEF G
<1>7. \A n \in 0 .. Cap : L[n] = at[n]
  <2>. DEFINE T == {n \in 0 .. Cap : L[n] # at[n]}
  <2>. SUFFICES ASSUME T # {} PROVE FALSE
    OBVIOUS
  <2>1. PICK x \in T : \A y \in T : x <= y
    <3>1. T \in SUBSET Nat
      BY CapAssumption
    <3>. HIDE DEF T
    <3>. QED  BY <3>1, LeastElement
  <2>2. x # 0
    BY <1>1, <1>6, <2>1 DEF Counting
  <2>3. x \in 1 .. Cap /\ x - 1 \in 0 .. Cap /\ ~(x <= x - 1)
    BY <2>1, <2>2, CapAssumption
  <2>4. L[x - 1] = at[x - 1]
    BY <2>1, <2>3
  <2>. HIDE DEF L, T
  <2>5. L[x] = at[x]
    BY <1>1, <1>6, <2>3, <2>4 DEF Counting
  <2>. QED  BY <2>1, <2>5 DEF T
<1>8. L = at
  <2>. HIDE DEF L, F, G
  <2>1. DOMAIN L = 0 .. Cap /\ L = [n \in DOMAIN L |-> L[n]]
    BY <1>2, <1>5
  <2>. QED  BY <1>1, <1>7, <2>1 DEF Counting
<1>. QED  BY <1>1, <1>8
\* Along the text the line never goes back.
LEMMA LinesGrow ==
  ASSUME NEW buf, NEW i \in 0 .. Cap, NEW j \in i .. Cap
  PROVE  LineCol(buf)[i][1] <= LineCol(buf)[j][1]
<1>. DEFINE L == LineCol(buf)
            T == {n \in i .. Cap : ~(L[i][1] <= L[n][1])}
<1>0. Counting(L, buf, Cap)
  BY LineColIs
<1>. HIDE DEF L
<1>1. /\ \A n \in 0 .. Cap : L[n] \in Nat \X Nat
      /\ \A n \in 1 .. Cap : L[n][1] = L[n - 1][1] \/ L[n][1] = L[n - 1][1] + 1
  BY <1>0, CountedFrom, CapAssumption
<1>. SUFFICES ASSUME T # {} PROVE FALSE
  BY DEF L
<1>2. PICK x \in T : \A y \in T : x <= y
  <2>1. T \in SUBSET Nat
    BY CapAssumption
  <2>. HIDE DEF T
  <2>. QED  BY <2>1, LeastElement
<1>3. x # i
  BY <1>1, <1>2
<1>4. x \in 1 .. Cap /\ x - 1 \in i .. Cap /\ x - 1 \in 0 .. Cap /\ ~(x <= x - 1)
  BY <1>2, <1>3, CapAssumption
<1>5. L[i][1] <= L[x - 1][1]
  BY <1>2, <1>4
<1>. QED  BY <1>1, <1>2, <1>4, <1>5

\* Without a line break the column counts the characters.
LEMMA LineRuns ==
  ASSUME NEW buf, NEW s \in 0 .. Cap, NEW e \in s .. Cap,
         \A j \in s .. e - 1 : buf[j] # NewLine
  PROVE  \A i \in s .. e : /\ LineCol(buf)[i][1] = LineCol(buf)[s][1]
                           /\ LineCol(buf)[i][2] = LineCol(buf)[s][2] + (i - s)
<1>. DEFINE L == LineCol(buf)
            Right(n) == L[n][1] = L[s][1] /\ L[n][2] = L[s][2] + (n - s)
            T == {n \in s .. e : ~Right(n)}
<1>0. Counting(L, buf, Cap)
  BY LineColIs
<1>. HIDE DEF L
<1>1. /\ \A n \in 0 .. Cap : L[n] \in Nat \X Nat
      /\ \A n \in 1 .. Cap : buf[n - 1] # NewLine =>
           L[n][1] = L[n - 1][1] /\ L[n][2] = L[n - 1][2] + 1
  BY <1>0, CountedFrom, CapAssumption
<1>. SUFFICES ASSUME T # {} PROVE FALSE
  BY DEF L
<1>2. PICK x \in T : \A y \in T : x <= y
  <2>1. T \in SUBSET Nat
    BY CapAssumption
  <2>. HIDE DEF T
  <2>. QED  BY <2>1, LeastElement
<1>3. x # s
  BY <1>1, <1>2
<1>4. /\ x \in 1 .. Cap /\ x - 1 \in s .. e /\ x - 1 \in s .. e - 1 /\ x - 1 \in 0 .. Cap
      /\ ~(x <= x - 1) /\ x \in s .. e
  BY <1>2, <1>3, CapAssumption
<1>5. Right(x - 1)
  BY <1>2, <1>4
<1>. QED  BY <1>1, <1>2, <1>4, <1>5

\* The first line shown, as editor_render sets it.
LEMMA ScrolledShows ==
  ASSUME NEW first \in Nat, NEW buf, NEW c \in 0 .. Cap
  PROVE  /\ Scrolled(first, buf, c) \in Nat
         /\ LineCol(buf)[c][1] \in
              Scrolled(first, buf, c) .. Scrolled(first, buf, c) + VisibleLines - 1
<1>. DEFINE l == LineCol(buf)[c][1]
<1>1. l \in Nat
  BY LineColIs DEF Counting
<1>2. Scrolled(first, buf, c) = IF l < first THEN l
                                ELSE IF l >= first + VisibleLines THEN l - VisibleLines + 1
                                ELSE first
  BY DEF Scrolled
<1>. HIDE DEF l
<1>3. LET s == Scrolled(first, buf, c) IN s \in Nat /\ l \in s .. s + VisibleLines - 1
  BY <1>1, <1>2, LinesAssumption
<1>. QED  BY <1>3 DEF l

\* Every byte that changes the text or the caret ends with the screen drawn.
ScrollInv == scroll_line \in Nat /\ CaretShown

LEMMA ScrollStep == Inv /\ Inv' /\ ScrollInv /\ [Next]_vars => ScrollInv'
<1>. SUFFICES ASSUME Inv, Inv', ScrollInv, [Next]_vars PROVE ScrollInv'
  OBVIOUS
<1>1. cursor' \in 0 .. Cap /\ scroll_line \in Nat
  BY CapAssumption DEF Inv, TypeOK, ScrollInv
<1>2. CASE Render
  BY <1>1, <1>2, ScrolledShows DEF Render, ScrollInv, CaretShown
<1>3. CASE Open
  <2>1. scroll_line' = Scrolled(0, content', cursor')
    BY <1>3 DEF Open
  <2>. QED  BY <1>1, <2>1, ScrolledShows DEF ScrollInv, CaretShown
<1>4. CASE UNCHANGED <<content, cursor, scroll_line, open>>
  BY <1>4 DEF ScrollInv, CaretShown
<1>5. CASE UNCHANGED scroll_line /\ ~open'
  BY <1>5 DEF ScrollInv, CaretShown
<1>6. CASE Session
  BY <1>2, <1>5, <1>6 DEF Session, Escape, Backspace, Enter, Save, Quit, Close,
                          InsertMode, Move, Type
<1>7. CASE Prompt
  BY <1>3, <1>4, <1>7 DEF Prompt, LineBackspace, LineEnter, LineType, AtPrompt, text
<1>8. CASE \E m \in Modifiers : Press(m) \/ Release(m)
  BY <1>4, <1>8 DEF Press, Release, text
<1>9. CASE UNCHANGED vars
  BY <1>4, <1>9 DEF vars
<1>. QED  BY <1>6, <1>7, <1>8, <1>9 DEF Next

(***************************************************************************)
(* CaretShown of Editor.tla: after any key the line of the caret is on the *)
(* screen, for every size of the file and of the screen.                   *)
(***************************************************************************)
THEOREM CaretVisible == Spec => []CaretShown
<1>1. Init => ScrollInv
  BY DEF Init, ScrollInv, CaretShown
<1>2. ScrollInv => CaretShown
  BY DEF ScrollInv
<1>. QED  BY <1>1, <1>2, InitInv, NextInv, ScrollStep, PTL DEF Spec
(***************************************************************************)
(* Up and down.  A line as the caret's moves find it, from a line break or *)
(* the start to a line break or the end, is a line as the screen counts.   *)
(***************************************************************************)
LEMMA ColumnsOf ==
  ASSUME NEW buf
  PROVE  /\ \A n \in 0 .. Cap : LineCol(buf)[n] \in Nat \X Nat
         /\ LineCol(buf)[0] = <<0, 0>>
         /\ \A n \in 1 .. Cap : buf[n - 1] = NewLine =>
              /\ LineCol(buf)[n][1] = LineCol(buf)[n - 1][1] + 1
              /\ LineCol(buf)[n][2] = 0
<1>. DEFINE L == LineCol(buf)
<1>1. Counting(L, buf, Cap)
  BY LineColIs
<1>. HIDE DEF L
<1>2. L[0] = <<0, 0>>
  BY <1>1 DEF Counting
<1>3. /\ \A n \in 0 .. Cap : L[n] \in Nat \X Nat
      /\ \A n \in 1 .. Cap : buf[n - 1] = NewLine => L[n][1] = L[n - 1][1] + 1 /\ L[n][2] = 0
  BY <1>1, CountedFrom, CapAssumption
<1>. QED  BY <1>2, <1>3 DEF L

LEMMA ALine ==
  ASSUME Inv, NEW s \in 0 .. length, NEW e \in s .. length,
         s = 0 \/ content[s - 1] = NewLine, e = length \/ content[e] = NewLine,
         \A j \in s .. e - 1 : content[j] # NewLine
  PROVE  /\ LineCol(content)[s][1] \in 0 .. LineCol(content)[length][1]
         /\ LineLength(LineCol(content)[s][1]) = e - s
         /\ \A i \in s .. e : LineCol(content)[i] = <<LineCol(content)[s][1], i - s>>
<1>. DEFINE L == LineCol(content)
            n == L[s][1]
<1>1. length \in 0 .. Cap /\ length \in Nat /\ s \in 0 .. Cap /\ e \in s .. Cap /\ Cap \in Nat
  BY CapAssumption DEF Inv, TypeOK
<1>2. \A i \in 0 .. Cap : L[i] \in Nat \X Nat
  BY ColumnsOf
<1>3. L[s][2] = 0 /\ (s # 0 => L[s - 1][1] + 1 = n)
  <2>1. CASE s = 0
    BY <2>1, ColumnsOf
  <2>2. CASE s # 0
    <3>1. s \in 1 .. Cap
      BY <1>1, <2>2
    <3>2. L[s][1] = L[s - 1][1] + 1 /\ L[s][2] = 0
      BY <2>2, <3>1, ColumnsOf
    <3>. QED  BY <3>2
  <2>. QED  BY <2>1, <2>2
<1>4. \A i \in s .. e : L[i][1] = n /\ L[i][2] = L[s][2] + (i - s)
  BY <1>1, LineRuns
<1>5. e # length => L[e + 1][1] = n + 1
  <2>. SUFFICES ASSUME e # length PROVE L[e + 1][1] = n + 1
    OBVIOUS
  <2>1. e + 1 \in 1 .. Cap /\ (e + 1) - 1 = e /\ content[e] = NewLine /\ e \in s .. e
    BY <1>1
  <2>2. L[e + 1][1] = L[e][1] + 1
    BY <2>1, ColumnsOf
  <2>. QED  BY <1>4, <2>1, <2>2
<1>6. n \in 0 .. L[length][1]
  <2>1. L[s][1] <= L[length][1]
    BY <1>1, LinesGrow
  <2>. QED  BY <1>1, <1>2, <2>1
<1>7. {i \in 0 .. length : L[i][1] = n} = s .. e
  <2>1. ASSUME NEW i \in 0 .. length, i < s PROVE L[i][1] # n
    <3>1. s # 0 /\ i \in 0 .. Cap /\ s - 1 \in i .. Cap /\ s - 1 \in 0 .. Cap
      BY <1>1, <2>1
    <3>2. L[i][1] <= L[s - 1][1]
      BY <3>1, LinesGrow
    <3>3. L[i][1] \in Nat /\ L[s - 1][1] \in Nat
      BY <1>2, <3>1
    <3>. HIDE DEF L, n
    <3>. QED  BY <1>3, <3>1, <3>2, <3>3
  <2>2. ASSUME NEW i \in 0 .. length, i > e PROVE L[i][1] # n
    <3>1. e # length /\ i \in e + 1 .. Cap /\ e + 1 \in 0 .. Cap /\ i \in 0 .. Cap
      BY <1>1, <2>2
    <3>2. L[e + 1][1] <= L[i][1]
      BY <3>1, LinesGrow
    <3>3. L[i][1] \in Nat /\ n \in Nat
      BY <1>1, <1>2, <3>1
    <3>. HIDE DEF L, n
    <3>. QED  BY <1>5, <3>1, <3>2, <3>3
  <2>3. \A i \in 0 .. length : i \in s .. e \/ i < s \/ i > e
    BY <1>1
  <2>4. \A i \in s .. e : i \in 0 .. length
    BY <1>1
  <2>. HIDE DEF L, n
  <2>. QED  BY <1>4, <2>1, <2>2, <2>3, <2>4
<1>8. LineLength(n) = e - s
  <2>1. Cardinality(s .. e) = e - s + 1
    BY <1>1, FS_Interval
  <2>2. LineLength(n) = Cardinality(s .. e) - 1
    BY <1>7 DEF LineLength
  <2>. QED  BY <1>1, <2>1, <2>2
<1>9. ASSUME NEW i \in s .. e PROVE L[i] = <<n, i - s>>
  <2>1. L[i] \in Nat \X Nat
    BY <1>1, <1>2
  <2>2. L[i][1] = n /\ L[i][2] = i - s
    BY <1>1, <1>3, <1>4
  <2>. HIDE DEF L, n
  <2>. QED  BY <2>1, <2>2
<1>. HIDE DEF L
<1>. QED  BY <1>6, <1>8, <1>9 DEF L

LEMMA UpMoves ==
  ASSUME Inv, Move("k")
  PROVE  MovesTo(LineCol(content)[cursor][1] - 1)
<1>. DEFINE L == LineCol(content)
            start == LineStart(content, cursor)
            above == LineStart(content, start - 1)
<1>1. length \in 0 .. Cap /\ cursor \in 0 .. length /\ Cap \in Nat
  BY CapAssumption DEF Inv, TypeOK
<1>2. cursor' = IF start = 0 THEN cursor
                ELSE above + Least(cursor - start, start - 1 - above)
  BY DEF Move, editor_move_up
<1>3. /\ start \in 0 .. cursor /\ (start = 0 \/ content[start - 1] = NewLine)
      /\ \A j \in start .. cursor - 1 : content[j] # NewLine
  BY <1>1, LineStartIs
<1>. HIDE DEF start
<1>4. \A i \in start .. cursor : /\ L[i][1] = L[start][1]
                                /\ L[i][2] = L[start][2] + (i - start)
  <2>1. start \in 0 .. Cap /\ cursor \in start .. Cap
    BY <1>1, <1>3
  <2>. QED  BY <1>3, <2>1, LineRuns
<1>5. cursor \in start .. cursor
  BY <1>1, <1>3
<1>6. CASE start = 0
  <2>1. L[0] = <<0, 0>>
    BY ColumnsOf
  <2>2. L[cursor][1] - 1 = -1
    BY <1>4, <1>5, <1>6, <2>1
  <2>. QED  BY <1>2, <1>6, <2>2 DEF MovesTo
<1>7. CASE start # 0
  <2>. DEFINE n == L[above][1]
  <2>1. start \in 1 .. Cap /\ start - 1 \in 0 .. length /\ start - 1 \in Nat
        /\ content[start - 1] = NewLine
    BY <1>1, <1>3, <1>7
  <2>2. /\ above \in 0 .. start - 1 /\ (above = 0 \/ content[above - 1] = NewLine)
        /\ \A j \in above .. (start - 1) - 1 : content[j] # NewLine
    BY <2>1, LineStartIs
  <2>. HIDE DEF above
  <2>3. above \in 0 .. length /\ start - 1 \in above .. length
    BY <1>1, <2>1, <2>2
  <2>4. /\ n \in 0 .. L[length][1] /\ LineLength(n) = (start - 1) - above
        /\ \A i \in above .. start - 1 : L[i] = <<n, i - above>>
    BY <2>1, <2>2, <2>3, ALine
  <2>5. L[start][1] = L[start - 1][1] + 1 /\ L[start][2] = 0
    BY <2>1, ColumnsOf
  <2>6. L[start - 1] = <<n, (start - 1) - above>> /\ L[cursor] \in Nat \X Nat
    <3>1. start - 1 \in above .. start - 1 /\ cursor \in 0 .. Cap
      BY <1>1, <2>1, <2>2
    <3>. QED  BY <2>4, <3>1, ColumnsOf
  <2>. HIDE DEF L, n
  <2>7. n \in Int /\ L[cursor][1] - 1 = n /\ L[cursor][2] = cursor - start
    BY <1>1, <1>3, <1>4, <1>5, <2>4, <2>5, <2>6
  <2>8. /\ cursor' \in above .. start - 1
        /\ cursor' - above = Least(L[cursor][2], LineLength(n))
    BY <1>1, <1>2, <1>3, <1>7, <2>2, <2>4, <2>7 DEF Least
  <2>9. L[cursor'] = <<n, Least(L[cursor][2], LineLength(n))>>
    BY <2>4, <2>8
  <2>. QED  BY <2>4, <2>7, <2>9 DEF MovesTo, L
<1>. QED  BY <1>6, <1>7

LEMMA DownMoves ==
  ASSUME Inv, Move("j")
  PROVE  MovesTo(LineCol(content)[cursor][1] + 1)
<1>. DEFINE L == LineCol(content)
            start == LineStart(content, cursor)
            end == LineEnd(content, length, cursor)
            below == LineEnd(content, length, end + 1)
<1>1. length \in 0 .. Cap /\ cursor \in 0 .. length /\ Cap \in Nat /\ length \in Nat
  BY CapAssumption DEF Inv, TypeOK
<1>2. cursor' = IF end >= length THEN cursor
                ELSE end + 1 + Least(cursor - start, below - (end + 1))
  BY DEF Move, editor_move_down
<1>3. /\ start \in 0 .. cursor /\ (start = 0 \/ content[start - 1] = NewLine)
      /\ \A j \in start .. cursor - 1 : content[j] # NewLine
  BY <1>1, LineStartIs
<1>4. /\ end \in cursor .. length /\ (end = length \/ content[end] = NewLine)
      /\ \A j \in cursor .. end - 1 : content[j] # NewLine
  BY <1>1, LineEndIs
<1>. HIDE DEF start, end
<1>5. /\ start \in 0 .. length /\ end \in start .. length /\ cursor \in start .. end
      /\ end \in start .. end
      /\ \A j \in start .. end - 1 : content[j] # NewLine
  <2>1. start \in 0 .. length /\ end \in start .. length /\ cursor \in start .. end
        /\ end \in start .. end
    BY <1>1, <1>3, <1>4
  <2>2. \A j \in start .. end - 1 : j \in start .. cursor - 1 \/ j \in cursor .. end - 1
    BY <1>1, <1>3, <1>4
  <2>. QED  BY <1>3, <1>4, <2>1, <2>2
<1>. DEFINE l == L[start][1]
<1>6. /\ l \in 0 .. L[length][1]
      /\ \A i \in start .. end : L[i] = <<l, i - start>>
  BY <1>3, <1>4, <1>5, ALine
<1>7. L[cursor] = <<l, cursor - start>> /\ L[end] = <<l, end - start>>
      /\ L[length] \in Nat \X Nat
  <2>1. L[length] \in Nat \X Nat
    BY <1>1, ColumnsOf
  <2>. QED  BY <1>5, <1>6, <2>1
<1>8. CASE end = length
  <2>1. cursor' = cursor
    BY <1>1, <1>2, <1>8
  <2>. HIDE DEF L, l
  <2>2. L[cursor][1] + 1 \notin 0 .. L[length][1]
    BY <1>6, <1>7, <1>8
  <2>. QED  BY <2>1, <2>2 DEF MovesTo, L
<1>9. CASE end # length
  <2>. DEFINE n == L[end + 1][1]
  <2>1. end + 1 \in 1 .. Cap /\ end + 1 \in 0 .. length /\ (end + 1) - 1 = end
        /\ content[end] = NewLine
    BY <1>1, <1>4, <1>9
  <2>2. /\ below \in end + 1 .. length /\ (below = length \/ content[below] = NewLine)
        /\ \A j \in end + 1 .. below - 1 : content[j] # NewLine
    <3>1. length \in Nat /\ end + 1 \in 0 .. length
      BY <1>1, <2>1
    <3>2. PICK from \in 0 .. length : from = end + 1
      BY <3>1
    <3>. QED  BY <3>1, <3>2, LineEndIs
  <2>. HIDE DEF below
  <2>4. /\ n \in 0 .. L[length][1] /\ LineLength(n) = below - (end + 1)
        /\ \A i \in end + 1 .. below : L[i] = <<n, i - (end + 1)>>
    BY <2>1, <2>2, ALine
  <2>5. L[end + 1][1] = L[end][1] + 1
    BY <2>1, ColumnsOf
  <2>. HIDE DEF L
  <2>6. n = L[cursor][1] + 1 /\ L[cursor][2] = cursor - start
    BY <1>7, <2>5
  <2>. HIDE DEF n
  <2>8. /\ cursor' \in end + 1 .. below
        /\ cursor' - (end + 1) = Least(L[cursor][2], LineLength(n))
    BY <1>1, <1>2, <1>3, <1>4, <1>9, <2>2, <2>4, <2>6 DEF Least
  <2>9. L[cursor'] = <<n, Least(L[cursor][2], LineLength(n))>>
    BY <2>4, <2>8
  <2>. QED  BY <2>4, <2>6, <2>9 DEF MovesTo, L
<1>. QED  BY <1>8, <1>9

(***************************************************************************)
(* VerticalMoves of Editor.tla: k and j move the caret by one line of the  *)
(* screen's count, keeping the column or taking the end of a shorter line, *)
(* for every text.                                                         *)
(***************************************************************************)
THEOREM LinesMoved == Spec => VerticalMoves
<1>. DEFINE A == LET l == LineCol(content)[cursor][1]
                 IN  /\ Move("k") => MovesTo(l - 1)
                     /\ Move("j") => MovesTo(l + 1)
<1>1. Inv /\ [Next]_vars => [A]_vars
  BY UpMoves, DownMoves
<1>. QED  BY <1>1, InitInv, NextInv, PTL DEF Spec, VerticalMoves
=============================================================================
