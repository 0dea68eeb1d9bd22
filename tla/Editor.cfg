\* Every key in every mode, on every text of up to four characters.
SPECIFICATION Spec
CONSTANTS
  Cap = 5
  LineCap = 1
  VisibleLines = 2
  Keys <- MCKeys
  Glyphs <- MCGlyphs
  Glyph <- MCGlyph
  NewLine = NewLine
  NUL = NUL
INVARIANTS Terminated CaretShown ModifiersHeld
PROPERTIES VerticalMoves ImplementsTextBuffer
CHECK_DEADLOCK FALSE
