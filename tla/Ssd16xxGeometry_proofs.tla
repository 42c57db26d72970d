----------------------- MODULE Ssd16xxGeometry_proofs -----------------------
(***************************************************************************)
(* Where the bytes of a rectangle go, for every size of the panel and both *)
(* units of the RAM addresses.                                             *)
(***************************************************************************)
EXTENDS Ssd16xxGeometry, TLAPS

(* The rectangles that are drawn in place: in the orientation rot180 only  *)
(* those that lie in the middle.                                           *)
Centred(o, r) == o = "rot180" => 2 * r.x + r.width = Width

LEMMA PanelFacts == PanelH \in Nat /\ PanelH % 8 = 0 /\ PanelH >= 8 /\ Width \in Nat \ {0}
BY SizeAssumption DEF PanelH

LEMMA RectangleFacts ==
    ASSUME NEW r \in Rectangles
    PROVE  r.x \in Nat /\ r.y \in Nat /\ r.width \in Nat \ {0} /\ r.height \in Nat \ {0}
BY DEF Rectangles

(* The two edges of a span are in the page they came from. *)
LEMMA SpanKeepsPages ==
    ASSUME NEW a \in Nat, NEW b \in Nat
    PROVE  LET s == RamXSpan(<<a, b>>)
           IN  PageAt(s[1]) = a /\ PageAt(s[2]) = b
BY RamXAssumption DEF RamXSpan, PageAt

(* The first page of a window, in each orientation. *)
LEMMA FirstPage ==
    ASSUME NEW r \in Rectangles, NEW o \in Orientations, Accepted(o, r)
    PROVE  /\ PageAt(Window(o, r).x[1]) = ByteSpan(o, r).x[1]
           /\ PageAt(Window(o, r).x[2]) = ByteSpan(o, r).x[2]
           /\ ByteSpan(o, r).x[1] \in 0..(PanelH \div 8) - 1
           /\ ByteSpan(o, r).x[2] \in 0..(PanelH \div 8) - 1
<1>1. \E a, b \in 0..(PanelH \div 8) - 1 : ByteSpan(o, r).x = <<a, b>>
  <2> USE PanelFacts, RectangleFacts DEF Accepted, Upright, XResolution, YResolution
  <2>1. CASE o = "normal"
    BY <2>1 DEF ByteSpan
  <2>2. CASE o = "rot90"
    BY <2>2 DEF ByteSpan
  <2>3. CASE o = "rot180"
    BY <2>3 DEF ByteSpan
  <2>4. CASE o = "rot270"
    BY <2>4 DEF ByteSpan
  <2> QED
    BY <2>1, <2>2, <2>3, <2>4 DEF Orientations
<1>2. PICK a, b \in 0..(PanelH \div 8) - 1 : ByteSpan(o, r).x = <<a, b>>
  BY <1>1
<1>3. Window(o, r).x = RamXSpan(<<a, b>>)
  BY <1>2 DEF Window
<1>4. a \in Nat /\ b \in Nat
  BY PanelFacts
<1> QED
  BY <1>2, <1>3, <1>4, SpanKeepsPages

(* Going down eight pixels, or up, is going one page. *)
LEMMA PagesDown ==
    ASSUME NEW n \in Nat, NEW y \in Nat, NEW k \in Nat, NEW bit \in 0..7,
           n % 8 = 0, y % 8 = 0
    PROVE  (n - 1 - (y + 8 * k + bit)) \div 8 = ((n - 1 - y) \div 8) - k
OBVIOUS

LEMMA PagesUp ==
    ASSUME NEW y \in Nat, NEW k \in Nat, NEW bit \in 0..7, y % 8 = 0
    PROVE  (y + 8 * k + bit) \div 8 = (y \div 8) + k
OBVIOUS

(* The byte in row slow and column fast goes to the page and the gate that *)
(* the counters reach.                                                     *)
LEMMA AddressOf ==
    ASSUME NEW r \in Rectangles, NEW o \in Orientations, Accepted(o, r),
           NEW slow \in Nat, NEW fast \in Nat
    PROVE  Address(EntryMode(o), Window(o, r), slow, fast) =
               LET m == EntryMode(o)
                   s == ByteSpan(o, r)
               IN  IF Upright(o) THEN <<s.x[1] + m.x * slow, s.y[1] + m.y * fast>>
                                 ELSE <<s.x[1] + m.x * fast, s.y[1] + m.y * slow>>
<1>1. PageAt(Window(o, r).x[1]) = ByteSpan(o, r).x[1]
  BY FirstPage
<1>2. Window(o, r).y = ByteSpan(o, r).y
  BY DEF Window
<1>3. EntryMode(o).first = IF Upright(o) THEN "y" ELSE "x"
  BY DEF EntryMode, Upright, Orientations
<1> HIDE DEF EntryMode
<1> QED
  BY <1>1, <1>2, <1>3 DEF Address

LEMMA Placement ==
    ASSUME NEW r \in Rectangles, NEW o \in Orientations, Accepted(o, r), Centred(o, r)
    PROVE  InPlace(o, r)
<1> SUFFICES ASSUME NEW slow \in 0..BufferRows(o, r) - 1,
                    NEW fast \in 0..BufferColumns(o, r) - 1,
                    NEW bit \in 0..7
             PROVE  Address(EntryMode(o), Window(o, r), slow, fast) =
                        CellOf(Rotated(o, PixelOf(o, r, slow, fast, bit)[1],
                                          PixelOf(o, r, slow, fast, bit)[2]))
  BY DEF InPlace
<1>1. /\ slow \in Nat
      /\ fast \in Nat
      /\ bit \in 0..7
  BY RectangleFacts DEF BufferRows, BufferColumns
<1>2. /\ r.x \in Nat
      /\ r.y \in Nat
      /\ r.width \in Nat
      /\ PanelH \in Nat
      /\ PanelH % 8 = 0
      /\ Width \in Nat
  BY RectangleFacts, PanelFacts
<1>3. CASE o = "normal"
  <2>1. Address(EntryMode(o), Window(o, r), slow, fast) =
            <<((PanelH - 1 - r.y) \div 8) - slow, r.x + fast>>
    <3>1. EntryMode(o).x = -1 /\ EntryMode(o).y = 1
      BY <1>3 DEF EntryMode
    <3>2. ByteSpan(o, r).x[1] = (PanelH - 1 - r.y) \div 8 /\ ByteSpan(o, r).y[1] = r.x
      BY <1>3 DEF ByteSpan
    <3>3. Upright(o)
      BY <1>3 DEF Upright
    <3>4. (PanelH - 1 - r.y) \div 8 \in Int
      BY <1>2
    <3> QED
      BY <1>1, <1>2, <3>1, <3>2, <3>3, <3>4, AddressOf, SMTT(60)
  <2>2. CellOf(Rotated(o, PixelOf(o, r, slow, fast, bit)[1], PixelOf(o, r, slow, fast, bit)[2])) =
            <<(PanelH - 1 - (r.y + 8 * slow + bit)) \div 8, r.x + fast>>
    BY <1>3 DEF CellOf, Rotated, PixelOf, Upright
  <2>3. r.y % 8 = 0
    BY <1>3 DEF Accepted, Upright
  <2> QED
    <3>1. (PanelH - 1 - (r.y + 8 * slow + bit)) \div 8 = ((PanelH - 1 - r.y) \div 8) - slow
      <4>1. PICK p \in Nat : p = r.y
        BY <1>2
      <4>2. PICK n \in Nat : n = PanelH
        BY <1>2
      <4>3. (n - 1 - (p + 8 * slow + bit)) \div 8 = ((n - 1 - p) \div 8) - slow
        BY <1>1, <1>2, <2>3, <4>1, <4>2, PagesDown
      <4> QED
        BY <4>1, <4>2, <4>3
    <3> QED
      BY <2>1, <2>2, <3>1
<1>4. CASE o = "rot90"
  <2>1. Address(EntryMode(o), Window(o, r), slow, fast) =
            <<((PanelH - 1 - r.x) \div 8) - fast, Width - 1 - r.y - slow>>
    <3>1. EntryMode(o).x = -1 /\ EntryMode(o).y = -1
      BY <1>4 DEF EntryMode
    <3>2. ByteSpan(o, r).x[1] = (PanelH - 1 - r.x) \div 8 /\ ByteSpan(o, r).y[1] = Width - 1 - r.y
      BY <1>4 DEF ByteSpan
    <3>3. ~Upright(o)
      BY <1>4 DEF Upright
    <3>4. (PanelH - 1 - r.x) \div 8 \in Int
      BY <1>2
    <3> QED
      BY <1>1, <1>2, <3>1, <3>2, <3>3, <3>4, AddressOf, SMTT(60)
  <2>2. CellOf(Rotated(o, PixelOf(o, r, slow, fast, bit)[1], PixelOf(o, r, slow, fast, bit)[2])) =
            <<(PanelH - 1 - (r.x + 8 * fast + bit)) \div 8, Width - 1 - (r.y + slow)>>
    BY <1>4 DEF CellOf, Rotated, PixelOf, Upright
  <2>3. r.x % 8 = 0
    BY <1>4 DEF Accepted, Upright
  <2>4. Width - 1 - r.y - slow = Width - 1 - (r.y + slow)
    BY <1>1, <1>2
  <2> QED
    <3>1. (PanelH - 1 - (r.x + 8 * fast + bit)) \div 8 = ((PanelH - 1 - r.x) \div 8) - fast
      <4>1. PICK p \in Nat : p = r.x
        BY <1>2
      <4>2. PICK n \in Nat : n = PanelH
        BY <1>2
      <4>3. (n - 1 - (p + 8 * fast + bit)) \div 8 = ((n - 1 - p) \div 8) - fast
        BY <1>1, <1>2, <2>3, <4>1, <4>2, PagesDown
      <4> QED
        BY <4>1, <4>2, <4>3
    <3> QED
      BY <2>1, <2>2, <2>4, <3>1
<1>5. CASE o = "rot180"
  <2>1. Address(EntryMode(o), Window(o, r), slow, fast) =
            <<(r.y \div 8) + slow, r.x + r.width - 1 - fast>>
    <3>1. EntryMode(o).x = 1 /\ EntryMode(o).y = -1
      BY <1>5 DEF EntryMode
    <3>2. ByteSpan(o, r).x[1] = r.y \div 8 /\ ByteSpan(o, r).y[1] = r.x + r.width - 1
      BY <1>5 DEF ByteSpan
    <3>3. Upright(o)
      BY <1>5 DEF Upright
    <3>4. r.y \div 8 \in Int
      BY <1>2
    <3> QED
      BY <1>1, <1>2, <3>1, <3>2, <3>3, <3>4, AddressOf, SMTT(60)
  <2>2. CellOf(Rotated(o, PixelOf(o, r, slow, fast, bit)[1], PixelOf(o, r, slow, fast, bit)[2])) =
            <<(PanelH - 1 - (PanelH - 1 - (r.y + 8 * slow + bit))) \div 8, Width - 1 - (r.x + fast)>>
    BY <1>5 DEF CellOf, Rotated, PixelOf, Upright
  <2>3. r.y % 8 = 0
    BY <1>5 DEF Accepted, Upright
  <2>4. PanelH - 1 - (PanelH - 1 - (r.y + 8 * slow + bit)) = r.y + 8 * slow + bit
    BY <1>1, <1>2
  <2>5. Width - 1 - (r.x + fast) = r.x + r.width - 1 - fast
    BY <1>1, <1>2, <1>5 DEF Centred
  <2> QED
    <3>1. (r.y + 8 * slow + bit) \div 8 = (r.y \div 8) + slow
      <4>1. PICK p \in Nat : p = r.y
        BY <1>2
      <4>2. (p + 8 * slow + bit) \div 8 = (p \div 8) + slow
        BY <1>1, <2>3, <4>1, PagesUp
      <4> QED
        BY <4>1, <4>2
    <3> QED
      BY <2>1, <2>2, <2>4, <2>5, <3>1
<1>6. CASE o = "rot270"
  <2>1. Address(EntryMode(o), Window(o, r), slow, fast) =
            <<(r.x \div 8) + fast, r.y + slow>>
    <3>1. EntryMode(o).x = 1 /\ EntryMode(o).y = 1
      BY <1>6 DEF EntryMode
    <3>2. ByteSpan(o, r).x[1] = r.x \div 8 /\ ByteSpan(o, r).y[1] = r.y
      BY <1>6 DEF ByteSpan
    <3>3. ~Upright(o)
      BY <1>6 DEF Upright
    <3>4. r.x \div 8 \in Int
      BY <1>2
    <3> QED
      BY <1>1, <1>2, <3>1, <3>2, <3>3, <3>4, AddressOf, SMTT(60)
  <2>2. CellOf(Rotated(o, PixelOf(o, r, slow, fast, bit)[1], PixelOf(o, r, slow, fast, bit)[2])) =
            <<(PanelH - 1 - (PanelH - 1 - (r.x + 8 * fast + bit))) \div 8, r.y + slow>>
    BY <1>6 DEF CellOf, Rotated, PixelOf, Upright
  <2>3. r.x % 8 = 0
    BY <1>6 DEF Accepted, Upright
  <2>4. PanelH - 1 - (PanelH - 1 - (r.x + 8 * fast + bit)) = r.x + 8 * fast + bit
    BY <1>1, <1>2
  <2> QED
    <3>1. (r.x + 8 * fast + bit) \div 8 = (r.x \div 8) + fast
      <4>1. PICK p \in Nat : p = r.x
        BY <1>2
      <4>2. (p + 8 * fast + bit) \div 8 = (p \div 8) + fast
        BY <1>1, <2>3, <4>1, PagesUp
      <4> QED
        BY <4>1, <4>2
    <3> QED
      BY <2>1, <2>2, <2>4, <3>1
<1> QED
  BY <1>3, <1>4, <1>5, <1>6 DEF Orientations

(* The gates of a window. *)
LEMMA GatesInRange ==
    ASSUME NEW r \in Rectangles, NEW o \in Orientations, Accepted(o, r)
    PROVE  \A i \in 1..2 : Window(o, r).y[i] \in 0..Width - 1
<1> USE PanelFacts, RectangleFacts
    DEF Accepted, Upright, XResolution, YResolution, Window, ByteSpan
<1>1. CASE o = "normal"
  BY <1>1
<1>2. CASE o = "rot90"
  BY <1>2
<1>3. CASE o = "rot180"
  BY <1>3
<1>4. CASE o = "rot270"
  BY <1>4
<1> QED
  BY <1>1, <1>2, <1>3, <1>4 DEF Orientations

-----------------------------------------------------------------------------

(* The bytes of a buffer and the pixels of its rectangle. *)
LEMMA PixelsOfBuffer ==
    ASSUME NEW r \in Rectangles, NEW o \in Orientations, Accepted(o, r)
    PROVE  /\ \A slow \in 0..BufferRows(o, r) - 1, fast \in 0..BufferColumns(o, r) - 1 :
                 PixelOf(o, r, slow, fast, 0) \in
                     (r.x..r.x + r.width - 1) \X (r.y..r.y + r.height - 1)
           /\ \A x \in r.x..r.x + r.width - 1, y \in r.y..r.y + r.height - 1 :
                 \E slow \in 0..BufferRows(o, r) - 1, fast \in 0..BufferColumns(o, r) - 1,
                    bit \in 0..7 : PixelOf(o, r, slow, fast, bit) = <<x, y>>
<1> USE RectangleFacts
<1>1. CASE Upright(o)
  <2>1. r.height % 8 = 0
    BY <1>1 DEF Accepted
  <2>2. ASSUME NEW slow \in 0..BufferRows(o, r) - 1, NEW fast \in 0..BufferColumns(o, r) - 1
        PROVE  PixelOf(o, r, slow, fast, 0) \in
                   (r.x..r.x + r.width - 1) \X (r.y..r.y + r.height - 1)
    BY <1>1, <2>1 DEF BufferRows, BufferColumns, PixelOf
  <2>3. ASSUME NEW x \in r.x..r.x + r.width - 1, NEW y \in r.y..r.y + r.height - 1
        PROVE  \E slow \in 0..BufferRows(o, r) - 1, fast \in 0..BufferColumns(o, r) - 1,
                  bit \in 0..7 : PixelOf(o, r, slow, fast, bit) = <<x, y>>
    <3>1. PICK slow \in 0..(r.height \div 8) - 1, bit \in 0..7 : y = r.y + 8 * slow + bit
      <4>1. (y - r.y) \div 8 \in 0..(r.height \div 8) - 1 /\ (y - r.y) % 8 \in 0..7
        BY <2>1
      <4>2. y = r.y + 8 * ((y - r.y) \div 8) + ((y - r.y) % 8)
        OBVIOUS
      <4> QED
        BY <4>1, <4>2
    <3>2. x - r.x \in 0..r.width - 1 /\ r.x + (x - r.x) = x
      OBVIOUS
    <3>3. PixelOf(o, r, slow, x - r.x, bit) = <<x, y>>
      BY <1>1, <3>1, <3>2 DEF PixelOf
    <3> QED
      BY <1>1, <3>1, <3>2, <3>3 DEF BufferRows, BufferColumns
  <2> QED
    BY <2>2, <2>3
<1>2. CASE ~Upright(o)
  <2>1. r.width % 8 = 0
    BY <1>2 DEF Accepted
  <2>2. ASSUME NEW slow \in 0..BufferRows(o, r) - 1, NEW fast \in 0..BufferColumns(o, r) - 1
        PROVE  PixelOf(o, r, slow, fast, 0) \in
                   (r.x..r.x + r.width - 1) \X (r.y..r.y + r.height - 1)
    BY <1>2, <2>1 DEF BufferRows, BufferColumns, PixelOf
  <2>3. ASSUME NEW x \in r.x..r.x + r.width - 1, NEW y \in r.y..r.y + r.height - 1
        PROVE  \E slow \in 0..BufferRows(o, r) - 1, fast \in 0..BufferColumns(o, r) - 1,
                  bit \in 0..7 : PixelOf(o, r, slow, fast, bit) = <<x, y>>
    <3>1. PICK fast \in 0..(r.width \div 8) - 1, bit \in 0..7 : x = r.x + 8 * fast + bit
      <4>1. (x - r.x) \div 8 \in 0..(r.width \div 8) - 1 /\ (x - r.x) % 8 \in 0..7
        BY <2>1
      <4>2. x = r.x + 8 * ((x - r.x) \div 8) + ((x - r.x) % 8)
        OBVIOUS
      <4> QED
        BY <4>1, <4>2
    <3>2. y - r.y \in 0..r.height - 1 /\ r.y + (y - r.y) = y
      OBVIOUS
    <3>3. PixelOf(o, r, y - r.y, fast, bit) = <<x, y>>
      BY <1>2, <3>1, <3>2 DEF PixelOf
    <3> QED
      BY <1>2, <3>1, <3>2, <3>3 DEF BufferRows, BufferColumns
  <2> QED
    BY <2>2, <2>3
<1> QED
  BY <1>1, <1>2

(* The bytes of the RAM that a buffer fills. *)
Filling(o, r) ==
    {Address(EntryMode(o), Window(o, r), slow, fast) :
        slow \in 0..BufferRows(o, r) - 1, fast \in 0..BufferColumns(o, r) - 1}

(* The bytes of the RAM that hold the pixels of a rectangle. *)
Underneath(o, r) ==
    {CellOf(Rotated(o, x, y)) : x \in r.x..r.x + r.width - 1, y \in r.y..r.y + r.height - 1}

(* The bytes that a buffer fills are those under the pixels it shows. *)
LEMMA BytesOfRectangle ==
    ASSUME NEW r \in Rectangles, NEW o \in Orientations, Accepted(o, r), Centred(o, r)
    PROVE  Filling(o, r) = Underneath(o, r)
<1> DEFINE byte(slow, fast) == Address(EntryMode(o), Window(o, r), slow, fast)
           cell(x, y) == CellOf(Rotated(o, x, y))
           pixel(slow, fast, bit) == PixelOf(o, r, slow, fast, bit)
           rows == 0..BufferRows(o, r) - 1
           columns == 0..BufferColumns(o, r) - 1
           across == r.x..r.x + r.width - 1
           down == r.y..r.y + r.height - 1
<1>1. \A slow \in rows, fast \in columns, bit \in 0..7 :
         byte(slow, fast) = cell(pixel(slow, fast, bit)[1], pixel(slow, fast, bit)[2])
  BY Placement DEF InPlace
<1>2. \A slow \in rows, fast \in columns : pixel(slow, fast, 0) \in across \X down
  BY PixelsOfBuffer
<1>3. \A x \in across, y \in down :
         \E slow \in rows, fast \in columns, bit \in 0..7 : pixel(slow, fast, bit) = <<x, y>>
  BY PixelsOfBuffer
<1> HIDE DEF byte, cell, pixel, rows, columns, across, down
<1>4. \A slow \in rows, fast \in columns : \E x \in across, y \in down :
         byte(slow, fast) = cell(x, y)
  <2> TAKE slow \in rows, fast \in columns
  <2>1. pixel(slow, fast, 0)[1] \in across /\ pixel(slow, fast, 0)[2] \in down
    BY <1>2
  <2> QED
    BY <1>1, <2>1
<1>5. \A x \in across, y \in down : \E slow \in rows, fast \in columns :
         byte(slow, fast) = cell(x, y)
  <2> TAKE x \in across, y \in down
  <2>1. PICK slow \in rows, fast \in columns, bit \in 0..7 : pixel(slow, fast, bit) = <<x, y>>
    BY <1>3
  <2> QED
    BY <1>1, <2>1
<1>6. {byte(slow, fast) : slow \in rows, fast \in columns} =
      {cell(x, y) : x \in across, y \in down}
  <2>1. \A b : b \in {byte(slow, fast) : slow \in rows, fast \in columns} <=>
                \E slow \in rows, fast \in columns : b = byte(slow, fast)
    OBVIOUS
  <2>2. \A b : b \in {cell(x, y) : x \in across, y \in down} <=>
                \E x \in across, y \in down : b = cell(x, y)
    OBVIOUS
  <2> DEFINE bytes == {byte(slow, fast) : slow \in rows, fast \in columns}
             cells == {cell(x, y) : x \in across, y \in down}
  <2>3. bytes \subseteq cells
    BY <1>4, <2>1, <2>2
  <2>4. cells \subseteq bytes
    BY <1>5, <2>1, <2>2
  <2> QED
    BY <2>3, <2>4
<1> QED
  BY <1>6 DEF byte, cell, rows, columns, across, down, Filling, Underneath

=============================================================================
