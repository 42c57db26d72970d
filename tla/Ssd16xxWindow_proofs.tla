------------------------ MODULE Ssd16xxWindow_proofs ------------------------
(***************************************************************************)
(* The windows of the display driver for every size of the panel, both     *)
(* units of the RAM addresses and every rectangle.                         *)
(***************************************************************************)
EXTENDS Ssd16xxWindow, Ssd16xxGeometry_proofs

-----------------------------------------------------------------------------

Unit == IF RamXInPixels THEN 8 ELSE 1

(* The length of a span in addresses, going up and going down. *)
LEMMA SpanUp ==
    ASSUME NEW a \in Nat, NEW b \in Nat, a <= b
    PROVE  RamXSpan(<<a, b>>)[2] - RamXSpan(<<a, b>>)[1] + 1 = Unit * (b - a + 1)
BY RamXAssumption DEF RamXSpan, Unit

LEMMA SpanDown ==
    ASSUME NEW a \in Nat, NEW b \in Nat, b <= a, RamXInPixels => a # b
    PROVE  RamXSpan(<<a, b>>)[1] - RamXSpan(<<a, b>>)[2] + 1 = Unit * (a - b + 1)
BY RamXAssumption DEF RamXSpan, Unit

(* The pages between two edges of a rectangle that begins and ends at a    *)
(* byte.                                                                   *)
LEMMA PagesBetween ==
    ASSUME NEW y \in Nat, NEW h \in Nat \ {0}, NEW n \in Nat,
           y % 8 = 0, h % 8 = 0, n % 8 = 0, y + h <= n
    PROVE  /\ (y + h - 1) \div 8 = (y \div 8) + (h \div 8) - 1
           /\ (n - 1 - (y + h - 1)) \div 8 = ((n - 1 - y) \div 8) - (h \div 8) + 1
           /\ h \div 8 \in Nat \ {0}
           /\ y \div 8 \in Nat
           /\ (n - 1 - y) \div 8 \in Nat
           /\ (h \div 8) - 1 <= (n - 1 - y) \div 8
           /\ h > 8 => h \div 8 > 1
OBVIOUS

LEMMA Fitting ==
    ASSUME NEW r \in Rectangles, NEW o \in Orientations, Accepted(o, r), FacesScan(o, r)
    PROVE  HoldsBuffer(o, r)
<1>1. PICK y \in Nat, h \in Nat \ {0}, x \in Nat, w \in Nat \ {0}, n \in Nat :
          y = r.y /\ h = r.height /\ x = r.x /\ w = r.width /\ n = PanelH /\ n % 8 = 0
  BY RectangleFacts, PanelFacts
<1>2. Width \in Nat
  BY PanelFacts
<1>3. /\ Window(o, r).x = RamXSpan(ByteSpan(o, r).x)
      /\ Window(o, r).y = ByteSpan(o, r).y
  BY DEF Window
<1>4. CASE o = "normal"
  <2>1. y % 8 = 0 /\ h % 8 = 0 /\ y + h <= n /\ (RamXInPixels => h > 8)
    BY <1>1, <1>4 DEF Accepted, Upright, YResolution, FacesScan
  <2>2. PICK a \in Nat, p \in Nat \ {0} :
            /\ a = (n - 1 - y) \div 8 /\ p = h \div 8
            /\ p - 1 <= a /\ (RamXInPixels => p > 1)
            /\ (n - 1 - (y + h - 1)) \div 8 = a - p + 1
    <3>1. (n - 1 - y) \div 8 \in Nat /\ h \div 8 \in Nat \ {0}
      BY <1>1, <2>1, PagesBetween
    <3>2. (h \div 8) - 1 <= (n - 1 - y) \div 8
      BY <1>1, <2>1, PagesBetween
    <3>3. (n - 1 - (y + h - 1)) \div 8 = ((n - 1 - y) \div 8) - (h \div 8) + 1
      <4>1. n % 8 = 0 /\ y % 8 = 0 /\ h % 8 = 0 /\ y + h <= n
        BY <1>1, <2>1
      <4> QED
        BY <4>1
    <3>4. RamXInPixels => h \div 8 > 1
      BY <1>1, <2>1, PagesBetween
    <3> QED
      BY <3>1, <3>2, <3>3, <3>4
  <2>3. ByteSpan(o, r) = [x |-> <<a, a - p + 1>>, y |-> <<x, x + w - 1>>]
    BY <1>1, <1>4, <2>2 DEF ByteSpan
  <2>4. RamXSpan(<<a, a - p + 1>>)[1] - RamXSpan(<<a, a - p + 1>>)[2] + 1 = Unit * p
    BY <2>2, SpanDown
  <2>5. EntryMode(o).x = -1 /\ EntryMode(o).y = 1
    BY <1>4 DEF EntryMode
  <2>6. BufferRows(o, r) = p /\ BufferColumns(o, r) = w /\ Upright(o)
    BY <1>1, <1>4, <2>2 DEF BufferRows, BufferColumns, Upright
  <2>7. RamXSpan(<<a, a - p + 1>>)[1] \in Int /\ RamXSpan(<<a, a - p + 1>>)[2] \in Int
    BY <2>2 DEF RamXSpan
  <2> QED
    BY <1>3, <2>3, <2>4, <2>5, <2>6, <2>7 DEF HoldsBuffer, Unit
<1>5. CASE o = "rot90"
  <2>1. x % 8 = 0 /\ w % 8 = 0 /\ x + w <= n /\ y + h <= Width /\ (RamXInPixels => w > 8)
    BY <1>1, <1>5 DEF Accepted, Upright, XResolution, YResolution, FacesScan
  <2>2. PICK a \in Nat, p \in Nat \ {0} :
            /\ a = (n - 1 - x) \div 8 /\ p = w \div 8
            /\ p - 1 <= a /\ (RamXInPixels => p > 1)
            /\ (n - 1 - (x + w - 1)) \div 8 = a - p + 1
    <3>1. (n - 1 - x) \div 8 \in Nat /\ w \div 8 \in Nat \ {0}
      BY <1>1, <2>1, PagesBetween
    <3>2. (w \div 8) - 1 <= (n - 1 - x) \div 8
      BY <1>1, <2>1, PagesBetween
    <3>3. (n - 1 - (x + w - 1)) \div 8 = ((n - 1 - x) \div 8) - (w \div 8) + 1
      <4>1. n % 8 = 0 /\ x % 8 = 0 /\ w % 8 = 0 /\ x + w <= n
        BY <1>1, <2>1
      <4> QED
        BY <4>1
    <3>4. RamXInPixels => w \div 8 > 1
      BY <1>1, <2>1, PagesBetween
    <3> QED
      BY <3>1, <3>2, <3>3, <3>4
  <2>3. ByteSpan(o, r) = [x |-> <<a, a - p + 1>>, y |-> <<Width - 1 - y, Width - 1 - (y + h - 1)>>]
    BY <1>1, <1>5, <2>2 DEF ByteSpan
  <2>4. RamXSpan(<<a, a - p + 1>>)[1] - RamXSpan(<<a, a - p + 1>>)[2] + 1 = Unit * p
    BY <2>2, SpanDown
  <2>5. EntryMode(o).x = -1 /\ EntryMode(o).y = -1
    BY <1>5 DEF EntryMode
  <2>6. BufferRows(o, r) = h /\ BufferColumns(o, r) = p /\ ~Upright(o)
    BY <1>1, <1>5, <2>2 DEF BufferRows, BufferColumns, Upright
  <2>7. RamXSpan(<<a, a - p + 1>>)[1] \in Int /\ RamXSpan(<<a, a - p + 1>>)[2] \in Int
    BY <2>2 DEF RamXSpan
  <2> QED
    BY <1>2, <1>3, <2>3, <2>4, <2>5, <2>6, <2>7 DEF HoldsBuffer, Unit
<1>6. CASE o = "rot180"
  <2>1. y % 8 = 0 /\ h % 8 = 0 /\ y + h <= n
    BY <1>1, <1>6 DEF Accepted, Upright, YResolution
  <2>2. PICK a \in Nat, p \in Nat \ {0} :
            a = y \div 8 /\ p = h \div 8 /\ (y + h - 1) \div 8 = a + p - 1
    <3>1. y \div 8 \in Nat /\ h \div 8 \in Nat \ {0}
      BY <2>1, PagesBetween
    <3>2. (y + h - 1) \div 8 = (y \div 8) + (h \div 8) - 1
      BY <2>1, PagesBetween
    <3> QED
      BY <3>1, <3>2
  <2>3. ByteSpan(o, r) = [x |-> <<a, a + p - 1>>, y |-> <<x + w - 1, x>>]
    BY <1>1, <1>6, <2>2 DEF ByteSpan
  <2>4. RamXSpan(<<a, a + p - 1>>)[2] - RamXSpan(<<a, a + p - 1>>)[1] + 1 = Unit * p
    BY <2>2, SpanUp
  <2>5. EntryMode(o).x = 1 /\ EntryMode(o).y = -1
    BY <1>6 DEF EntryMode
  <2>6. BufferRows(o, r) = p /\ BufferColumns(o, r) = w /\ Upright(o)
    BY <1>1, <1>6, <2>2 DEF BufferRows, BufferColumns, Upright
  <2>7. RamXSpan(<<a, a + p - 1>>)[1] \in Int /\ RamXSpan(<<a, a + p - 1>>)[2] \in Int
    BY <2>2 DEF RamXSpan
  <2> QED
    BY <1>3, <2>3, <2>4, <2>5, <2>6, <2>7 DEF HoldsBuffer, Unit
<1>7. CASE o = "rot270"
  <2>1. x % 8 = 0 /\ w % 8 = 0 /\ x + w <= n
    BY <1>1, <1>7 DEF Accepted, Upright, XResolution
  <2>2. PICK a \in Nat, p \in Nat \ {0} :
            a = x \div 8 /\ p = w \div 8 /\ (x + w - 1) \div 8 = a + p - 1
    <3>1. x \div 8 \in Nat /\ w \div 8 \in Nat \ {0}
      BY <2>1, PagesBetween
    <3>2. (x + w - 1) \div 8 = (x \div 8) + (w \div 8) - 1
      BY <2>1, PagesBetween
    <3> QED
      BY <3>1, <3>2
  <2>3. ByteSpan(o, r) = [x |-> <<a, a + p - 1>>, y |-> <<y, y + h - 1>>]
    BY <1>1, <1>7, <2>2 DEF ByteSpan
  <2>4. RamXSpan(<<a, a + p - 1>>)[2] - RamXSpan(<<a, a + p - 1>>)[1] + 1 = Unit * p
    BY <2>2, SpanUp
  <2>5. EntryMode(o).x = 1 /\ EntryMode(o).y = 1
    BY <1>7 DEF EntryMode
  <2>6. BufferRows(o, r) = h /\ BufferColumns(o, r) = p /\ ~Upright(o)
    BY <1>1, <1>7, <2>2 DEF BufferRows, BufferColumns, Upright
  <2>7. RamXSpan(<<a, a + p - 1>>)[1] \in Int /\ RamXSpan(<<a, a + p - 1>>)[2] \in Int
    BY <2>2 DEF RamXSpan
  <2> QED
    BY <1>3, <2>3, <2>4, <2>5, <2>6, <2>7 DEF HoldsBuffer, Unit
<1> QED
  BY <1>4, <1>5, <1>6, <1>7 DEF Orientations

-----------------------------------------------------------------------------

(* Only what is asked for is served. *)
LEMMA Asked == Spec => [](request \subseteq Requests)
<1>1. Init => request \subseteq Requests
  BY DEF Init
<1>2. request \subseteq Requests /\ [Next]_request => (request \subseteq Requests)'
  BY DEF Next, Ask, Answer
<1> QED
  BY <1>1, <1>2, PTL DEF Spec

(* No window leaves the RAM: the bounds that set_window checks suffice in  *)
(* every orientation and in both units.                                    *)
THEOREM WindowsInRam == Spec => []TypeOK
<1>1. request \subseteq Requests => TypeOK
  <2> SUFFICES ASSUME request \subseteq Requests, NEW q \in Served, NEW i \in 1..2
               PROVE  /\ PageAt(Window(q[1], q[2]).x[i]) \in 0..(PanelH \div 8) - 1
                      /\ Window(q[1], q[2]).y[i] \in 0..Width - 1
    BY DEF TypeOK
  <2>1. q[1] \in Orientations /\ q[2] \in Rectangles /\ Accepted(q[1], q[2])
    BY RequestsAssumption DEF Served
  <2>2. PageAt(Window(q[1], q[2]).x[i]) \in 0..(PanelH \div 8) - 1
    BY <2>1, FirstPage
  <2>3. Window(q[1], q[2]).y[i] \in 0..Width - 1
    BY <2>1, GatesInRange
  <2> QED
    BY <2>2, <2>3
<1> QED
  BY <1>1, Asked, PTL

(* Every byte is drawn in its place, if in the orientation rot180 only     *)
(* rectangles in the middle are asked for: a whole screen, as LVGL does.   *)
THEOREM BytesLandInPlace ==
    ASSUME \A q \in Requests : Centred(q[1], q[2])
    PROVE  Spec => []BytesInPlace
<1>1. request \subseteq Requests => BytesInPlace
  BY Placement, RequestsAssumption DEF BytesInPlace, Served
<1> QED
  BY <1>1, Asked, PTL

(* Every window holds its buffer and is scanned from its start to its end, *)
(* if rectangles of one page are left out where addresses count pixels.    *)
THEOREM WindowsHoldBuffers ==
    ASSUME \A q \in Requests : FacesScan(q[1], q[2])
    PROVE  Spec => []WindowHoldsBuffer
<1>1. request \subseteq Requests => WindowHoldsBuffer
  BY Fitting, RequestsAssumption DEF WindowHoldsBuffer, Served
<1> QED
  BY <1>1, Asked, PTL
=============================================================================
