------------------------ MODULE RefreshPolicy_proofs ------------------------
(***************************************************************************)
(* Theorems about RefreshPolicy, for every interval, budget and set of     *)
(* values, and whichever calls on the display fail.                        *)
(***************************************************************************)
EXTENDS RefreshPolicy, TLAPS

(* The interval that is left of the initialiser fits its eight bits and is *)
(* positive, so the counter reaches it without wrapping around.            *)
LEMMA IntervalFits == FullInterval \in 1..255
BY IntervalAssumption DEF FullInterval

(* The quality that is reported is one of the four that OpenThread knows. *)
LEMMA QualityKnown ==
    ASSUME NEW link \in Links
    PROVE  Connectivity(link) \in Signals
<1>1. Qualities(link) \subseteq 0..3
  BY LinkAssumption DEF Qualities
<1>2. \E q \in 0..3 : /\ q \in Qualities(link) \cup {0}
                      /\ \A other \in Qualities(link) : other <= q
  <2>1. CASE 3 \in Qualities(link)  BY <1>1, <2>1
  <2>2. CASE 3 \notin Qualities(link) /\ 2 \in Qualities(link)  BY <1>1, <2>2
  <2>3. CASE 3 \notin Qualities(link) /\ 2 \notin Qualities(link) /\ 1 \in Qualities(link)
    BY <1>1, <2>3
  <2>4. CASE 3 \notin Qualities(link) /\ 2 \notin Qualities(link) /\ 1 \notin Qualities(link)
    BY <1>1, <2>4
  <2>5. QED  BY <2>1, <2>2, <2>3, <2>4
<1>3. Connectivity(link).lqi \in 0..3  BY <1>2 DEF Connectivity
<1>4. QED  BY <1>3 DEF Connectivity, Connected, Signals

-----------------------------------------------------------------------------
(* Type correctness *)

(* Every setter keeps the type of the content and changes nothing else. *)
LEMMA SetterContent ==
    ASSUME TypeOK, Setter
    PROVE  /\ current' \in Contents /\ SingleValued(current') /\ current'.elapsed # NoElapsed
           /\ UNCHANGED <<settings, last, partialCount, infoLeft, device, introduced>>
<1>1. current \in Contents /\ SingleValued(current) /\ current.elapsed # NoElapsed  BY DEF TypeOK
<1>2. ASSUME NEW t \in Temperatures, NEW h \in Humidities, UpdateMeasurements(t, h)
      PROVE  current' \in Contents /\ SingleValued(current') /\ current'.elapsed # NoElapsed
  <2>1. t \in CentiDegrees /\ AtMostOne(t) /\ h \in CentiPercents /\ AtMostOne(h)  BY ReadingAssumption
  <2>2. QED  BY <1>1, <1>2, <2>1 DEF UpdateMeasurements, Set, Contents, SingleValued
<1>3. ASSUME NEW link \in Links, UpdateSignalStrength(link)
      PROVE  current' \in Contents /\ SingleValued(current') /\ current'.elapsed # NoElapsed
  <2>1. Connectivity(link) \in Signals  BY QualityKnown
  <2>2. QED  BY <1>1, <1>3, <2>1 DEF UpdateSignalStrength, Set, Contents, SingleValued
<1>4. ASSUME NEW active \in BOOLEAN, NEW elapsed \in Nat,
             SetDecontaminationStatus(active, elapsed)
      PROVE  current' \in Contents /\ SingleValued(current') /\ current'.elapsed # NoElapsed
  <2>1. elapsed \in ElapsedTimes /\ elapsed # NoElapsed  BY DEF ElapsedTimes, NoElapsed
  <2>2. QED  BY <1>1, <1>4, <2>1 DEF SetDecontaminationStatus, Set, Contents, SingleValued
<1>5. ASSUME NEW name \in Names, SetPrimarySensorName(name)
      PROVE  current' \in Contents /\ SingleValued(current') /\ current'.elapsed # NoElapsed
  <2>1. name \in NamesOrNone  BY DEF NamesOrNone
  <2>2. QED  BY <1>1, <1>5, <2>1 DEF SetPrimarySensorName, Set, Contents, SingleValued
<1>6. ASSUME NEW h \in Humidities, SetSecondaryHumidity(h)
      PROVE  current' \in Contents /\ SingleValued(current') /\ current'.elapsed # NoElapsed
  <2>1. h \in CentiPercents /\ AtMostOne(h)  BY ReadingAssumption
  <2>2. QED  BY <1>1, <1>6, <2>1 DEF SetSecondaryHumidity, Set, Contents, SingleValued
<1>7. ASSUME NEW o \in Offsets, SetHumidityCalibrationOffset(o)
      PROVE  current' \in Contents /\ SingleValued(current') /\ current'.elapsed # NoElapsed
  <2>1. o \in CentiOffsets /\ AtMostOne(o)  BY ReadingAssumption
  <2>2. QED  BY <1>1, <1>7, <2>1 DEF SetHumidityCalibrationOffset, Set, Contents, SingleValued
<1>8. UNCHANGED <<settings, last, partialCount, infoLeft, device, introduced>>
  BY DEF Setter, EndSession, UpdateMeasurements, UpdateSignalStrength, Set,
         SetDecontaminationStatus, SetPrimarySensorName, SetSecondaryHumidity,
         SetHumidityCalibrationOffset
<1>9. Seconds \subseteq Nat  BY ReadingAssumption
<1>10. QED  BY <1>2, <1>3, <1>4, <1>5, <1>6, <1>7, <1>8, <1>9 DEF Setter, EndSession

LEMMA InitialTypes == Init => TypeOK
<1> SUFFICES ASSUME Init PROVE TypeOK  OBVIOUS
<1>1. /\ {} \in CentiDegrees /\ {} \in CentiPercents /\ {} \in CentiOffsets
      /\ {} \in NamesOrNone
  BY DEF CentiDegrees, CentiPercents, CentiOffsets, NamesOrNone
<1>8. AtMostOne({})  BY DEF AtMostOne
<1>2. NoSignal \in Signals /\ [connected |-> FALSE, lqi |-> 255] \in Signals
  BY DEF NoSignal, Signals
<1>3. 0 \in ElapsedTimes /\ NoElapsed \in ElapsedTimes /\ 0 # NoElapsed
  BY DEF ElapsedTimes, NoElapsed
<1>4. InitialContent \in Contents /\ SingleValued(InitialContent) /\ InitialContent.elapsed # NoElapsed
  BY <1>1, <1>2, <1>3, <1>8 DEF InitialContent, Contents, SingleValued
<1>5. NeverShown.content \in Contents /\ SingleValued(NeverShown.content)
  BY <1>2, <1>3, <1>4 DEF NeverShown, Contents, SingleValued
<1>6. NeverShown \in [content : Contents, nameVisible : BOOLEAN, offsetVisible : BOOLEAN]
  BY <1>5 DEF NeverShown
<1>7. draws \in Nat /\ partialCount \in 0..FullInterval - 1
  BY IntervalFits DEF Init
<1>9. trusted \in BOOLEAN /\ stale \in BOOLEAN /\ displayState = "uninitialised"
  BY DEF Init
<1>10. infoLeft \in 0..InfoCount /\ introduced \in 0..InfoCount
  BY InfoCountAssumption DEF Init
<1>11. current = InitialContent /\ last = NeverShown /\ secondaryPresent \in BOOLEAN
  BY DEF Init
<1>12. QED  BY <1>4, <1>5, <1>6, <1>7, <1>9, <1>10, <1>11 DEF TypeOK

LEMMA TypesKept == TypeOK /\ [Next]_vars => TypeOK'
<1> SUFFICES ASSUME TypeOK, [Next]_vars PROVE TypeOK'  OBVIOUS
<1>1. CASE Setter
  BY <1>1, SetterContent DEF TypeOK, settings, device, trust
<1>2. CASE InitOnWorker
  BY <1>2 DEF InitOnWorker, TypeOK, trust
<1>3. CASE RefreshDisplay
  <2>1. infoLeft' \in 0..InfoCount /\ introduced' \in 0..InfoCount
    BY <1>3, InfoCountAssumption DEF RefreshDisplay, SpendInfo, TypeOK
  <2>2. UNCHANGED <<settings, current>>  BY <1>3 DEF RefreshDisplay
  <2>3. CASE NoChange
    BY <1>3, <2>1, <2>2, <2>3 DEF RefreshDisplay, TypeOK, settings, device, trust
  <2>4. CASE ~NoChange
    <3>1. partialCount' \in 0..FullInterval - 1
      BY <1>3, <2>4, IntervalFits DEF RefreshDisplay, FullUpdate, Counted, TypeOK
    <3>2. Transfer  BY <1>3, <2>4 DEF RefreshDisplay
    <3>3. trusted' \in BOOLEAN /\ stale' \in BOOLEAN
      <4>1. trusted \in BOOLEAN /\ stale \in BOOLEAN  BY DEF TypeOK
      <4>2. FullUpdate \in BOOLEAN  BY DEF FullUpdate
      <4>3. QED  BY <3>2, <4>1, <4>2, Zenon DEF Transfer, Succeeded, Failed
    <3>8. draws' \in Nat  BY <3>2 DEF Transfer, TypeOK
    <3>4. last' = [content |-> current, nameVisible |-> NameVisible,
                   offsetVisible |-> OffsetVisible]
      BY <1>3, <2>4 DEF RefreshDisplay
    <3>5. NameVisible \in BOOLEAN /\ OffsetVisible \in BOOLEAN
      BY DEF NameVisible, OffsetVisible
    <3>6. last' \in [content : Contents, nameVisible : BOOLEAN, offsetVisible : BOOLEAN]
          /\ SingleValued(last'.content)
      BY <3>4, <3>5 DEF TypeOK
    <3>7. QED  BY <2>1, <2>2, <3>1, <3>3, <3>6, <3>8 DEF TypeOK, settings
  <2>5. QED  BY <2>3, <2>4
<1>4. CASE UNCHANGED vars
  BY <1>4 DEF vars, settings, device, trust, TypeOK
<1>5. QED  BY <1>1, <1>2, <1>3, <1>4 DEF Next

(* Every variable keeps its type; the eight-bit counter of partial updates *)
(* stays below the interval for every initialiser of kFullUpdateInterval   *)
(* that is no multiple of 256.                                             *)
THEOREM RefreshTypes == Spec => []TypeOK
<1>1. QED  BY InitialTypes, TypesKept, PTL DEF Spec
-----------------------------------------------------------------------------
(* The panel *)

(* The pictures since the last full update that repaired are at most those *)
(* the counter has counted, and one full update that did not repair.  That *)
(* one is the first picture after the failure of a partial update.         *)
CountedInv ==
    /\ draws <= partialCount + 1
    /\ trusted => draws <= partialCount /\ ~stale
    /\ stale => /\ FullInterval > 1
                /\ draws = 0 \/ (draws = 1 /\ partialCount = 0)

(* The panel holds the picture of what was recorded last, and nothing yet  *)
(* exactly as long as the record holds the elapsed time that nobody sets.  *)
PanelInv ==
    \/ panel = {} /\ last.content.elapsed = NoElapsed
    \/ panel = {Picture(last.content, last.nameVisible, last.offsetVisible)}

(* In single-sensor mode budget and introduction go hand in hand. *)
BudgetInv == ~secondaryPresent => infoLeft + introduced = InfoCount

PanelInvariant == TypeOK /\ CountedInv /\ PanelInv /\ BudgetInv

(* Drawing the widgets and hiding the status bar gives the picture of the  *)
(* current content, whatever texts the widgets held before.                *)
LEMMA DrawingGivesPicture ==
    ASSUME current.active \in BOOLEAN
    PROVE  Rendered(DrawnWidgets) = Picture(current, NameVisible, OffsetVisible)
<1>1. CASE current.active
  BY <1>1 DEF Rendered, DrawnWidgets, Picture, Visible, Shown, Hidden
<1>2. CASE ~current.active
  BY <1>2 DEF Rendered, DrawnWidgets, Picture, Visible, Shown, Hidden
<1>3. QED  BY <1>1, <1>2

LEMMA InitialPanel == Init => PanelInvariant
<1> SUFFICES ASSUME Init PROVE PanelInvariant  OBVIOUS
<1>1. TypeOK  BY InitialTypes
<1>2. CountedInv  BY DEF Init, CountedInv
<1>3. PanelInv
  <2>1. InitialContent \in Contents  BY <1>1 DEF Init, TypeOK
  <2>2. NeverShown.content.elapsed = NoElapsed  BY <2>1 DEF NeverShown, Contents
  <2>3. QED  BY <2>2 DEF Init, PanelInv
<1>4. BudgetInv  BY InfoCountAssumption DEF Init, BudgetInv
<1>5. QED  BY <1>1, <1>2, <1>3, <1>4 DEF PanelInvariant

LEMMA PanelKept == PanelInvariant /\ [Next]_vars => PanelInvariant'
<1> SUFFICES ASSUME PanelInvariant, [Next]_vars PROVE PanelInvariant'  OBVIOUS
<1>1. TypeOK /\ CountedInv /\ PanelInv /\ BudgetInv  BY DEF PanelInvariant
<1>2. TypeOK'  BY <1>1, TypesKept
<1>3. CASE Setter
  <2>1. UNCHANGED <<settings, last, partialCount, infoLeft, device, introduced>>
    BY <1>1, <1>3, SetterContent
  <2>2. QED
    BY <1>1, <1>2, <2>1 DEF PanelInvariant, CountedInv, PanelInv, BudgetInv,
                            settings, device, trust
<1>4. CASE InitOnWorker
  BY <1>1, <1>2, <1>4 DEF InitOnWorker, PanelInvariant, CountedInv, PanelInv, BudgetInv,
                            trust
<1>5. CASE RefreshDisplay
  <2>1. CountedInv'
    <3>1. CASE NoChange
      BY <1>1, <1>5, <3>1 DEF RefreshDisplay, device, trust, CountedInv
    <3>2. CASE ~NoChange
      <4>1. Transfer /\ partialCount' = IF FullUpdate THEN 0 ELSE Counted
        BY <1>5, <3>2 DEF RefreshDisplay
      <4>2. partialCount \in 0..254 /\ Counted = partialCount + 1
        BY <1>1, IntervalFits DEF TypeOK, Counted
      <4>3. draws \in Nat /\ trusted \in BOOLEAN /\ stale \in BOOLEAN
        BY <1>1 DEF TypeOK
      <4>4. FullInterval \in 1..255 /\ (FullUpdate <=> partialCount + 1 >= FullInterval)
        BY <4>2, IntervalFits DEF FullUpdate
      <4>5. \/ Succeeded(FullUpdate) /\ draws' = IF FullUpdate /\ ~stale THEN 0 ELSE draws + 1
            \/ Failed(FullUpdate) /\ draws' = 0
        BY <4>1 DEF Transfer
      <4>6. CASE FullUpdate
        BY <1>1, <4>1, <4>2, <4>3, <4>4, <4>5, <4>6 DEF Succeeded, Failed, CountedInv
      <4>7. CASE ~FullUpdate
        BY <1>1, <4>1, <4>2, <4>3, <4>4, <4>5, <4>7 DEF Succeeded, Failed, CountedInv
      <4>8. QED  BY <4>6, <4>7
    <3>3. QED  BY <3>1, <3>2
  <2>2. PanelInv'
    <3>1. CASE NoChange
      BY <1>1, <1>5, <3>1 DEF RefreshDisplay, device, PanelInv
    <3>2. CASE ~NoChange
      <4>1. last' = [content |-> current, nameVisible |-> NameVisible,
                     offsetVisible |-> OffsetVisible]
        BY <1>5, <3>2 DEF RefreshDisplay
      <4>2. panel' = {Rendered(DrawnWidgets)}
        <5>1. widgets' = DrawnWidgets /\ panel' = {Rendered(widgets')}
          BY <1>5, <3>2 DEF RefreshDisplay, Transfer
        <5>2. QED  BY <5>1, <1>5 DEF RefreshDisplay
      <4>3. current.active \in BOOLEAN  BY <1>1 DEF TypeOK, Contents
      <4>4. panel' = {Picture(current, NameVisible, OffsetVisible)}
        BY <4>2, <4>3, DrawingGivesPicture
      <4>5. QED  BY <4>1, <4>4 DEF PanelInv
    <3>3. QED  BY <3>1, <3>2
  <2>3. BudgetInv'
    <3>1. infoLeft \in 0..InfoCount /\ introduced \in 0..InfoCount /\ InfoCount \in Nat
      BY <1>1, InfoCountAssumption DEF TypeOK
    <3>2. QED
      BY <1>1, <1>5, <3>1 DEF RefreshDisplay, SpendInfo, BudgetInv, settings
  <2>4. QED  BY <1>2, <2>1, <2>2, <2>3 DEF PanelInvariant
<1>6. CASE UNCHANGED vars
  BY <1>1, <1>2, <1>6 DEF vars, settings, device, trust, PanelInvariant, CountedInv, PanelInv,
                          BudgetInv
<1>7. QED  BY <1>3, <1>4, <1>5, <1>6 DEF Next

LEMMA PanelAlways == Spec => []PanelInvariant
<1>1. QED  BY InitialPanel, PanelKept, PTL DEF Spec

(* Without a failed call the panel gets a full update before the interval  *)
(* is over, and after one it is repaired in at most that time, for every   *)
(* interval.                                                               *)
THEOREM FullUpdatesInTime == Spec => []FullUpdateInTime
<1>1. PanelInvariant => FullUpdateInTime
  BY IntervalFits DEF PanelInvariant, TypeOK, CountedInv, FullUpdateInTime
<1>2. QED  BY <1>1, PanelAlways, PTL

(* Unless a call has failed, the panel shows the record, and the content   *)
(* wherever noChange lets a refresh do nothing.                            *)
THEOREM PanelShowsContent == Spec => []RefreshShowsCurrent
<1>1. PanelInvariant => RefreshShowsCurrent
  <2> SUFFICES ASSUME PanelInvariant PROVE RefreshShowsCurrent  OBVIOUS
  <2>1. TypeOK /\ PanelInv  BY DEF PanelInvariant
  <2>2. panel # {} => panel = {Picture(last.content, last.nameVisible, last.offsetVisible)}
    BY <2>1 DEF PanelInv
  <2>3. ASSUME NoChange
        PROVE  panel = {Picture(current, NameVisible, OffsetVisible)}
    <3>1. /\ current = last.content /\ NameVisible = last.nameVisible
          /\ OffsetVisible = last.offsetVisible
      BY <2>3 DEF NoChange
    <3>2. panel = {Picture(last.content, last.nameVisible, last.offsetVisible)}
      BY <2>1, <3>1 DEF TypeOK, PanelInv
    <3>3. QED  BY <3>1, <3>2
  <2>4. QED  BY <2>2, <2>3 DEF RefreshShowsCurrent
<1>2. QED  BY <1>1, PanelAlways, PTL

-----------------------------------------------------------------------------
(* What can be read on it *)

(* Each rounding stays within half a step. *)
LEMMA TemperatureNearest ==
    ASSUME NEW t \in Int, NEW sign, NEW tenths,
           sign = TemperatureTenths(t).sign, tenths = TemperatureTenths(t).tenths
    PROVE  Magnitude(10 * sign * tenths - t) <= 5
<1>1. CASE t < 0
  <2>1. sign = -1 /\ tenths = (5 - t) \div 10
    BY <1>1 DEF TemperatureTenths, Magnitude
  <2>2. 10 * tenths + t \in -5..5 /\ tenths \in Int  BY <1>1, <2>1
  <2>3. 10 * sign * tenths = -(10 * tenths)  BY <2>1, <2>2
  <2>4. QED  BY <2>2, <2>3 DEF Magnitude
<1>2. CASE t >= 0
  <2>1. sign = 1 /\ tenths = (t + 5) \div 10
    BY <1>2 DEF TemperatureTenths, Magnitude
  <2>2. 10 * tenths - t \in -5..5 /\ tenths \in Int  BY <1>2, <2>1
  <2>3. 10 * sign * tenths = 10 * tenths  BY <2>1, <2>2
  <2>4. QED  BY <2>2, <2>3 DEF Magnitude
<1>3. QED  BY <1>1, <1>2

LEMMA HumidityNearest ==
    ASSUME NEW h \in UInt16
    PROVE  Magnitude(10 * HumidityTenths(h) - h) <= 10
BY DEF HumidityTenths, Magnitude, UInt16, MaxUInt16

LEMMA SignedNearest ==
    ASSUME NEW v \in Int
    PROVE  Magnitude(10 * SignedTenths(v) - v) <= 5
<1>1. CASE v >= 0
  BY <1>1 DEF SignedTenths, TruncDiv, Magnitude
<1>2. CASE v < 0
  BY <1>2 DEF SignedTenths, TruncDiv, Magnitude
<1>3. QED  BY <1>1, <1>2

LEMMA HundredthsAreIntegers ==
    /\ Negatable \subseteq Int
    /\ UInt16 \subseteq Int
    /\ Int16 \subseteq Int
BY DEF Negatable, UInt16, MaxUInt16, Int16, MinInt16, MaxInt16

(* Every number on the panel is within half a step of its value, whatever  *)
(* the readings.                                                           *)
THEOREM PanelReadsNearest == Spec => []ReadsNearest
<1>1. PanelInvariant => ReadsNearest
  <2> SUFFICES ASSUME PanelInvariant, NEW p \in panel
               PROVE  /\ \A t \in last.content.temperature, s \in p.temperature :
                            Magnitude(10 * s.sign * s.tenths - t) <= 5
                      /\ \A h \in last.content.humidity, s \in p.humidity :
                            Magnitude(10 * s - h) <= 10
                      /\ \A h \in last.content.humidity, r \in last.content.secondary,
                            s \in p.delta : Magnitude(10 * s - (h - r)) <= 5
                      /\ \A o \in last.content.offset, s \in p.offset :
                            Magnitude(10 * s - o) <= 5
    BY DEF ReadsNearest
  <2> DEFINE c == last.content
  <2>1. p = Picture(c, last.nameVisible, last.offsetVisible)
    BY DEF PanelInvariant, PanelInv
  <2>2. /\ c.temperature \in CentiDegrees /\ c.humidity \in CentiPercents
        /\ c.secondary \in CentiPercents /\ c.offset \in CentiOffsets
    BY DEF PanelInvariant, TypeOK, Contents
  <2> HIDE DEF c
  <2>8. SingleValued(c)  BY DEF PanelInvariant, TypeOK, c
  <2>3. ASSUME NEW t \in c.temperature, NEW s \in p.temperature
        PROVE  Magnitude(10 * s.sign * s.tenths - t) <= 5
    <3>1. PICK v \in c.temperature : s = TemperatureTenths(v)
      BY <2>1, <2>3 DEF Picture
    <3>2. v = t  BY <2>3, <2>8, <3>1 DEF SingleValued, AtMostOne
    <3>3. t \in Negatable  BY <2>2, <2>3, Zenon DEF CentiDegrees
    <3>5. t \in Int  BY <3>3, HundredthsAreIntegers, Zenon
    <3>4. QED  BY <3>1, <3>2, <3>5, TemperatureNearest
  <2>4. ASSUME NEW h \in c.humidity, NEW s \in p.humidity
        PROVE  Magnitude(10 * s - h) <= 10
    <3>1. PICK v \in c.humidity : s = HumidityTenths(v)
      BY <2>1, <2>4 DEF Picture
    <3>2. v = h  BY <2>4, <2>8, <3>1 DEF SingleValued, AtMostOne
    <3>3. h \in UInt16  BY <2>2, <2>4, Zenon DEF CentiPercents
    <3>4. QED  BY <3>1, <3>2, <3>3, HumidityNearest
  <2>5. ASSUME NEW h \in c.humidity, NEW r \in c.secondary, NEW s \in p.delta
        PROVE  Magnitude(10 * s - (h - r)) <= 5
    <3>1. PICK v \in c.humidity, w \in c.secondary : s = SignedTenths(v - w)
      BY <2>1, <2>5 DEF Picture, Delta
    <3>2. v = h /\ w = r  BY <2>5, <2>8, <3>1 DEF SingleValued, AtMostOne
    <3>3. h \in UInt16 /\ r \in UInt16  BY <2>2, <2>5, Zenon DEF CentiPercents
    <3>5. h \in Int /\ r \in Int  BY <3>3, HundredthsAreIntegers, Zenon
    <3>6. h - r \in Int  BY <3>5
    <3>4. QED  BY <3>1, <3>2, <3>6, SignedNearest
  <2>6. ASSUME NEW o \in c.offset, NEW s \in p.offset
        PROVE  Magnitude(10 * s - o) <= 5
    <3>1. PICK v \in c.offset : s = SignedTenths(v)
      BY <2>1, <2>6 DEF Picture
    <3>2. v = o  BY <2>6, <2>8, <3>1 DEF SingleValued, AtMostOne
    <3>3. o \in Int16  BY <2>2, <2>6, Zenon DEF CentiOffsets
    <3>5. o \in Int  BY <3>3, HundredthsAreIntegers, Zenon
    <3>4. QED  BY <3>1, <3>2, <3>5, SignedNearest
  <2>7. QED  BY <2>3, <2>4, <2>5, <2>6 DEF c
<1>2. QED  BY <1>1, PanelAlways, PTL
-----------------------------------------------------------------------------
(* How long the information stays *)

(* Outside sessions a refresh shows name and offset with two sensors or    *)
(* for the first InfoCount times, for every budget.                        *)
THEOREM InformationWindow == Spec => InfoWindow
<1> DEFINE due == secondaryPresent \/ introduced < InfoCount
           Step == RefreshDisplay /\ trusted' /\ ~current.active
                   => \A p \in panel' : /\ p.name = IF due THEN current.name ELSE {}
                                        /\ p.offset # {} <=> due /\ current.offset # {}
<1>1. PanelInvariant /\ [Next]_vars => Step
  <2> SUFFICES ASSUME PanelInvariant, RefreshDisplay, ~current.active, NEW p \in panel'
               PROVE  /\ p.name = IF due THEN current.name ELSE {}
                      /\ p.offset # {} <=> due /\ current.offset # {}
    OBVIOUS
  <2>1. TypeOK /\ PanelInv /\ BudgetInv  BY DEF PanelInvariant
  <2>2. p = Picture(current, NameVisible, OffsetVisible)
    <3>1. CASE NoChange
      <4>1. panel' = panel  BY <3>1 DEF RefreshDisplay, device
      <4>2. /\ current = last.content /\ NameVisible = last.nameVisible
            /\ OffsetVisible = last.offsetVisible
        BY <3>1 DEF NoChange
      <4>3. QED  BY <2>1, <4>1, <4>2 DEF PanelInv
    <3>2. CASE ~NoChange
      <4>1. widgets' = DrawnWidgets /\ panel' = {Rendered(widgets')}
        BY <3>2 DEF RefreshDisplay, Transfer
      <4>2. panel' = {Rendered(DrawnWidgets)}  BY <4>1 DEF RefreshDisplay
      <4>3. current.active \in BOOLEAN  BY <2>1 DEF TypeOK, Contents
      <4>4. QED  BY <4>2, <4>3, DrawingGivesPicture
    <3>3. QED  BY <3>1, <3>2
  <2>3. InfoVisible <=> due
    BY <2>1, InfoCountAssumption DEF InfoVisible, BudgetInv, TypeOK
  <2> HIDE DEF due
  <2>4. p.name = IF NameVisible THEN current.name ELSE {}
    BY <2>2 DEF Picture
  <2>5. p.offset = IF OffsetVisible THEN {SignedTenths(o) : o \in current.offset} ELSE {}
    BY <2>2 DEF Picture
  <2>6. QED  BY <2>3, <2>4, <2>5 DEF NameVisible, OffsetVisible
<1>2. QED  BY <1>1, PanelAlways, PTL DEF Spec, InfoWindow
=============================================================================
