--------------------------- MODULE Ssd16xx_proofs ---------------------------
(***************************************************************************)
(* The display driver for every panel, configuration, set of failures and  *)
(* set of restarts, and what its caller RefreshDisplay makes of it.        *)
(***************************************************************************)
EXTENDS DisplayPath, Ssd16xxGeometry_proofs

AllSteps == Initialising \cup {"off", "down", "idle", "profile", "window", "ram",
                               "refresh", "write_again", "write_red"}

(* The planes hold images, and there is one call at a time. *)
Types ==
    /\ black \in [Cells -> Contents]
    /\ red \in [Cells -> Contents]
    /\ panel \in [Cells -> Contents]
    /\ call \subseteq [rect : Rects, image : Images]
    /\ \A a, b \in call : a = b
    /\ blankingOn \in BOOLEAN
    /\ healthy \in BOOLEAN
    /\ err \in BOOLEAN

(* What the step of the driver says about its own notes. *)
Shape ==
    /\ pc \in AllSteps
    /\ pc \in Initialising \cup {"profile", "refresh", "write_again"} => ~blankingOn
    /\ pc \in {"profile", "write_again", "write_red"} => HavePartial
    /\ pc = "write_red" => blankingOn
    /\ pc = "refresh" => call # {}
    /\ pc \in {"window", "ram", "refresh"} /\ PartialRefresh => profile = "partial"
    /\ profile = "partial" => PartialRefresh
    /\ pc = "init_profile" => profile = "invalid"
    /\ pc \in {"clear_black", "clear_red", "orient", "show"} => profile = "full" /\ programmed = "full"

(* The registers are as the driver has noted. *)
Known == programmed = profile /\ entry = orientation /\ scanMode = orientation

Clean(plane) == \A c \in Cells : plane[c] # "noise"

(* The plane upper is the plane lower with the buffer written over it. *)
Over(upper, lower) ==
    \A args \in call, c \in Cells :
        upper[c] = IF c \in Written(args.rect) THEN args.image ELSE lower[c]

(* The planes and the panel before a buffer is sent ... *)
Settled ==
    pc \in {"idle", "profile", "window", "ram"} =>
        /\ Known
        /\ ~blankingOn => panel = black
        /\ HavePartial => red = black
        /\ Clean(black)

(* ... and between two transfers of a write. *)
Writing ==
    /\ pc = "refresh" => Known /\ Over(black, panel) /\ (HavePartial => red = panel) /\ Clean(panel)
    /\ pc = "write_again" => Known /\ Over(panel, black) /\ red = panel /\ Clean(panel)
    /\ pc = "write_red" => Known /\ Over(black, red) /\ Clean(black)

(* The initialisation on its way. *)
Clearing ==
    /\ pc \in {"clear_red", "orient", "show"} => black = Filled("blank")
    /\ pc \in {"orient", "show"} /\ HavePartial => red = Filled("blank")
    /\ pc = "show" => Known

Steady == healthy => Settled /\ Writing /\ Clearing

IInv == Types /\ Shape /\ Steady

-----------------------------------------------------------------------------

LEMMA ContentsFacts ==
    /\ "noise" \notin Images
    /\ Images \subseteq Contents
    /\ "blank" \in Contents
    /\ "noise" \in Contents
    /\ HavePartial \in BOOLEAN
BY ConfigAssumption DEF Contents

LEMMA FilledType ==
    ASSUME NEW content \in Contents
    PROVE  Filled(content) \in [Cells -> Contents]
BY DEF Filled

LEMMA BufferType ==
    ASSUME NEW plane \in [Cells -> Contents], NEW r, NEW content \in Contents
    PROVE  WithBuffer(plane, r, content) \in [Cells -> Contents]
BY FilledType, ContentsFacts DEF WithBuffer

(* A buffer that is scanned the right way goes over what was there. *)
LEMMA BufferOver ==
    ASSUME NEW plane, NEW args, entry = orientation
    PROVE  \A c \in Cells : WithBuffer(plane, args.rect, args.image)[c] =
               IF c \in Written(args.rect) THEN args.image ELSE plane[c]
BY DEF WithBuffer

LEMMA WrittenKept ==
    ASSUME UNCHANGED <<entry, window, orientation>>
    PROVE  \A r : Written(r)' = Written(r)
BY DEF Written

LEMMA RefreshType ==
    ASSUME Types, Refresh
    PROVE  /\ black' \in [Cells -> Contents]
           /\ red' \in [Cells -> Contents]
           /\ panel' \in [Cells -> Contents]
<1>1. panel' \in [Cells -> Contents]
  <2>1. [c \in Cells |-> Driven(c)] \in [Cells -> Contents]
    BY ContentsFacts DEF Driven, Types
  <2>2. Filled("noise") \in [Cells -> Contents]
    BY FilledType, ContentsFacts
  <2> QED
    BY <2>1, <2>2 DEF Refresh, Types
<1> QED
  BY <1>1 DEF Refresh, Types, planes

LEMMA InitTypesShape == Init => Types /\ Shape
BY FilledType, ContentsFacts DEF Init, Types, Shape, Initialising, AllSteps, PartialRefresh

LEMMA TypesStep == Types /\ [Next]_vars => Types'
<1> SUFFICES ASSUME Types, [Next]_vars PROVE Types'
  OBVIOUS
<1> USE FilledType, BufferType, ContentsFacts
<1>1. CASE Restart
  BY <1>1 DEF Restart, Types
<1>2. CASE Reset
  BY <1>2 DEF Reset, Goto, Fail, Types, planes, registers
<1>3. CASE InitProfile
  BY <1>3 DEF InitProfile, SetProfile, SetProfileFails, Fail, Goto, Types, planes, registers, driverVars
<1>4. CASE ClearBlack
  BY <1>4 DEF ClearBlack, ClearWindow, Fail, Goto, Types, driverVars
<1>5. CASE ClearRed
  BY <1>5 DEF ClearRed, ClearWindow, Fail, Goto, Types, driverVars
<1>6. CASE Orient
  BY <1>6 DEF Orient, SetOrientation, Fail, Goto, Types, planes
<1>7. CASE Show
  <2>1. CASE Refresh /\ Goto("idle")
    BY <1>7, <2>1, RefreshType DEF Show, Refresh, Goto, Types, driverVars
  <2>2. CASE RefreshFails
    BY <1>7, <2>2 DEF Show, RefreshFails, Fail, Types, driverVars, planes
  <2> QED
    BY <1>7, <2>1, <2>2 DEF Show
<1>8. CASE WriteProfile
  BY <1>8 DEF WriteProfile, SetProfile, SetProfileFails, Fail, Goto, Types, planes, registers, driverVars
<1>9. CASE WriteWindow
  BY <1>9 DEF WriteWindow, SetWindow, Reject, SetWindowFails, Fail, Goto, Types, planes, driverVars
<1>10. ASSUME NEW next, WriteBlack(next) PROVE Types'
  <2>1. PICK args \in call :
            \/ /\ black' = WithBuffer(black, args.rect, args.image)
               /\ Goto(next)
               /\ UNCHANGED healthy
            \/ /\ black' = WithBuffer(black, args.rect, "noise")
               /\ Fail("data")
               /\ healthy' = FALSE
    BY <1>10 DEF WriteBlack
  <2>2. args.image \in Contents
    BY <2>1 DEF Types
  <2>3. black' \in [Cells -> Contents]
    <3>1. black \in [Cells -> Contents]
      BY DEF Types
    <3>2. WithBuffer(black, args.rect, args.image) \in [Cells -> Contents]
      BY <2>2, <3>1, BufferType
    <3>3. WithBuffer(black, args.rect, "noise") \in [Cells -> Contents]
      BY <3>1, BufferType, ContentsFacts
    <3> QED
      BY <2>1, <3>2, <3>3
  <2> QED
    BY <1>10, <2>1, <2>3 DEF WriteBlack, Fail, Goto, Types, driverVars
<1>11. CASE WriteRefresh
  <2>1. CASE Refresh /\ Goto(IF HavePartial THEN "write_again" ELSE "idle")
    BY <1>11, <2>1, RefreshType DEF WriteRefresh, Refresh, Goto, Types, driverVars
  <2>2. CASE RefreshFails
    BY <1>11, <2>2 DEF WriteRefresh, RefreshFails, Fail, Types, driverVars, planes
  <2> QED
    BY <1>11, <2>1, <2>2 DEF WriteRefresh
<1>12. CASE WriteRed
  <2>1. PICK args \in call :
            \/ /\ red' = WithBuffer(red, args.rect, args.image)
               /\ Goto("idle")
               /\ UNCHANGED healthy
            \/ /\ red' = WithBuffer(red, args.rect, "noise")
               /\ Fail("data")
               /\ healthy' = FALSE
    BY <1>12 DEF WriteRed
  <2>2. args.image \in Contents
    BY <2>1 DEF Types
  <2>3. red' \in [Cells -> Contents]
    <3>1. red \in [Cells -> Contents]
      BY DEF Types
    <3>2. WithBuffer(red, args.rect, args.image) \in [Cells -> Contents]
      BY <2>2, <3>1, BufferType
    <3>3. WithBuffer(red, args.rect, "noise") \in [Cells -> Contents]
      BY <3>1, BufferType, ContentsFacts
    <3> QED
      BY <2>1, <3>2, <3>3
  <2> QED
    BY <1>12, <2>1, <2>3 DEF WriteRed, Fail, Goto, Types, driverVars
<1>13. ASSUME NEW r \in Rects, NEW image \in Images, Write(r, image) PROVE Types'
  <2>1. call' = {[rect |-> r, image |-> image]} /\ err' = FALSE
        /\ UNCHANGED <<blankingOn, black, red, panel, healthy>>
    BY <1>13 DEF Write, driverVars, planes
  <2>2. call' \subseteq [rect : Rects, image : Images] /\ (\A a, b \in call' : a = b)
    BY <2>1
  <2> QED
    BY <2>1, <2>2 DEF Types
<1>14. ASSUME NEW r \in Rects, Read(r) PROVE Types'
  BY <1>14 DEF Read, SetWindow, SetWindowFails, Fail, Goto, Types, driverVars, planes
<1>15. ASSUME NEW o \in Turns, Turn(o) PROVE Types'
  BY <1>15 DEF Turn, SetOrientation, Fail, Goto, Types, planes
<1>16. CASE BlankingOn
  BY <1>16 DEF BlankingOn, SetProfile, SetProfileFails, Fail, Goto, Types, planes, registers, driverVars
<1>17. CASE BlankingOff
  <2>1. CASE Refresh /\ Goto("idle")
    BY <1>17, <2>1, RefreshType DEF BlankingOff, Refresh, Goto, Types
  <2>2. CASE RefreshFails
    BY <1>17, <2>2 DEF BlankingOff, RefreshFails, Fail, Types, planes
  <2> QED
    BY <1>17, <2>1, <2>2 DEF BlankingOff
<1>18. CASE UNCHANGED vars
  BY <1>18 DEF vars, driverVars, registers, planes, Types
<1> QED
  BY <1>1, <1>2, <1>3, <1>4, <1>5, <1>6, <1>7, <1>8, <1>9, <1>10, <1>11, <1>12, <1>13,
     <1>14, <1>15, <1>16, <1>17, <1>18
     DEF Next, Initialise, WriteStep, Call, WriteRam, WriteAgain

LEMMA ShapeStep == Types /\ Shape /\ [Next]_vars => Shape'
<1> SUFFICES ASSUME Types, Shape, [Next]_vars PROVE Shape'
  OBVIOUS
<1> USE ConfigAssumption DEF Shape, AllSteps, Initialising, PartialRefresh
<1>1. CASE Restart
  BY <1>1 DEF Restart
<1>2. CASE Reset
  BY <1>2 DEF Reset, Goto, Fail, registers
<1>3. CASE InitProfile
  BY <1>3 DEF InitProfile, SetProfile, SetProfileFails, Fail, Goto, registers, driverVars
<1>4. CASE ClearBlack
  BY <1>4 DEF ClearBlack, ClearWindow, Fail, Goto, driverVars
<1>5. CASE ClearRed
  BY <1>5 DEF ClearRed, ClearWindow, Fail, Goto, driverVars
<1>6. CASE Orient
  BY <1>6 DEF Orient, SetOrientation, Fail, Goto
<1>7. CASE Show
  BY <1>7 DEF Show, RefreshFails, Fail, Goto, driverVars, registers
<1>8. CASE WriteProfile
  BY <1>8 DEF WriteProfile, SetProfile, SetProfileFails, Fail, Goto, registers, driverVars
<1>9. CASE WriteWindow
  BY <1>9 DEF WriteWindow, SetWindow, Reject, SetWindowFails, Fail, Goto, driverVars, registers
<1>10. CASE WriteRam
  BY <1>10 DEF WriteRam, WriteBlack, AfterRam, Fail, Goto, driverVars, registers, Types
<1>11. CASE WriteRefresh
  BY <1>11 DEF WriteRefresh, RefreshFails, Fail, Goto, driverVars, registers
<1>12. CASE WriteAgain
  BY <1>12 DEF WriteAgain, WriteBlack, Fail, Goto, driverVars, registers
<1>13. CASE WriteRed
  BY <1>13 DEF WriteRed, Fail, Goto, driverVars, registers
<1>14. ASSUME NEW r \in Rects, NEW image \in Images, Write(r, image) PROVE Shape'
  BY <1>14 DEF Write, driverVars, registers, Idle
<1>15. ASSUME NEW r \in Rects, Read(r) PROVE Shape'
  BY <1>15 DEF Read, SetWindow, SetWindowFails, Fail, Goto, driverVars, Idle
<1>16. ASSUME NEW o \in Turns, Turn(o) PROVE Shape'
  BY <1>16 DEF Turn, SetOrientation, Fail, Goto, Idle
<1>17. CASE BlankingOn
  BY <1>17 DEF BlankingOn, SetProfile, SetProfileFails, Fail, Goto, registers, driverVars, Idle
<1>18. CASE BlankingOff
  BY <1>18 DEF BlankingOff, RefreshFails, Fail, Goto, registers, Idle
<1>19. CASE UNCHANGED vars
  BY <1>19 DEF vars, driverVars, registers
<1> QED
  BY <1>1, <1>2, <1>3, <1>4, <1>5, <1>6, <1>7, <1>8, <1>9, <1>10, <1>11, <1>12, <1>13,
     <1>14, <1>15, <1>16, <1>17, <1>18, <1>19
     DEF Next, Initialise, WriteStep, Call

-----------------------------------------------------------------------------

(* Two planes with the same bytes are the same plane. *)
LEMMA SamePlane ==
    ASSUME NEW f \in [Cells -> Contents], NEW g \in [Cells -> Contents],
           \A c \in Cells : f[c] = g[c]
    PROVE  f = g
OBVIOUS

LEMMA BlankIsClean == Clean(Filled("blank"))
BY DEF Clean, Filled

LEMMA ImagesClean ==
    ASSUME Types
    PROVE  \A args \in call : args.image # "noise"
BY ContentsFacts DEF Types

(* The refresh shows the black plane, in both profiles, if the planes are  *)
(* as the driver expects them.                                             *)
LEMMA RefreshShows ==
    ASSUME Types, Refresh, programmed = profile,
           profile = "partial" => red = panel /\ Clean(panel)
    PROVE  panel' = black
<1>1. CASE profile = "partial"
  <2>1. panel' = [c \in Cells |-> Driven(c)]
    BY <1>1 DEF Refresh
  <2>2. \A c \in Cells : Driven(c) = black[c]
    BY <1>1 DEF Driven, Clean
  <2> QED
    BY <2>1, <2>2 DEF Types
<1>2. CASE profile # "partial"
  BY <1>2 DEF Refresh
<1> QED
  BY <1>1, <1>2

LEMMA SteadyInitialise == IInv /\ Initialise => Steady'
<1> SUFFICES ASSUME IInv, Initialise, healthy' PROVE (Settled /\ Writing /\ Clearing)'
  BY DEF Steady
<1> USE DEF IInv, Shape, Initialising, AllSteps
<1>1. CASE Restart
  BY <1>1 DEF Restart, Settled, Writing, Clearing
<1>2. CASE Reset
  BY <1>2 DEF Reset, Goto, Fail, Settled, Writing, Clearing
<1>3. CASE InitProfile
  BY <1>3 DEF InitProfile, SetProfile, SetProfileFails, Fail, Goto, Settled, Writing, Clearing
<1>4. CASE ClearBlack
  BY <1>4 DEF ClearBlack, Fail, Goto, Settled, Writing, Clearing
<1>5. CASE ClearRed
  BY <1>5 DEF ClearRed, Fail, Goto, Settled, Writing, Clearing, Steady
<1>6. CASE Orient
  BY <1>6 DEF Orient, SetOrientation, Fail, Goto, Settled, Writing, Clearing, Steady, Known, planes
<1>7. CASE Show
  <2>1. Refresh /\ Goto("idle") /\ UNCHANGED <<driverVars, registers, planes, healthy>>
    BY <1>7 DEF Show, RefreshFails, Refresh, PartialRefresh
  <2>2. Known /\ black = Filled("blank") /\ (HavePartial => red = Filled("blank"))
    BY <1>7, <2>1 DEF Show, Steady, Clearing, Refresh
  <2>3. panel' = black
    BY <1>7, <2>1, <2>2, RefreshShows DEF Show, Known
  <2>4. Known'
    BY <2>1, <2>2 DEF Known, driverVars, registers
  <2>5. black' = black /\ red' = red
    BY <2>1 DEF planes
  <2>6. Clean(black)'
    BY <2>2, <2>5, BlankIsClean DEF Clean
  <2> QED
    BY <2>1, <2>2, <2>3, <2>4, <2>5, <2>6 DEF Goto, Settled, Writing, Clearing
<1> QED
  BY <1>1, <1>2, <1>3, <1>4, <1>5, <1>6, <1>7 DEF Initialise

LEMMA SteadyWrite == IInv /\ WriteStep => Steady'
<1> SUFFICES ASSUME IInv, WriteStep, healthy' PROVE (Settled /\ Writing /\ Clearing)'
  BY DEF Steady
<1> USE ConfigAssumption DEF IInv, Shape, Initialising, AllSteps
<1>1. CASE WriteProfile
  <2>1. /\ pc' \in {"window", "idle"}
        /\ UNCHANGED <<healthy, blankingOn, panel, black, red>>
    BY <1>1 DEF WriteProfile, SetProfile, SetProfileFails, Fail, Goto, driverVars, planes
  <2>2. Known /\ (~blankingOn => panel = black) /\ (HavePartial => red = black) /\ Clean(black)
    BY <1>1, <2>1 DEF WriteProfile, Steady, Settled
  <2>3. Known'
    <3>1. CASE SetProfile("partial")
      BY <2>2, <3>1 DEF SetProfile, Known, registers
    <3>2. CASE SetProfileFails("partial")
      <4>1. UNCHANGED <<registers, driverVars>>
        BY <2>1, <3>2 DEF SetProfileFails
      <4> QED
        BY <2>2, <4>1 DEF Known, registers, driverVars
    <3> QED
      BY <1>1, <3>1, <3>2 DEF WriteProfile
  <2> QED
    BY <2>1, <2>2, <2>3 DEF Settled, Writing, Clearing, Clean
<1>2. CASE WriteWindow
  <2>1. /\ pc' \in {"ram", "idle"}
        /\ UNCHANGED <<driverVars, programmed, entry, planes, panel, healthy>>
    BY <1>2 DEF WriteWindow, SetWindow, Reject, SetWindowFails, Fail, Goto, registers
  <2>2. Known /\ (~blankingOn => panel = black) /\ (HavePartial => red = black) /\ Clean(black)
    BY <1>2, <2>1 DEF WriteWindow, Steady, Settled
  <2> QED
    BY <2>1, <2>2 DEF Settled, Writing, Clearing, Known, Clean, driverVars, planes
<1>3. CASE WriteRam
  <2>1. PICK args \in call :
            black' = WithBuffer(black, args.rect, args.image) /\ Goto(AfterRam) /\ UNCHANGED healthy
    BY <1>3 DEF WriteRam, WriteBlack
  <2>2. Known /\ (~blankingOn => panel = black) /\ (HavePartial => red = black) /\ Clean(black)
    BY <1>3, <2>1 DEF WriteRam, Steady, Settled
  <2>3. UNCHANGED <<profile, blankingOn, scanMode, orientation, programmed, entry, window, red, panel>>
    BY <1>3 DEF WriteRam, WriteBlack, driverVars, registers
  <2>4. \A c \in Cells : black'[c] = IF c \in Written(args.rect) THEN args.image ELSE black[c]
    BY <2>1, <2>2, BufferOver DEF Known
  <2>5. \A r : Written(r)' = Written(r)
    BY <2>3, WrittenKept
  <2>6. Known'
    BY <2>2, <2>3 DEF Known
  <2>7. Clean(black)'
    BY <2>2, <2>4, ImagesClean DEF Clean
  <2>8. CASE ~blankingOn
    <3>1. pc' = "refresh" /\ call' = call
      BY <2>1, <2>8 DEF Goto, AfterRam
    <3>2. Over(black, panel)'
      BY <2>1, <2>2, <2>3, <2>4, <2>5, <2>8, <3>1 DEF Over, Types
    <3> QED
      BY <2>2, <2>3, <2>6, <2>8, <3>1, <3>2 DEF Settled, Writing, Clearing, Clean
  <2>9. CASE blankingOn /\ HavePartial
    <3>1. pc' = "write_red" /\ call' = call
      BY <2>1, <2>9 DEF Goto, AfterRam
    <3>2. Over(black, red)'
      BY <2>1, <2>2, <2>3, <2>4, <2>5, <2>9, <3>1 DEF Over, Types
    <3> QED
      BY <2>6, <2>7, <3>1, <3>2 DEF Settled, Writing, Clearing
  <2>10. CASE blankingOn /\ ~HavePartial
    <3>1. pc' = "idle"
      BY <2>1, <2>10 DEF Goto, AfterRam
    <3> QED
      BY <2>3, <2>6, <2>7, <2>10, <3>1 DEF Settled, Writing, Clearing
  <2> QED
    BY <2>8, <2>9, <2>10
<1>4. CASE WriteRefresh
  <2>1. Refresh /\ Goto(IF HavePartial THEN "write_again" ELSE "idle")
    BY <1>4 DEF WriteRefresh, RefreshFails
  <2>2. UNCHANGED <<profile, blankingOn, scanMode, orientation, programmed, entry, window, healthy>>
    BY <1>4, <2>1 DEF WriteRefresh, Refresh, driverVars, registers
  <2>3. /\ Known
        /\ Over(black, panel)
        /\ HavePartial => red = panel
        /\ Clean(panel)
        /\ ~blankingOn
        /\ profile = "partial" <=> HavePartial
    BY <1>4, <2>2 DEF WriteRefresh, Steady, Writing, PartialRefresh
  <2>4. panel' = black
    BY <2>1, <2>3, RefreshShows DEF Known
  <2>5. \A r : Written(r)' = Written(r)
    BY <2>2, WrittenKept
  <2>6. Known'
    BY <2>2, <2>3 DEF Known
  <2>7. Clean(black)
    <3>1. PICK args \in call : TRUE
      BY <1>4 DEF WriteRefresh
    <3>2. \A c \in Cells : black[c] = IF c \in Written(args.rect) THEN args.image ELSE panel[c]
      BY <2>3 DEF Over
    <3> QED
      BY <2>3, <3>1, <3>2, ImagesClean DEF Clean
  <2>8. CASE HavePartial
    <3>1. pc' = "write_again" /\ call' = call
      BY <2>1, <2>8 DEF Goto
    <3>2. black' = panel /\ red' = black
      BY <2>1, <2>3, <2>8 DEF Refresh
    <3>3. Over(panel, black)'
      BY <2>3, <2>4, <2>5, <3>1, <3>2 DEF Over
    <3> QED
      BY <2>4, <2>6, <2>7, <3>1, <3>2, <3>3 DEF Settled, Writing, Clearing, Clean
  <2>9. CASE ~HavePartial
    <3>1. pc' = "idle" /\ black' = black
      BY <2>1, <2>3, <2>9 DEF Goto, Refresh, planes
    <3> QED
      BY <2>4, <2>6, <2>7, <2>9, <3>1 DEF Settled, Writing, Clearing, Clean
  <2> QED
    BY <2>8, <2>9
<1>5. CASE WriteAgain
  <2>1. PICK args \in call :
            black' = WithBuffer(black, args.rect, args.image) /\ Goto("idle") /\ UNCHANGED healthy
    BY <1>5 DEF WriteAgain, WriteBlack
  <2>2. Known /\ Over(panel, black) /\ red = panel /\ Clean(panel)
    BY <1>5, <2>1 DEF WriteAgain, Steady, Writing
  <2>3. UNCHANGED <<profile, blankingOn, scanMode, orientation, programmed, entry, red, panel>>
    BY <1>5 DEF WriteAgain, WriteBlack, driverVars, registers
  <2>4. \A c \in Cells : black'[c] = panel[c]
    <3>1. \A c \in Cells : black'[c] = IF c \in Written(args.rect) THEN args.image ELSE black[c]
      BY <2>1, <2>2, BufferOver DEF Known
    <3>2. \A c \in Cells : panel[c] = IF c \in Written(args.rect) THEN args.image ELSE black[c]
      BY <2>1, <2>2 DEF Over
    <3> QED
      BY <3>1, <3>2
  <2>5. black' = panel
    <3>1. black' \in [Cells -> Contents]
      BY <2>1, BufferType, ContentsFacts DEF Types
    <3> QED
      BY <2>4, <3>1, SamePlane DEF Types
  <2> QED
    BY <2>1, <2>2, <2>3, <2>5 DEF Goto, Settled, Writing, Clearing, Known, Clean
<1>6. CASE WriteRed
  <2>1. PICK args \in call :
            red' = WithBuffer(red, args.rect, args.image) /\ Goto("idle") /\ UNCHANGED healthy
    BY <1>6 DEF WriteRed
  <2>2. Known /\ Over(black, red) /\ Clean(black) /\ blankingOn
    BY <1>6, <2>1 DEF WriteRed, Steady, Writing
  <2>3. UNCHANGED <<profile, blankingOn, scanMode, orientation, programmed, entry, black, panel>>
    BY <1>6 DEF WriteRed, driverVars, registers
  <2>4. \A c \in Cells : red'[c] = black[c]
    <3>1. \A c \in Cells : red'[c] = IF c \in Written(args.rect) THEN args.image ELSE red[c]
      BY <2>1, <2>2, BufferOver DEF Known
    <3>2. \A c \in Cells : black[c] = IF c \in Written(args.rect) THEN args.image ELSE red[c]
      BY <2>1, <2>2 DEF Over
    <3> QED
      BY <3>1, <3>2
  <2>5. red' = black
    <3>1. red' \in [Cells -> Contents]
      BY <2>1, BufferType, ContentsFacts DEF Types
    <3> QED
      BY <2>4, <3>1, SamePlane DEF Types
  <2> QED
    BY <2>1, <2>2, <2>3, <2>5 DEF Goto, Settled, Writing, Clearing, Known, Clean
<1> QED
  BY <1>1, <1>2, <1>3, <1>4, <1>5, <1>6 DEF WriteStep

LEMMA SteadyCall == IInv /\ Call => Steady'
<1> SUFFICES ASSUME IInv, Call, healthy' PROVE (Settled /\ Writing /\ Clearing)'
  BY DEF Steady
<1> USE DEF IInv, Shape, Initialising, AllSteps, Idle
<1>1. ASSUME NEW r \in Rects, NEW image \in Images, Write(r, image)
      PROVE  (Settled /\ Writing /\ Clearing)'
  BY <1>1 DEF Write, Settled, Writing, Clearing, Steady, Known, Clean, driverVars, registers, planes
<1>2. ASSUME NEW r \in Rects, Read(r) PROVE (Settled /\ Writing /\ Clearing)'
  BY <1>2 DEF Read, SetWindow, SetWindowFails, Fail, Goto, Settled, Writing, Clearing, Steady,
              Known, Clean, driverVars, planes
<1>3. ASSUME NEW o \in Turns, Turn(o) PROVE (Settled /\ Writing /\ Clearing)'
  BY <1>3 DEF Turn, SetOrientation, Fail, Goto, Settled, Writing, Clearing, Steady, Known, Clean, planes
<1>4. CASE BlankingOn
  BY <1>4 DEF BlankingOn, SetProfile, SetProfileFails, Fail, Goto, Settled, Writing, Clearing,
              Steady, Known, Clean, driverVars, registers, planes
<1>5. CASE BlankingOff
  <2>1. Refresh /\ Goto("idle") /\ UNCHANGED healthy
    BY <1>5 DEF BlankingOff, RefreshFails, Refresh
  <2>2. Known /\ (HavePartial => red = black) /\ Clean(black) /\ profile # "partial"
    BY <1>5, <2>1 DEF BlankingOff, Steady, Settled, PartialRefresh
  <2>3. panel' = black /\ black' = black /\ red' = red
    BY <2>1, <2>2, RefreshShows DEF Known, Refresh, planes
  <2>4. Known'
    BY <1>5, <2>2 DEF BlankingOff, Known, registers
  <2> QED
    BY <1>5, <2>1, <2>2, <2>3, <2>4 DEF BlankingOff, Goto, Settled, Writing, Clearing, Clean
<1> QED
  BY <1>1, <1>2, <1>3, <1>4, <1>5 DEF Call

LEMMA IInvHolds == Spec => []IInv
<1>1. Init => IInv
  <2>1. Init => Steady
    BY DEF Init, Steady, Settled, Writing, Clearing
  <2> QED
    BY <2>1, InitTypesShape DEF IInv
<1>2. IInv /\ [Next]_vars => IInv'
  <2> SUFFICES ASSUME IInv, [Next]_vars PROVE IInv'
    OBVIOUS
  <2>1. Types' /\ Shape'
    BY TypesStep, ShapeStep DEF IInv
  <2>2. CASE UNCHANGED vars
    <3>1. \A r : Written(r)' = Written(r)
      BY <2>2, WrittenKept DEF vars, registers, driverVars
    <3> QED
      BY <2>1, <2>2, <3>1 DEF IInv, Steady, Settled, Writing, Clearing, Known, Clean, Over,
                              vars, driverVars, registers, planes
  <2>3. CASE Next
    <3>1. Steady'
      BY <2>3, SteadyInitialise, SteadyWrite, SteadyCall DEF Next
    <3> QED
      BY <2>1, <3>1 DEF IInv
  <2> QED
    BY <2>2, <2>3
<1> QED
  BY <1>1, <1>2, PTL DEF Spec

(* Between calls the driver knows the state of the controller, whatever    *)
(* the panel, the configuration and the failures before the last restart.  *)
THEOREM DriverInStep == Spec => []InStep
<1>1. IInv => InStep
  BY DEF IInv, Steady, Settled, Known, InStep, Idle
<1> QED
  BY <1>1, IInvHolds, PTL

(* Nothing changes the panel while blanking is on. *)
THEOREM BlankingHoldsPanel == Spec => PanelHeld
<1>1. IInv /\ [Next]_vars => [blankingOn /\ blankingOn' => panel' = panel]_vars
  <2> SUFFICES ASSUME IInv, [Next]_vars, blankingOn, blankingOn' PROVE panel' = panel
    OBVIOUS
  <2> USE DEF IInv, Shape, Initialising, Idle
  <2>1. CASE Initialise
    BY <2>1 DEF Initialise, Restart, Reset, InitProfile, ClearBlack, ClearRed, Orient, Show,
                SetProfile, SetProfileFails, ClearWindow, SetOrientation
  <2>2. CASE WriteStep
    BY <2>2 DEF WriteStep, WriteProfile, WriteWindow, WriteRam, WriteRefresh, WriteAgain, WriteRed,
                SetProfile, SetProfileFails, SetWindow, Reject, SetWindowFails, WriteBlack
  <2>3. CASE Call
    BY <2>3 DEF Call, Write, Read, Turn, BlankingOn, BlankingOff, SetProfile, SetProfileFails,
                SetWindow, SetWindowFails, SetOrientation
  <2>4. CASE UNCHANGED vars
    BY <2>4 DEF vars
  <2> QED
    BY <2>1, <2>2, <2>3, <2>4 DEF Next
<1> QED
  BY <1>1, IInvHolds, PTL DEF Spec, PanelHeld

-----------------------------------------------------------------------------

(* What the driver notes and the registers hold. *)
Registered ==
    /\ profile \in {"full", "partial", "invalid"}
    /\ scanMode \in Orientations
    /\ orientation \in Orientations
    /\ programmed \in {"full", "partial", "none"}
    /\ entry \in Orientations \cup {"none"}

InRam(win) == \A i \in 1..2 : PageAt(win.x[i]) \in Pages /\ win.y[i] \in 0..Width - 1

Windowed == \A win \in window : InRam(win)

(* What ssd16xx_clear_cntlr_mem programs. *)
LEMMA ClearedInRam ==
    InRam([x |-> RamXSpan(<<0, (Height + 7) \div 8 - 1>>), y |-> <<Width - 1, 0>>])
<1>1. (Height + 7) \div 8 - 1 \in Nat /\ 0 \in Pages /\ (Height + 7) \div 8 - 1 \in Pages
  BY SizeAssumption DEF Pages
<1>2. \A i \in 1..2 : PageAt(RamXSpan(<<0, (Height + 7) \div 8 - 1>>)[i]) \in Pages
  <2>1. /\ PageAt(RamXSpan(<<0, (Height + 7) \div 8 - 1>>)[1]) = 0
        /\ PageAt(RamXSpan(<<0, (Height + 7) \div 8 - 1>>)[2]) = (Height + 7) \div 8 - 1
    BY <1>1, SpanKeepsPages
  <2> QED
    BY <1>1, <2>1
<1>3. \A i \in 1..2 : <<Width - 1, 0>>[i] \in 0..Width - 1
  BY SizeAssumption
<1> QED
  BY <1>2, <1>3 DEF InRam

LEMMA AcceptedInRam ==
    ASSUME NEW o \in Orientations, NEW r \in Rects, Accepted(o, r)
    PROVE  InRam(Window(o, r))
<1>1. r \in Rectangles
  BY ConfigAssumption
<1>2. 0..(PanelH \div 8) - 1 \subseteq Pages
  BY SizeAssumption DEF PanelH, Pages
<1>3. \A i \in 1..2 : PageAt(Window(o, r).x[i]) \in 0..(PanelH \div 8) - 1
  BY <1>1, FirstPage
<1>4. \A i \in 1..2 : PageAt(Window(o, r).x[i]) \in Pages
  BY <1>2, <1>3
<1> QED
  BY <1>1, <1>4, GatesInRange DEF InRam

(* A step leaves the window, clears it or programs one of these two. *)
Programs ==
    \/ window' \in {window, {}}
    \/ window' = {[x |-> RamXSpan(<<0, (Height + 7) \div 8 - 1>>), y |-> <<Width - 1, 0>>]}
    \/ \E r \in Rects : Accepted(orientation, r) /\ window' = {Window(orientation, r)}

LEMMA InitialiseRegisters ==
    ASSUME Registered, Initialise PROVE Registered' /\ Programs
<1> USE DEF Registered, Programs, registers, driverVars, Orientations
<1>1. CASE Restart \/ Reset
  BY <1>1 DEF Restart, Reset
<1>2. CASE InitProfile
  BY <1>2 DEF InitProfile, SetProfile, SetProfileFails
<1>3. CASE ClearBlack \/ ClearRed
  BY <1>3 DEF ClearBlack, ClearRed, ClearWindow
<1>4. CASE Orient
  BY <1>4, ConfigAssumption DEF Orient, SetOrientation
<1>5. CASE Show
  BY <1>5 DEF Show
<1> QED
  BY <1>1, <1>2, <1>3, <1>4, <1>5 DEF Initialise

LEMMA WriteRegisters ==
    ASSUME Types, Registered, WriteStep PROVE Registered' /\ Programs
<1> USE DEF Registered, Programs, registers, driverVars
<1>1. CASE WriteProfile
  BY <1>1 DEF WriteProfile, SetProfile, SetProfileFails
<1>2. CASE WriteWindow
  <2>1. \A args \in call : args.rect \in Rects
    BY DEF Types
  <2> QED
    BY <1>2, <2>1 DEF WriteWindow, SetWindow, Reject, SetWindowFails
<1>3. CASE WriteRam \/ WriteAgain \/ WriteRed \/ WriteRefresh
  BY <1>3 DEF WriteRam, WriteAgain, WriteBlack, WriteRed, WriteRefresh
<1> QED
  BY <1>1, <1>2, <1>3 DEF WriteStep

LEMMA CallRegisters ==
    ASSUME Registered, Call PROVE Registered' /\ Programs
<1> USE DEF Registered, Programs, registers, driverVars
<1>1. ASSUME NEW r \in Rects, NEW image \in Images, Write(r, image)
      PROVE  Registered' /\ Programs
  BY <1>1 DEF Write
<1>2. ASSUME NEW r \in Rects, Read(r) PROVE Registered' /\ Programs
  BY <1>2 DEF Read, SetWindow, SetWindowFails
<1>3. ASSUME NEW o \in Turns, Turn(o) PROVE Registered' /\ Programs
  BY <1>3, ConfigAssumption DEF Turn, SetOrientation
<1>4. CASE BlankingOn
  BY <1>4 DEF BlankingOn, SetProfile, SetProfileFails
<1>5. CASE BlankingOff
  BY <1>5 DEF BlankingOff
<1> QED
  BY <1>1, <1>2, <1>3, <1>4, <1>5 DEF Call

LEMMA RegistersStep ==
    ASSUME Types, Registered, Windowed, [Next]_vars PROVE Registered' /\ Windowed'
<1>1. Registered' /\ Programs
  <2>1. CASE UNCHANGED vars
    BY <2>1 DEF vars, driverVars, registers, Registered, Programs
  <2> QED
    BY <2>1, InitialiseRegisters, WriteRegisters, CallRegisters DEF Next
<1>2. orientation \in Orientations
  BY DEF Registered
<1>3. \A win \in window' : InRam(win)
  BY <1>1, <1>2, ClearedInRam, AcceptedInRam DEF Programs, Windowed
<1> QED
  BY <1>1, <1>3 DEF Windowed, InRam

(* The driver's notes and the registers hold what they may, and no window  *)
(* that is programmed reaches beyond the RAM, in any orientation.          *)
THEOREM WindowsWithinRam == Spec => []TypeOK
<1>1. Init => Registered /\ Windowed
  BY DEF Init, Registered, Windowed, Orientations
<1>2. IInv /\ Registered /\ Windowed /\ [Next]_vars => (Registered /\ Windowed)'
  BY RegistersStep DEF IInv
<1>3. IInv /\ Registered /\ Windowed => TypeOK
  BY DEF IInv, Types, Shape, AllSteps, Registered, Windowed, InRam, TypeOK
<1> QED
  BY <1>1, <1>2, <1>3, IInvHolds, PTL DEF Spec

-----------------------------------------------------------------------------
(***************************************************************************)
(* The driver keeps the promise of a frame buffer.                         *)
(***************************************************************************)

(* In the orientation rot180 the driver mirrors a rectangle: the promise   *)
(* is kept only for those in the middle, as a whole screen is.             *)
Settings == Turns \cup {Rotation}

Centring == \A o \in Settings, r \in Rects : Centred(o, r)

NotInUse == Initialising \cup {"off", "down"}

Drawing == {"ram", "refresh", "write_again", "write_red"}

(* What is sent goes to the window of the call, in an orientation that was *)
(* asked for.                                                              *)
Aimed ==
    /\ pc \notin NotInUse => orientation \in Settings
    /\ pc = "show" => orientation = Rotation
    /\ pc \in Drawing =>
           \A args \in call :
               /\ Accepted(orientation, args.rect)
               /\ window = {Window(orientation, args.rect)}

LEMMA InitAimed == Init => Aimed
BY DEF Init, Aimed, NotInUse, Drawing

LEMMA AimedInitialise ==
    ASSUME Aimed, Initialise PROVE Aimed'
<1> USE DEF Aimed, NotInUse, Drawing, Initialising, Settings
<1>1. CASE Restart \/ Reset
  BY <1>1 DEF Restart, Reset, Goto, Fail
<1>2. CASE InitProfile
  BY <1>2 DEF InitProfile, Goto, SetProfileFails, Fail
<1>3. CASE ClearBlack \/ ClearRed
  BY <1>3 DEF ClearBlack, ClearRed, Goto, Fail
<1>4. CASE Orient
  BY <1>4 DEF Orient, SetOrientation, Goto, Fail
<1>5. CASE Show
  BY <1>5 DEF Show, RefreshFails, Goto, Fail, driverVars
<1> QED
  BY <1>1, <1>2, <1>3, <1>4, <1>5 DEF Initialise

LEMMA AimedWrite ==
    ASSUME Types, Aimed, WriteStep PROVE Aimed'
<1> USE DEF Aimed, NotInUse, Drawing, Initialising
<1>1. CASE WriteProfile
  BY <1>1 DEF WriteProfile, SetProfile, SetProfileFails, Goto, Fail, driverVars
<1>2. CASE WriteWindow
  <2>1. PICK args \in call :
            \/ SetWindow(args.rect) /\ Goto("ram")
            \/ Reject(args.rect)
            \/ SetWindowFails(args.rect)
    BY <1>2 DEF WriteWindow
  <2>2. \A other \in call : other = args
    BY <2>1 DEF Types
  <2> QED
    BY <1>2, <2>1, <2>2 DEF WriteWindow, SetWindow, Reject, SetWindowFails, Goto, Fail, driverVars
<1>3. CASE WriteRam \/ WriteAgain
  BY <1>3 DEF WriteRam, AfterRam, WriteAgain, WriteBlack, Goto, Fail, driverVars, registers
<1>4. CASE WriteRefresh
  BY <1>4 DEF WriteRefresh, RefreshFails, Goto, Fail, driverVars, registers
<1>5. CASE WriteRed
  BY <1>5 DEF WriteRed, Goto, Fail, driverVars, registers
<1> QED
  BY <1>1, <1>2, <1>3, <1>4, <1>5 DEF WriteStep

LEMMA AimedCall ==
    ASSUME Aimed, Call PROVE Aimed'
<1> USE DEF Aimed, NotInUse, Drawing, Initialising, Idle, Settings
<1>1. ASSUME NEW r \in Rects, NEW image \in Images, Write(r, image) PROVE Aimed'
  BY <1>1 DEF Write, driverVars
<1>2. ASSUME NEW r \in Rects, Read(r) PROVE Aimed'
  BY <1>2 DEF Read, SetWindow, SetWindowFails, Fail, Goto, driverVars
<1>3. ASSUME NEW o \in Turns, Turn(o) PROVE Aimed'
  BY <1>3 DEF Turn, SetOrientation, Goto, Fail
<1>4. CASE BlankingOn
  BY <1>4 DEF BlankingOn, SetProfile, SetProfileFails, Fail, Goto, driverVars
<1>5. CASE BlankingOff
  BY <1>5 DEF BlankingOff, RefreshFails, Fail, Goto
<1> QED
  BY <1>1, <1>2, <1>3, <1>4, <1>5 DEF Call

LEMMA AimedStep ==
    ASSUME Types, Aimed, [Next]_vars PROVE Aimed'
<1>1. CASE UNCHANGED vars
  BY <1>1 DEF vars, driverVars, registers, Aimed
<1>2. CASE Initialise
  BY <1>2, AimedInitialise
<1> QED
  BY <1>1, <1>2, AimedWrite, AimedCall DEF Next

-----------------------------------------------------------------------------

(* The bytes that a transfer fills are those the rectangle covers.         *)
LEMMA WrittenUnder ==
    ASSUME Centring, Types, Aimed, pc \in Drawing, entry = orientation,
           orientation \in Orientations, NEW args \in call
    PROVE  /\ Written(args.rect) = Promise!CellsUnder(orientation, args.rect)
           /\ Promise!Accepted(orientation, args.rect)
<1>1. args.rect \in Rects /\ args.rect \in Rectangles
  BY ConfigAssumption DEF Types
<1>2. /\ Accepted(orientation, args.rect)
      /\ window = {Window(orientation, args.rect)}
      /\ Centred(orientation, args.rect)
  BY <1>1 DEF Aimed, Drawing, NotInUse, Initialising, Centring
<1> DEFINE o == orientation
           r == args.rect
<1>3. Written(r) = Filling(o, r)
  BY <1>2 DEF Written, Filling
<1>4. Promise!CellsUnder(o, r) = Underneath(o, r)
  BY DEF Promise!CellsUnder, Promise!CellOf, Promise!Rotated, Promise!PanelH,
         Underneath, CellOf, Rotated, PanelH
<1>5. Filling(o, r) = Underneath(o, r)
  BY <1>1, <1>2, BytesOfRectangle
<1>6. Promise!Accepted(o, r)
  BY <1>2 DEF Accepted, XResolution, YResolution, PanelH, Upright, Promise!Accepted,
              Promise!XResolution, Promise!YResolution, Promise!PanelH, Promise!Upright
<1>7. Written(r) = Promise!CellsUnder(o, r)
  BY <1>3, <1>4, <1>5
<1> QED
  BY <1>6, <1>7

(* The state of the promise, step by step. *)
Frame == IF Working /\ blankingOn THEN black ELSE panel

Keeping == [Promise!Next]_(Promise!framebufferVars)

LEMMA Straying ==
    ASSUME ~Working, ~Working' PROVE Keeping
BY DEF Keeping, Promise!Next, Promise!Stray

LEMMA Losing ==
    ASSUME Working, ~Working', panel' = panel PROVE Keeping
BY DEF Keeping, Promise!Next, Promise!Lose

LEMMA Resting ==
    ASSUME Working, Working', UNCHANGED <<panel, blankingOn, orientation>>,
           blankingOn => black' = black
    PROVE  Keeping
BY DEF Keeping, Promise!framebufferVars

LEMMA DrawingShown ==
    ASSUME Working, Working', Types, UNCHANGED <<blankingOn, orientation>>,
           NEW args \in call, Promise!Accepted(orientation, args.rect),
           Frame' = [c \in Cells |-> IF c \in Promise!CellsUnder(orientation, args.rect)
                                     THEN args.image ELSE Frame[c]],
           panel' = IF blankingOn THEN panel ELSE Frame'
    PROVE  Keeping
<1>1. args.rect \in Rects /\ args.image \in Images
  BY DEF Types
<1>2. Promise!Draw(args.rect, args.image)
  BY DEF Promise!Draw, Promise!Drawn, Frame
<1> QED
  BY <1>1, <1>2 DEF Keeping, Promise!Next

-----------------------------------------------------------------------------

PInv == IInv /\ Registered /\ Aimed

LEMMA KeepingInitialise ==
    ASSUME PInv, Initialise PROVE Keeping
<1>1. CASE ~Working'
  <2>1. CASE Working
    <3>1. Restart
      BY <2>1 DEF Initialise, Reset, InitProfile, ClearBlack, ClearRed, Orient, Show,
                  Working, Initialising
    <3> QED
      BY <1>1, <2>1, <3>1, Losing DEF Restart
  <2> QED
    BY <1>1, <2>1, Straying
<1>2. CASE Working'
  <2>1. Show /\ Refresh /\ Goto("idle")
    BY <1>2 DEF Initialise, Restart, Reset, InitProfile, SetProfileFails, ClearBlack, ClearRed,
                Orient, SetOrientation, Show, RefreshFails, Goto, Fail, Working, Initialising
  <2>2. healthy /\ pc = "show" /\ UNCHANGED <<blankingOn, orientation>>
    BY <1>2, <2>1 DEF Show, Refresh, Working, driverVars
  <2>3. /\ Known /\ black = Filled("blank") /\ ~blankingOn /\ profile = "full"
        /\ orientation = Rotation
    BY <2>2 DEF PInv, IInv, Steady, Clearing, Shape, Initialising, Aimed
  <2>4. panel' = black
    BY <2>1, <2>3, RefreshShows DEF PInv, IInv, Known
  <2>5. ~Working
    BY <2>2 DEF Working, Initialising
  <2>6. Promise!Start
    BY <1>2, <2>2, <2>3, <2>4, <2>5 DEF Promise!Start, Filled
  <2> QED
    BY <2>6 DEF Keeping, Promise!Next
<1> QED
  BY <1>1, <1>2

LEMMA KeepingWrite ==
    ASSUME Centring, PInv, WriteStep PROVE Keeping
<1>t. /\ Types /\ Aimed /\ Shape /\ Steady
      /\ orientation \in Orientations
  BY DEF PInv, IInv, Registered
<1>w. pc \in {"profile", "window", "ram", "refresh", "write_again", "write_red"}
  BY DEF WriteStep, WriteProfile, WriteWindow, WriteRam, WriteRefresh, WriteAgain, WriteRed
<1>1. CASE ~healthy
  <2>1. ~healthy'
    BY <1>1 DEF WriteStep, WriteProfile, SetProfile, SetProfileFails, WriteWindow, SetWindow,
                Reject, SetWindowFails, WriteRam, WriteBlack, WriteRefresh, Refresh,
                RefreshFails, WriteAgain, WriteRed
  <2> QED
    BY <1>1, <2>1, Straying DEF Working
<1>2. CASE healthy
  <2>w. Working
    BY <1>w, <1>2 DEF Working, Initialising
  <2>1. CASE ~Working'
    <3>1. panel' = panel
      <4>1. ~healthy'
        BY <1>w, <2>1 DEF WriteStep, WriteProfile, SetProfileFails, WriteWindow, Reject,
                SetWindowFails, WriteRam, AfterRam, WriteBlack, WriteRefresh, RefreshFails,
                WriteAgain, WriteRed, Goto, Fail, Working, Initialising
      <4> QED
        BY <1>2, <4>1
           DEF WriteStep, WriteProfile, SetProfile, SetProfileFails, WriteWindow, SetWindow,
                Reject, SetWindowFails, WriteRam, WriteBlack, WriteRefresh, Refresh,
                RefreshFails, WriteAgain, WriteRed
    <3> QED
      BY <2>w, <2>1, <3>1, Losing
  <2>2. CASE Working'
    <3>h. healthy'
      BY <2>2 DEF Working
    <3>1. CASE WriteProfile
      BY <2>w, <2>2, <3>1, Resting
         DEF WriteProfile, SetProfile, SetProfileFails, driverVars, planes
    <3>2. CASE WriteWindow
      BY <2>w, <2>2, <3>2, Resting
         DEF WriteWindow, SetWindow, Reject, SetWindowFails, driverVars, planes
    <3>3. CASE WriteRam
      <4>1. PICK args \in call : black' = WithBuffer(black, args.rect, args.image)
        BY <3>3, <3>h DEF WriteRam, WriteBlack
      <4>2. /\ UNCHANGED <<panel, blankingOn, orientation>> /\ pc = "ram"
            /\ Known
        BY <3>3, <1>t, <1>2 DEF WriteRam, WriteBlack, driverVars, Steady, Settled
      <4>3. CASE ~blankingOn
        BY <2>w, <2>2, <4>2, <4>3, Resting
      <4>4. CASE blankingOn
        <5>1. /\ Written(args.rect) = Promise!CellsUnder(orientation, args.rect)
              /\ Promise!Accepted(orientation, args.rect)
          BY <1>t, <4>2, WrittenUnder DEF Drawing, Known
        <5>2. black' = [c \in Cells |-> IF c \in Promise!CellsUnder(orientation, args.rect)
                                        THEN args.image ELSE black[c]]
          BY <4>1, <4>2, <5>1 DEF WithBuffer, Known
        <5>3. Frame = black /\ Frame' = black'
          BY <2>w, <2>2, <4>2, <4>4 DEF Frame
        <5> QED
          BY <1>t, <2>w, <2>2, <4>2, <4>4, <5>1, <5>2, <5>3, DrawingShown
      <4> QED
        BY <4>3, <4>4
    <3>4. CASE WriteRefresh
      <4>1. Refresh /\ UNCHANGED <<blankingOn, orientation>> /\ pc = "refresh"
        BY <3>4, <3>h DEF WriteRefresh, RefreshFails, driverVars
      <4>2. /\ Known /\ Over(black, panel) /\ (HavePartial => red = panel) /\ Clean(panel)
            /\ ~blankingOn /\ (profile = "partial" => HavePartial) /\ call # {}
        BY <1>t, <1>2, <4>1 DEF Steady, Writing, Shape, PartialRefresh
      <4>3. panel' = black
        BY <1>t, <4>1, <4>2, RefreshShows DEF Known
      <4>4. PICK args \in call : TRUE
        BY <4>2
      <4>5. /\ Written(args.rect) = Promise!CellsUnder(orientation, args.rect)
            /\ Promise!Accepted(orientation, args.rect)
        BY <1>t, <4>1, <4>2, <4>4, WrittenUnder DEF Drawing, Known
      <4>6. black = [c \in Cells |-> IF c \in Promise!CellsUnder(orientation, args.rect)
                                     THEN args.image ELSE panel[c]]
        <5>1. \A c \in Cells : black[c] = IF c \in Promise!CellsUnder(orientation, args.rect)
                                          THEN args.image ELSE panel[c]
          BY <4>2, <4>4, <4>5 DEF Over
        <5> QED
          BY <1>t, <5>1 DEF Types
      <4>7. Frame = panel /\ Frame' = panel'
        BY <4>1, <4>2 DEF Frame
      <4> QED
        BY <1>t, <2>w, <2>2, <4>1, <4>2, <4>3, <4>5, <4>6, <4>7, DrawingShown
    <3>5. CASE WriteAgain
      <4>1. UNCHANGED <<panel, blankingOn, orientation>> /\ pc = "write_again"
        BY <3>5 DEF WriteAgain, WriteBlack, driverVars
      <4>2. ~blankingOn
        BY <1>t, <4>1 DEF Shape
      <4> QED
        BY <2>w, <2>2, <4>1, <4>2, Resting
    <3>6. CASE WriteRed
      BY <2>w, <2>2, <3>6, Resting DEF WriteRed, driverVars
    <3> QED
      BY <3>1, <3>2, <3>3, <3>4, <3>5, <3>6 DEF WriteStep
  <2> QED
    BY <2>1, <2>2
<1> QED
  BY <1>1, <1>2

LEMMA KeepingCall ==
    ASSUME PInv, Call PROVE Keeping
<1>t. Types /\ Shape /\ Steady
  BY DEF PInv, IInv
<1>i. pc = "idle" /\ (pc' = "idle" \/ pc' \in {"profile", "window"})
  BY DEF Call, Write, Read, Turn, BlankingOn, BlankingOff, SetProfileFails, RefreshFails,
         SetWindowFails, SetOrientation, Goto, Fail, Idle, Initialising
<1>p. Working <=> healthy
  BY <1>i DEF Working, Initialising
<1>q. Working' <=> healthy'
  BY <1>i DEF Working, Initialising
<1>1. CASE ~healthy
  <2>1. ~healthy'
    BY <1>1 DEF Call, Write, Read, SetWindow, SetWindowFails, Turn, SetOrientation,
                BlankingOn, SetProfile, SetProfileFails, BlankingOff, Refresh, RefreshFails
  <2> QED
    BY <1>1, <1>p, <1>q, <2>1, Straying
<1>2. CASE healthy /\ ~healthy'
  <2>1. panel' = panel
    BY <1>2 DEF Call, Write, Read, SetWindow, SetWindowFails, Turn, SetOrientation,
                BlankingOn, SetProfile, SetProfileFails, BlankingOff, Refresh, RefreshFails
  <2> QED
    BY <1>2, <1>p, <1>q, <2>1, Losing
<1>3. CASE healthy /\ healthy'
  <2>s. Known /\ (~blankingOn => panel = black) /\ (HavePartial => red = black) /\ Clean(black)
    BY <1>t, <1>i, <1>3 DEF Steady, Settled
  <2>1. ASSUME NEW r \in Rects, NEW image \in Images, Write(r, image) PROVE Keeping
    BY <1>3, <1>p, <1>q, <2>1, Resting DEF Write, driverVars, planes
  <2>2. ASSUME NEW r \in Rects, Read(r) PROVE Keeping
    BY <1>3, <1>p, <1>q, <2>2, Resting DEF Read, SetWindow, SetWindowFails, driverVars, planes
  <2>3. ASSUME NEW o \in Turns, Turn(o) PROVE Keeping
    <3>1. /\ o \in Orientations /\ orientation' = o
          /\ UNCHANGED <<blankingOn, panel, black>>
      BY <1>3, <2>3, ConfigAssumption DEF Turn, SetOrientation, planes
    <3>2. Promise!Turn(o)
      BY <1>3, <1>p, <1>q, <3>1 DEF Promise!Turn
    <3>3. o \in Promise!Orientations
      BY <3>1 DEF Promise!Orientations, Orientations
    <3> QED
      BY <3>2, <3>3 DEF Keeping, Promise!Next
  <2>4. CASE BlankingOn
    <3>1. CASE blankingOn'
      <4>1. UNCHANGED <<panel, black, orientation>> /\ ~blankingOn
        BY <2>4, <3>1 DEF BlankingOn, SetProfile, SetProfileFails, planes, driverVars
      <4>2. Promise!Blank
        BY <1>3, <1>p, <1>q, <2>s, <3>1, <4>1 DEF Promise!Blank
      <4> QED
        BY <4>2 DEF Keeping, Promise!Next
    <3>2. CASE ~blankingOn'
      BY <1>3, <1>p, <1>q, <2>4, <3>2, Resting
         DEF BlankingOn, SetProfile, SetProfileFails, planes, driverVars
    <3> QED
      BY <3>1, <3>2
  <2>5. CASE BlankingOff
    <3>1. Refresh /\ blankingOn /\ ~blankingOn' /\ UNCHANGED orientation
      BY <1>3, <2>5 DEF BlankingOff, RefreshFails
    <3>2. profile # "partial"
      BY <1>t, <3>1 DEF Shape, PartialRefresh
    <3>3. panel' = black
      BY <1>t, <2>s, <3>1, <3>2, RefreshShows DEF Known
    <3>4. Promise!Unblank
      BY <1>3, <1>p, <1>q, <3>1, <3>3 DEF Promise!Unblank
    <3> QED
      BY <3>4 DEF Keeping, Promise!Next
  <2> QED
    BY <2>1, <2>2, <2>3, <2>4, <2>5 DEF Call
<1> QED
  BY <1>1, <1>2, <1>3

LEMMA KeepingStep ==
    ASSUME Centring, PInv, [Next]_vars PROVE Keeping
<1>1. CASE UNCHANGED vars
  BY <1>1 DEF vars, driverVars, planes, Keeping, Promise!framebufferVars, Working
<1> QED
  BY <1>1, KeepingInitialise, KeepingWrite, KeepingCall DEF Next

LEMMA InitPromise == Init => Promise!Init
BY DEF Init, Promise!Init, Working, Initialising

(* For every panel and every set of failures, restarts included, a caller  *)
(* sees a frame buffer: what it draws is shown where it was drawn, at once *)
(* or when blanking is turned off, until a failure goes deep, and again    *)
(* from the next initialisation on.                                        *)
THEOREM FramebufferImplemented ==
    ASSUME Centring
    PROVE  Spec => ImplementsFramebuffer
<1>1. Init => Registered /\ Windowed /\ Aimed
  BY InitAimed DEF Init, Registered, Windowed, Orientations
<1>2. IInv /\ Registered /\ Windowed /\ Aimed /\ [Next]_vars => (Registered /\ Windowed /\ Aimed)'
  BY RegistersStep, AimedStep DEF IInv
<1>3. IInv /\ Registered /\ Aimed /\ [Next]_vars => [Promise!Next]_(Promise!framebufferVars)
  BY KeepingStep DEF PInv, Keeping
<1> QED
  BY <1>1, <1>2, <1>3, IInvHolds, InitPromise, PTL DEF Spec, ImplementsFramebuffer, Promise!Spec

-----------------------------------------------------------------------------
(***************************************************************************)
(* RefreshDisplay on top of the driver.                                    *)
(***************************************************************************)

(* Only a picture is sent. *)
Drawn == step # "none" => sent \in Images

LEMMA PathStepIsDriverStep ==
    ASSUME Screen \in Rects, Drawn, [PathNext]_pathVars PROVE [Next]_vars
<1>1. CASE Update \/ UNCHANGED pathVars
  BY <1>1 DEF Update, pathVars
<1>2. CASE TurnBlankingOn
  BY <1>2 DEF TurnBlankingOn, Next, Call
<1>3. CASE Flush
  BY <1>3 DEF Flush, Drawn, Next, Call
<1>4. CASE Flushing
  BY <1>4 DEF Flushing, Next
<1>5. CASE TurnBlankingOff
  BY <1>5 DEF TurnBlankingOff, Next, Call
<1>6. CASE Boot \/ DriverInit
  BY <1>6 DEF Boot, DriverInit, Next, Initialise
<1> QED
  BY <1>1, <1>2, <1>3, <1>4, <1>5, <1>6 DEF PathNext

LEMMA DrawnKept ==
    ASSUME Drawn, [PathNext]_pathVars PROVE Drawn'
BY DEF Drawn, PathNext, pathVars, Update, TurnBlankingOn, Flush, Flushing, Finish,
       TurnBlankingOff, Boot, DriverInit

(* Whatever fails and whenever the device restarts, every update is a      *)
(* behaviour of the driver: the theorems above hold for RefreshDisplay.    *)
THEOREM UpdatesUseDriver ==
    ASSUME Screen \in Rects
    PROVE  PathSpec => Spec
<1>1. PathInit => Init /\ Drawn
  BY DEF PathInit, Drawn
<1>2. Drawn /\ [PathNext]_pathVars => [Next]_vars /\ Drawn'
  BY PathStepIsDriverStep, DrawnKept
<1> QED
  BY <1>1, <1>2, PTL DEF PathSpec, Spec

(* An update and the calls it consists of.                                 *)
Control ==
    /\ step \in {"none", "blanking_on", "flush", "flushing", "blanking_off"}
    /\ full \in BOOLEAN /\ failed \in BOOLEAN
    /\ trusted \in BOOLEAN /\ stale \in BOOLEAN
    /\ step = "flushing" <=> pc \in {"profile", "window"} \cup Drawing
    /\ pc \in NotInUse => step = "none"
    /\ step = "flushing" => call = {[rect |-> Screen, image |-> sent]}
    /\ step \in {"flush", "flushing", "blanking_off"} /\ full => failed \/ blankingOn
    /\ blankingOn \/ failed => full /\ step \in {"flush", "flushing", "blanking_off"}
    /\ step \in {"blanking_on", "blanking_off"} => full

(* A start, until the display can be used.                                 *)
Starting ==
    /\ pc \in NotInUse => trusted /\ sent = "blank"
    /\ pc \in Initialising => healthy
    /\ trusted => ~stale

(* What the driver believes of the registers, and when it is wrong.        *)
Believed ==
    /\ pc \notin NotInUse \/ pc = "show" =>
           /\ orientation = Rotation /\ scanMode = Rotation
           /\ programmed = profile => entry = Rotation
    /\ pc \notin NotInUse =>
           /\ profile # "invalid"
           /\ profile = "full" /\ programmed # "full" => stale /\ HavePartial
           /\ step \in {"flush", "flushing", "blanking_off"} /\ full /\ ~blankingOn =>
                  profile = "partial"
    /\ pc = "write_again" => profile = "partial"

Shows(plane, content) == \A c \in Visible : plane[c] = content

(* The panel and both planes hold the same picture. *)
Even ==
    /\ programmed = profile
    /\ \A c \in Visible : /\ panel[c] = black[c] /\ panel[c] # "noise"
                          /\ HavePartial => red[c] = black[c]

(* A picture on its way through a partial update of a display that can be  *)
(* relied on ...                                                           *)
PartialUpdate ==
    trusted =>
        /\ step = "none" /\ Idle => Even /\ Shows(panel, sent)
        /\ step = "blanking_on" \/ (~full /\ step = "flush") => Even
        /\ ~full /\ pc \in {"profile", "window", "ram"} => Even
        /\ ~full /\ pc = "refresh" =>
               /\ programmed = profile
               /\ Shows(black, sent)
               /\ \A c \in Visible : /\ panel[c] # "noise"
                                     /\ HavePartial => red[c] = panel[c]
        /\ ~full /\ pc = "write_again" =>
               programmed = profile /\ Shows(panel, sent) /\ Shows(red, sent)

(* ... and through a full one that will repair it.                         *)
FullUpdate ==
    full /\ ~failed /\ ~stale =>
        /\ pc = "write_red" \/ step = "blanking_off" => Shows(black, sent)
        /\ step = "blanking_off" /\ HavePartial => Shows(red, sent)

PathInv == Control /\ Starting /\ Believed /\ PartialUpdate /\ FullUpdate

-----------------------------------------------------------------------------

LEMMA ScreenFacts ==
    /\ Rotation \in Orientations
    /\ Screen \in Rectangles
    /\ Accepted(Rotation, Screen)
    /\ Centred(Rotation, Screen)
<1>1. Rotation \in Orientations
  BY ConfigAssumption
<1>2. /\ XResolution(Rotation) \in Nat \ {0} /\ YResolution(Rotation) \in Nat \ {0}
      /\ XResolution(Rotation) = IF Upright(Rotation) THEN Width ELSE PanelH
      /\ YResolution(Rotation) = IF Upright(Rotation) THEN PanelH ELSE Width
  BY PanelFacts DEF XResolution, YResolution
<1>3. /\ Screen \in Rectangles /\ Screen.x = 0 /\ Screen.y = 0
      /\ Screen.width = XResolution(Rotation) /\ Screen.height = YResolution(Rotation)
  BY <1>2 DEF Screen, Rectangles
<1>4. Accepted(Rotation, Screen)
  BY <1>2, <1>3, PanelFacts DEF Accepted
<1>5. Centred(Rotation, Screen)
  BY <1>2, <1>3, PanelFacts DEF Centred, Upright
<1> QED
  BY <1>1, <1>3, <1>4, <1>5

(* The bytes of the screen are bytes of the RAM, and a buffer of the whole *)
(* screen fills just them.                                                 *)
LEMMA VisibleFilled == Visible = Filling(Rotation, Screen)
<1>1. Screen.x = 0 /\ Screen.y = 0 /\ Screen.width \in Nat /\ Screen.height \in Nat
  BY ScreenFacts DEF Screen, Rectangles
<1>2. 0 + Screen.width - 1 = Screen.width - 1 /\ 0 + Screen.height - 1 = Screen.height - 1
  BY <1>1
<1>3. Visible = Underneath(Rotation, Screen)
  BY <1>1, <1>2 DEF Visible, Underneath
<1> QED
  BY <1>3, ScreenFacts, BytesOfRectangle

LEMMA VisibleInRam == Visible \subseteq Cells
<1> SUFFICES ASSUME NEW x \in 0..Screen.width - 1, NEW y \in 0..Screen.height - 1
             PROVE  CellOf(Rotated(Rotation, x, y)) \in Cells
  BY DEF Visible
<1>1. x \in 0..XResolution(Rotation) - 1 /\ y \in 0..YResolution(Rotation) - 1
  BY DEF Screen
<1>2. PICK column \in 0..Width - 1, row \in 0..PanelH - 1 :
          Rotated(Rotation, x, y) = <<column, row>>
  <2> USE <1>1, PanelFacts DEF XResolution, YResolution, Upright, Rotated
  <2>1. CASE Rotation = "normal"
    BY <2>1
  <2>2. CASE Rotation = "rot90"
    <3>1. Width - 1 - y \in 0..Width - 1 /\ x \in 0..PanelH - 1
      BY <2>2
    <3> QED
      BY <2>2, <3>1
  <2>3. CASE Rotation = "rot180"
    <3>1. Width - 1 - x \in 0..Width - 1 /\ PanelH - 1 - y \in 0..PanelH - 1
      BY <2>3
    <3> QED
      BY <2>3, <3>1
  <2>4. CASE Rotation = "rot270"
    <3>1. y \in 0..Width - 1 /\ PanelH - 1 - x \in 0..PanelH - 1
      BY <2>4
    <3> QED
      BY <2>4, <3>1
  <2> QED
    BY <2>1, <2>2, <2>3, <2>4, ConfigAssumption DEF Orientations
<1>3. (PanelH - 1 - row) \div 8 \in 0..((Height + 7) \div 8) - 1
  <2>1. PanelH - 1 - row \in 0..Height - 1
    BY SizeAssumption DEF PanelH
  <2> QED
    BY <2>1, SizeAssumption
<1> QED
  BY <1>2, <1>3 DEF CellOf, Cells, Pages

(* A transfer of the screen to registers that are programmed for it leaves *)
(* the picture in the plane.                                               *)
LEMMA ScreenSent ==
    ASSUME Aimed, pc \in Drawing, call = {[rect |-> Screen, image |-> sent]},
           orientation = Rotation, entry = Rotation, NEW plane
    PROVE  Shows(WithBuffer(plane, Screen, sent), sent)
<1>1. window = {Window(Rotation, Screen)}
  BY DEF Aimed
<1>2. Written(Screen) = Visible
  BY <1>1, VisibleFilled DEF Written, Filling
<1> QED
  BY <1>2, VisibleInRam DEF WithBuffer, Shows

PathBase == IInv /\ Registered /\ Aimed /\ Drawn

(* A refresh shows the black plane if the registers are those of the noted *)
(* profile and, in the partial one, the red plane is what the panel shows. *)
LEMMA VisibleShown ==
    ASSUME Refresh, programmed = profile,
           profile = "partial" => \A c \in Visible : red[c] = panel[c] /\ panel[c] # "noise"
    PROVE  \A c \in Visible : panel'[c] = black[c]
<1>1. CASE profile = "partial"
  <2>1. panel' = [c \in Cells |-> Driven(c)]
    BY <1>1 DEF Refresh
  <2> QED
    BY <1>1, <2>1, VisibleInRam DEF Driven
<1>2. CASE profile # "partial"
  BY <1>2 DEF Refresh
<1> QED
  BY <1>1, <1>2

LEMMA PathUpdate ==
    ASSUME PathBase, PathInv, Update PROVE PathInv'
<1> USE DEF PathInv, Update, Idle, vars, trust, driverVars, registers, planes
<1>1. Control'
  BY DEF Control, NotInUse, Initialising, Drawing
<1>2. Starting'
  BY DEF Starting, NotInUse, Initialising
<1>3. Believed'
  BY DEF Believed
<1>4. PartialUpdate'
  BY DEF PartialUpdate, Even, Shows
<1>5. FullUpdate'
  BY DEF FullUpdate, Control
<1> QED
  BY <1>1, <1>2, <1>3, <1>4, <1>5

LEMMA PathBlankingOn ==
    ASSUME PathBase, PathInv, TurnBlankingOn PROVE PathInv'
<1>1. /\ pc = "idle" /\ pc' = "idle" /\ call' = {} /\ step' = "flush" /\ failed' = err'
      /\ UNCHANGED <<trust, full, sent, scanMode, orientation, planes, panel>>
      /\ ~blankingOn /\ step = "blanking_on"
  BY DEF TurnBlankingOn, BlankingOn, Idle, SetProfile, SetProfileFails, Goto, Fail,
         Initialising, driverVars
<1>2. full /\ ~failed
  BY <1>1 DEF PathInv, Control
<1>3. \/ SetProfile("full") /\ blankingOn' = TRUE /\ err' = FALSE
      \/ SetProfileFails("full") /\ blankingOn' = FALSE /\ err' = TRUE
  BY <1>1 DEF TurnBlankingOn, BlankingOn, SetProfileFails, Fail, Goto, driverVars,
              PathBase, IInv, Types
<1>4. err' \in BOOLEAN /\ blankingOn' \in BOOLEAN /\ (blankingOn' \/ err')
  BY <1>3
<1> USE <1>1, <1>2 DEF PathInv, trust, planes
<1>5. Control'
  BY <1>4 DEF Control, NotInUse, Initialising, Drawing
<1>6. Starting'
  BY DEF Starting, NotInUse, Initialising
<1>7. Believed'
  <2>1. /\ orientation = Rotation /\ scanMode = Rotation
        /\ programmed = profile => entry = Rotation
        /\ profile # "invalid"
        /\ profile = "full" /\ programmed # "full" => stale /\ HavePartial
    BY DEF Believed, NotInUse, Initialising
  <2>2. CASE SetProfile("full") /\ blankingOn' = TRUE
    BY <2>1, <2>2 DEF SetProfile, Believed, registers
  <2>3. CASE SetProfileFails("full")
    BY <2>1, <2>3 DEF SetProfileFails, Believed, registers, driverVars, PathBase, Registered
  <2> QED
    BY <1>3, <2>2, <2>3
<1>8. PartialUpdate'
  BY DEF PartialUpdate
<1>9. FullUpdate'
  BY DEF FullUpdate
<1> QED
  BY <1>5, <1>6, <1>7, <1>8, <1>9

LEMMA PathFlush ==
    ASSUME PathBase, PathInv, Flush PROVE PathInv'
<1>1. /\ step = "flush" /\ step' = "flushing" /\ pc = "idle" /\ pc' \in {"profile", "window"}
      /\ call' = {[rect |-> Screen, image |-> sent]}
      /\ UNCHANGED <<trust, full, sent, failed, driverVars, registers, planes, panel, healthy>>
  BY DEF Flush, Write, Idle
<1> USE <1>1 DEF PathInv, trust, driverVars, registers, planes
<1>2. Control'
  BY DEF Control, NotInUse, Initialising, Drawing
<1>3. Starting'
  BY DEF Starting, NotInUse, Initialising
<1>4. Believed'
  BY DEF Believed, NotInUse, Initialising
<1>5. PartialUpdate'
  BY DEF PartialUpdate, Even, Idle, Control
<1>6. FullUpdate'
  BY DEF FullUpdate, Control
<1> QED
  BY <1>2, <1>3, <1>4, <1>5, <1>6

(* What becomes of an update with a transfer of the driver. *)
LEMMA FlushingOutcome ==
    ASSUME PathInv, Flushing
    PROVE  /\ step = "flushing" /\ WriteStep /\ UNCHANGED <<full, sent>>
           /\ call = {[rect |-> Screen, image |-> sent]}
           /\ \/ pc' # "idle" /\ UNCHANGED <<trust, step, failed>>
              \/ /\ pc' = "idle" /\ full
                 /\ step' = "blanking_off" /\ failed' = (failed \/ err') /\ UNCHANGED trust
              \/ pc' = "idle" /\ ~full /\ Finish(err')
<1>1. step = "flushing" /\ WriteStep /\ UNCHANGED <<full, sent>>
  BY DEF Flushing
<1>2. call = {[rect |-> Screen, image |-> sent]}
  BY <1>1 DEF PathInv, Control
<1>3. full \in BOOLEAN
  BY DEF PathInv, Control
<1>4. /\ pc' # "idle" => UNCHANGED <<trust, step, failed>>
      /\ pc' = "idle" /\ full =>
             step' = "blanking_off" /\ failed' = (failed \/ err') /\ UNCHANGED trust
      /\ pc' = "idle" /\ ~full => Finish(err')
  BY <1>3 DEF Flushing
<1> QED
  BY <1>1, <1>2, <1>3, <1>4

(* A failure ends a partial update and is remembered by a full one. *)
LEMMA FlushingFails ==
    ASSUME PathBase, PathInv, Flushing, Fail("profile") \/ Fail("window") \/ Fail("data")
                                        \/ Fail("refresh") \/ Reject(Screen),
           UNCHANGED driverVars,
           \/ UNCHANGED <<programmed, entry>>
           \/ pc = "profile" /\ profile # "partial" /\ programmed' = "none"
    PROVE  PathInv'
<1>1. step = "flushing" /\ pc \in {"profile", "window"} \cup Drawing /\ UNCHANGED <<full, sent>>
  BY FlushingOutcome DEF PathInv, Control
<1>2. pc' = "idle" /\ call' = {} /\ err' = TRUE
  BY <1>1 DEF Fail, Reject, Initialising, Drawing
<1>3. \/ full /\ step' = "blanking_off" /\ failed' = TRUE /\ UNCHANGED trust
      \/ ~full /\ step' = "none" /\ failed' = FALSE /\ trusted' = FALSE /\ stale' = TRUE
  BY <1>2, FlushingOutcome DEF Finish, Failed, PathInv, Control
<1> USE <1>1, <1>2, <1>3 DEF PathInv, trust, driverVars
<1>4. Control'
  BY DEF Control, NotInUse, Initialising, Drawing
<1>5. Starting'
  BY DEF Starting, NotInUse, Initialising, Drawing
<1>6. Believed'
  <2>1. pc = "profile" => HavePartial /\ (full => profile = "partial")
    BY DEF Believed, PathBase, IInv, Shape, NotInUse, Initialising
  <2>2. /\ orientation = Rotation /\ scanMode = Rotation
        /\ programmed = profile => entry = Rotation
        /\ profile # "invalid" /\ profile # "none"
        /\ profile = "full" /\ programmed # "full" => stale /\ HavePartial
    BY DEF Believed, NotInUse, Initialising, Drawing, PathBase, Registered
  <2>3. step' = "blanking_off" /\ full /\ ~blankingOn => profile = "partial"
    BY DEF Believed, NotInUse, Initialising, Drawing
  <2> QED
    BY <2>1, <2>2, <2>3 DEF Believed
<1>7. PartialUpdate'
  BY DEF PartialUpdate
<1>8. FullUpdate'
  BY DEF FullUpdate
<1> QED
  BY <1>4, <1>5, <1>6, <1>7, <1>8

(* The two transfers before a plane is written. *)
LEMMA PathWriteProfile ==
    ASSUME PathBase, PathInv, Flushing, WriteProfile PROVE PathInv'
<1>1. CASE SetProfileFails("partial")
  BY <1>1, FlushingFails DEF SetProfileFails, WriteProfile, registers
<1>2. CASE SetProfile("partial") /\ Goto("window") /\ UNCHANGED blankingOn
  <2>1. /\ pc = "profile" /\ pc' = "window" /\ step = "flushing" /\ profile' = "partial"
        /\ UNCHANGED <<call, full, sent, trust, step, failed, blankingOn, scanMode, orientation,
                       planes, panel, healthy>>
    BY <1>2, FlushingOutcome DEF WriteProfile, SetProfile, Goto
  <2> USE <2>1 DEF PathInv, trust, planes
  <2>2. Control'
    BY DEF Control, NotInUse, Initialising, Drawing
  <2>3. Starting'
    BY DEF Starting, NotInUse, Initialising
  <2>4. Believed'
    BY <1>2 DEF SetProfile, Believed, NotInUse, Initialising, registers
  <2>5. PartialUpdate'
    <3>1. trusted /\ ~full => Even'
      BY <1>2 DEF PartialUpdate, Even, SetProfile, registers
    <3> QED
      BY <3>1 DEF PartialUpdate
  <2>6. FullUpdate'
    BY DEF FullUpdate
  <2> QED
    BY <2>2, <2>3, <2>4, <2>5, <2>6
<1> QED
  BY <1>1, <1>2 DEF WriteProfile

LEMMA PathWriteWindow ==
    ASSUME PathBase, PathInv, Flushing, WriteWindow PROVE PathInv'
<1>1. \/ SetWindow(Screen) /\ Goto("ram")
      \/ Reject(Screen)
      \/ SetWindowFails(Screen)
  BY FlushingOutcome DEF WriteWindow
<1>2. CASE Reject(Screen) \/ SetWindowFails(Screen)
  BY <1>2, FlushingFails DEF Reject, SetWindowFails, driverVars, registers
<1>3. CASE SetWindow(Screen) /\ Goto("ram")
  <2>1. /\ pc = "window" /\ pc' = "ram" /\ step = "flushing"
        /\ UNCHANGED <<call, full, sent, trust, step, failed, driverVars, programmed, entry,
                       planes, panel, healthy>>
    BY <1>3, FlushingOutcome DEF WriteWindow, SetWindow, Goto
  <2> USE <2>1 DEF PathInv, trust, planes, driverVars
  <2>2. Control'
    BY DEF Control, NotInUse, Initialising, Drawing
  <2>3. Starting'
    BY DEF Starting, NotInUse, Initialising
  <2>4. Believed'
    BY DEF Believed, NotInUse, Initialising
  <2>5. PartialUpdate'
    BY DEF PartialUpdate, Even
  <2>6. FullUpdate'
    BY DEF FullUpdate
  <2> QED
    BY <2>2, <2>3, <2>4, <2>5, <2>6
<1> QED
  BY <1>1, <1>2, <1>3

(* The transfers of a plane. *)
LEMMA PathWriteRam ==
    ASSUME PathBase, PathInv, Flushing, WriteRam PROVE PathInv'
<1>1. /\ call = {[rect |-> Screen, image |-> sent]}
      /\ pc = "ram" /\ step = "flushing" /\ UNCHANGED <<full, sent>>
  BY FlushingOutcome DEF WriteRam
<1>2. \/ /\ black' = WithBuffer(black, Screen, sent)
         /\ Goto(AfterRam)
         /\ UNCHANGED healthy
      \/ Fail("data")
  BY <1>1 DEF WriteRam, WriteBlack
<1>3. UNCHANGED <<driverVars, registers, red, panel>>
  BY DEF WriteRam, WriteBlack
<1>4. CASE Fail("data")
  BY <1>3, <1>4, FlushingFails DEF registers
<1>5. CASE black' = WithBuffer(black, Screen, sent) /\ Goto(AfterRam) /\ UNCHANGED healthy
  <2>1. /\ pc' = AfterRam /\ err' = FALSE /\ call' = IF AfterRam = "idle" THEN {} ELSE call
        /\ UNCHANGED <<profile, blankingOn, scanMode, orientation, programmed, entry, red, panel,
                       healthy>>
    BY <1>3, <1>5 DEF Goto, driverVars, registers
  <2>2. /\ orientation = Rotation /\ scanMode = Rotation
        /\ programmed = profile => entry = Rotation
        /\ profile # "invalid"
        /\ profile = "full" /\ programmed # "full" => stale /\ HavePartial
        /\ full /\ ~blankingOn => profile = "partial"
    BY <1>1 DEF PathInv, Believed, NotInUse, Initialising
  <2>3. programmed = profile => Shows(black, sent)'
    <3>1. programmed = profile => Shows(WithBuffer(black, Screen, sent), sent)
      BY <1>1, <2>2, ScreenSent DEF PathBase, Drawing
    <3> QED
      BY <1>1, <1>5, <3>1 DEF Shows
  <2>4. /\ full \in BOOLEAN /\ failed \in BOOLEAN /\ trusted \in BOOLEAN /\ stale \in BOOLEAN
        /\ full => failed \/ blankingOn
        /\ blankingOn \/ failed => full
        /\ blankingOn \in BOOLEAN
    BY <1>1 DEF PathInv, Control, PathBase, IInv, Types
  <2>5. CASE ~blankingOn
    <3>1. pc' = "refresh" /\ UNCHANGED <<trust, step, failed, call>>
      BY <1>1, <2>1, <2>5, FlushingOutcome DEF AfterRam
    <3> USE <1>1, <2>1, <2>5, <3>1 DEF PathInv, trust
    <3>2. Control'
      BY DEF Control, NotInUse, Initialising, Drawing
    <3>3. Starting'
      BY DEF Starting, NotInUse, Initialising
    <3>4. Believed'
      BY <2>2 DEF Believed, NotInUse, Initialising
    <3>5. PartialUpdate'
      <4>1. ASSUME trusted, ~full
            PROVE  /\ programmed = profile
                   /\ \A c \in Visible : /\ panel[c] # "noise"
                                         /\ HavePartial => red[c] = panel[c]
        BY <4>1 DEF PartialUpdate, Even
      <4> QED
        BY <2>3, <4>1 DEF PartialUpdate
    <3>6. FullUpdate'
      BY DEF FullUpdate
    <3> QED
      BY <3>2, <3>3, <3>4, <3>5, <3>6
  <2>6. CASE blankingOn
    <3>1. full /\ profile = "full"
      BY <2>2, <2>4, <2>6 DEF PathBase, Registered, IInv, Shape, PartialRefresh
    <3>2. \/ HavePartial /\ pc' = "write_red" /\ UNCHANGED <<trust, step, failed, call>>
          \/ /\ ~HavePartial /\ pc' = "idle" /\ call' = {} /\ step' = "blanking_off"
             /\ UNCHANGED <<trust, failed>>
      <4>1. failed \/ err' = failed
        BY <2>1, <2>4
      <4>2. pc' = IF HavePartial THEN "write_red" ELSE "idle"
        BY <2>1, <2>6 DEF AfterRam
      <4>3. CASE HavePartial
        BY <2>1, <4>2, <4>3, FlushingOutcome
      <4>4. CASE ~HavePartial
        <5>1. failed' = (failed \/ err') /\ step' = "blanking_off" /\ UNCHANGED trust
          BY <3>1, <4>2, <4>4, FlushingOutcome
        <5>2. failed' = failed
          BY <5>1, <2>1, <2>4
        <5> QED
          BY <2>1, <4>2, <4>4, <5>1, <5>2
      <4> QED
        BY <4>3, <4>4
    <3> USE <1>1, <2>1, <2>6, <3>1, <3>2 DEF PathInv, trust
    <3>3. Control'
      BY DEF Control, NotInUse, Initialising, Drawing
    <3>4. Starting'
      BY DEF Starting, NotInUse, Initialising
    <3>5. Believed'
      BY <2>2 DEF Believed, NotInUse, Initialising
    <3>6. PartialUpdate'
      BY DEF PartialUpdate
    <3>7. FullUpdate'
      BY <2>2, <2>3 DEF FullUpdate
    <3> QED
      BY <3>3, <3>4, <3>5, <3>6, <3>7
  <2> QED
    BY <2>4, <2>5, <2>6
<1> QED
  BY <1>2, <1>4, <1>5

LEMMA PathWriteRefresh ==
    ASSUME PathBase, PathInv, Flushing, WriteRefresh PROVE PathInv'
<1>1. /\ call = {[rect |-> Screen, image |-> sent]}
      /\ pc = "refresh" /\ step = "flushing" /\ UNCHANGED <<full, sent>>
      /\ UNCHANGED <<driverVars, registers>>
  BY FlushingOutcome DEF WriteRefresh
<1>2. CASE RefreshFails
  BY <1>1, <1>2, FlushingFails DEF RefreshFails, registers
<1>3. CASE Refresh /\ Goto(IF HavePartial THEN "write_again" ELSE "idle")
  <2>1. ~blankingOn /\ (HavePartial <=> profile = "partial") /\ HavePartial \in BOOLEAN
    BY <1>1, ConfigAssumption DEF PathBase, IInv, Shape, PartialRefresh
  <2>2. /\ err' = FALSE /\ UNCHANGED healthy
        /\ HavePartial => pc' = "write_again" /\ call' = call
        /\ ~HavePartial => pc' = "idle" /\ call' = {}
    BY <1>3 DEF Goto, Refresh
  <2>3. /\ full \in BOOLEAN /\ failed \in BOOLEAN /\ trusted \in BOOLEAN /\ stale \in BOOLEAN
        /\ full <=> failed
    BY <1>1, <2>1 DEF PathInv, Control
  <2>4. \/ HavePartial /\ UNCHANGED <<trust, step, failed>>
        \/ /\ ~HavePartial /\ full /\ step' = "blanking_off" /\ failed' = TRUE
           /\ UNCHANGED trust
        \/ /\ ~HavePartial /\ ~full /\ step' = "none" /\ failed' = FALSE
           /\ trusted' = trusted /\ stale' = FALSE
    <3>1. CASE HavePartial
      BY <2>2, <3>1, FlushingOutcome
    <3>2. CASE ~HavePartial /\ full
      BY <2>2, <2>3, <3>2, FlushingOutcome
    <3>3. CASE ~HavePartial /\ ~full
      <4>1. Finish(FALSE)
        BY <2>2, <3>3, FlushingOutcome
      <4> QED
        BY <2>3, <3>3, <4>1 DEF Finish, Succeeded
    <3> QED
      BY <2>1, <2>3, <3>1, <3>2, <3>3
  <2>5. /\ orientation = Rotation /\ scanMode = Rotation
        /\ programmed = profile => entry = Rotation
        /\ profile # "invalid"
        /\ profile = "full" /\ programmed # "full" => stale /\ HavePartial
        /\ full => profile = "partial"
    BY <1>1, <2>1 DEF PathInv, Believed, NotInUse, Initialising
  <2>6. ASSUME trusted, ~full
        PROVE  /\ programmed = profile
               /\ Shows(black, sent)
               /\ \A c \in Visible : panel[c] # "noise" /\ (HavePartial => red[c] = panel[c])
    BY <1>1, <2>6 DEF PathInv, PartialUpdate
  <2>7. ASSUME trusted, ~full PROVE Shows(panel, sent)'
    <3>1. \A c \in Visible : panel'[c] = black[c]
      BY <1>3, <2>1, <2>6, <2>7, VisibleShown
    <3> QED
      BY <1>1, <2>6, <2>7, <3>1 DEF Shows
  <2> USE <1>1, <2>1, <2>2, <2>3, <2>4 DEF PathInv, trust, driverVars, registers
  <2>8. Control'
    <3>1. CASE HavePartial
      BY <3>1 DEF Control, NotInUse, Initialising, Drawing
    <3>2. CASE ~HavePartial /\ full
      BY <3>2 DEF Control, NotInUse, Initialising, Drawing
    <3>3. CASE ~HavePartial /\ ~full
      BY <3>3 DEF Control, NotInUse, Initialising, Drawing
    <3> QED
      BY <3>1, <3>2, <3>3
  <2>9. Starting'
    BY DEF Starting, NotInUse, Initialising
  <2>10. Believed'
    BY <2>5 DEF Believed, NotInUse, Initialising, PathBase, Registered
  <2>11. PartialUpdate'
    <3>1. ASSUME trusted', HavePartial, ~full
          PROVE  programmed' = profile' /\ Shows(panel, sent)' /\ Shows(red, sent)'
      <4>1. red' = black
        BY <1>3, <3>1 DEF Refresh
      <4> QED
        BY <2>6, <2>7, <3>1, <4>1 DEF Shows
    <3>2. ASSUME trusted', ~HavePartial, ~full
          PROVE  Even' /\ Shows(panel, sent)'
      <4>1. black' = black
        BY <1>3, <3>2 DEF Refresh, planes
      <4>2. sent # "noise"
        BY ConfigAssumption DEF PathBase, Drawn
      <4> QED
        BY <2>6, <2>7, <3>2, <4>1, <4>2 DEF Shows, Even
    <3> QED
      BY <3>1, <3>2 DEF PartialUpdate, Idle
  <2>12. FullUpdate'
    BY DEF FullUpdate
  <2> QED
    BY <2>8, <2>9, <2>10, <2>11, <2>12
<1> QED
  BY <1>2, <1>3 DEF WriteRefresh

LEMMA PathWriteAgain ==
    ASSUME PathBase, PathInv, Flushing, WriteAgain PROVE PathInv'
<1>1. /\ call = {[rect |-> Screen, image |-> sent]}
      /\ pc = "write_again" /\ step = "flushing" /\ UNCHANGED <<full, sent>>
  BY FlushingOutcome DEF WriteAgain
<1>2. \/ /\ black' = WithBuffer(black, Screen, sent)
         /\ Goto("idle")
         /\ UNCHANGED healthy
      \/ Fail("data")
  BY <1>1 DEF WriteAgain, WriteBlack
<1>3. UNCHANGED <<driverVars, registers, red, panel>>
  BY DEF WriteAgain, WriteBlack
<1>4. CASE Fail("data")
  BY <1>3, <1>4, FlushingFails DEF registers
<1>5. CASE black' = WithBuffer(black, Screen, sent) /\ Goto("idle") /\ UNCHANGED healthy
  <2>1. /\ pc' = "idle" /\ err' = FALSE /\ call' = {}
        /\ UNCHANGED <<profile, blankingOn, scanMode, orientation, programmed, entry, red, panel,
                       healthy>>
    BY <1>3, <1>5 DEF Goto, driverVars, registers
  <2>2. /\ orientation = Rotation /\ scanMode = Rotation
        /\ programmed = profile => entry = Rotation
        /\ profile = "partial" /\ ~blankingOn /\ HavePartial
    BY <1>1 DEF PathInv, Believed, NotInUse, Initialising, PathBase, IInv, Shape
  <2>3. /\ full \in BOOLEAN /\ failed \in BOOLEAN /\ trusted \in BOOLEAN /\ stale \in BOOLEAN
        /\ full <=> failed
    BY <1>1, <2>2 DEF PathInv, Control
  <2>4. \/ full /\ step' = "blanking_off" /\ failed' = TRUE /\ UNCHANGED trust
        \/ /\ ~full /\ step' = "none" /\ failed' = FALSE
           /\ trusted' = trusted /\ stale' = FALSE
    <3>1. CASE full
      BY <2>1, <2>3, <3>1, FlushingOutcome
    <3>2. CASE ~full
      <4>1. Finish(FALSE)
        BY <2>1, <3>2, FlushingOutcome
      <4> QED
        BY <2>3, <3>2, <4>1 DEF Finish, Succeeded
    <3> QED
      BY <2>3, <3>1, <3>2
  <2> USE <1>1, <2>1, <2>2, <2>3, <2>4 DEF PathInv, trust
  <2>5. Control'
    BY DEF Control, NotInUse, Initialising, Drawing
  <2>6. Starting'
    BY DEF Starting, NotInUse, Initialising
  <2>7. Believed'
    BY DEF Believed, NotInUse, Initialising
  <2>8. PartialUpdate'
    <3>1. ASSUME trusted', ~full
          PROVE  Even' /\ Shows(panel, sent)'
      <4>1. programmed = profile /\ Shows(panel, sent) /\ Shows(red, sent)
        BY <3>1 DEF PartialUpdate
      <4>2. Shows(WithBuffer(black, Screen, sent), sent)
        BY <4>1, ScreenSent DEF PathBase, Drawing
      <4>3. sent # "noise"
        BY ConfigAssumption DEF PathBase, Drawn
      <4> QED
        BY <1>5, <4>1, <4>2, <4>3 DEF Shows, Even
    <3> QED
      BY <3>1 DEF PartialUpdate
  <2>9. FullUpdate'
    BY DEF FullUpdate
  <2> QED
    BY <2>5, <2>6, <2>7, <2>8, <2>9
<1> QED
  BY <1>2, <1>4, <1>5

LEMMA PathWriteRed ==
    ASSUME PathBase, PathInv, Flushing, WriteRed PROVE PathInv'
<1>1. /\ call = {[rect |-> Screen, image |-> sent]}
      /\ pc = "write_red" /\ step = "flushing" /\ UNCHANGED <<full, sent>>
  BY FlushingOutcome DEF WriteRed
<1>2. \/ /\ red' = WithBuffer(red, Screen, sent)
         /\ Goto("idle")
         /\ UNCHANGED healthy
      \/ Fail("data")
  BY <1>1 DEF WriteRed
<1>3. UNCHANGED <<driverVars, registers, black, panel>>
  BY DEF WriteRed
<1>4. CASE Fail("data")
  BY <1>3, <1>4, FlushingFails DEF registers
<1>5. CASE red' = WithBuffer(red, Screen, sent) /\ Goto("idle") /\ UNCHANGED healthy
  <2>1. /\ pc' = "idle" /\ err' = FALSE /\ call' = {}
        /\ UNCHANGED <<profile, blankingOn, scanMode, orientation, programmed, entry, black,
                       panel, healthy>>
    BY <1>3, <1>5 DEF Goto, driverVars, registers
  <2>2. blankingOn /\ full /\ failed \in BOOLEAN /\ stale \in BOOLEAN /\ trusted \in BOOLEAN
    BY <1>1 DEF PathInv, Control, PathBase, IInv, Shape
  <2>3. /\ orientation = Rotation /\ scanMode = Rotation
        /\ programmed = profile => entry = Rotation
        /\ profile = "full" /\ (programmed # "full" => stale /\ HavePartial)
    BY <1>1, <2>2 DEF PathInv, Believed, NotInUse, Initialising, PathBase, Registered, IInv,
                      Shape, PartialRefresh
  <2>4. step' = "blanking_off" /\ failed' = failed /\ UNCHANGED trust
    <3>1. step' = "blanking_off" /\ failed' = (failed \/ err') /\ UNCHANGED trust
      BY <2>1, <2>2, FlushingOutcome
    <3> QED
      BY <2>1, <2>2, <3>1
  <2> USE <1>1, <2>1, <2>2, <2>3, <2>4 DEF PathInv, trust
  <2>5. Control'
    BY DEF Control, NotInUse, Initialising, Drawing
  <2>6. Starting'
    BY DEF Starting, NotInUse, Initialising
  <2>7. Believed'
    BY DEF Believed, NotInUse, Initialising
  <2>8. PartialUpdate'
    BY DEF PartialUpdate
  <2>9. FullUpdate'
    <3>1. ASSUME ~failed, ~stale
          PROVE  Shows(black, sent)' /\ Shows(red, sent)'
      <4>1. Shows(black, sent)
        BY <3>1 DEF FullUpdate
      <4>2. Shows(WithBuffer(red, Screen, sent), sent)
        BY <3>1, ScreenSent DEF PathBase, Drawing
      <4> QED
        BY <1>5, <4>1, <4>2 DEF Shows
    <3> QED
      BY <3>1 DEF FullUpdate
  <2> QED
    BY <2>5, <2>6, <2>7, <2>8, <2>9
<1> QED
  BY <1>2, <1>4, <1>5

LEMMA PathFlushing ==
    ASSUME PathBase, PathInv, Flushing PROVE PathInv'
<1>1. WriteStep
  BY DEF Flushing
<1> QED
  BY <1>1, PathWriteProfile, PathWriteWindow, PathWriteRam, PathWriteRefresh, PathWriteAgain,
     PathWriteRed DEF WriteStep

(* The refresh of a full update repairs the panel and finds both planes    *)
(* repaired, unless the registers are not those of the full profile.       *)
LEMMA PathBlankingOff ==
    ASSUME PathBase, PathInv, TurnBlankingOff PROVE PathInv'
<1>1. /\ step = "blanking_off" /\ full /\ step' = "none" /\ failed' = FALSE
      /\ UNCHANGED <<full, sent>>
      /\ failed \in BOOLEAN /\ stale \in BOOLEAN /\ trusted \in BOOLEAN
  BY DEF TurnBlankingOff, Finish, PathInv, Control
<1>2. pc = "idle"
  <2>1. pc \notin NotInUse /\ pc \notin {"profile", "window"} \cup Drawing
    BY <1>1 DEF PathInv, Control
  <2> QED
    BY <2>1 DEF NotInUse, Drawing, PathBase, IInv, Shape, AllSteps
<1>3. /\ pc' = "idle" /\ blankingOn' = FALSE
      /\ UNCHANGED <<profile, scanMode, orientation, programmed, entry>>
  BY <1>2 DEF TurnBlankingOff, BlankingOff, Refresh, RefreshFails, Goto, Fail, Initialising,
              vars, driverVars, registers, PathBase, IInv, Types
<1>4. /\ orientation = Rotation /\ scanMode = Rotation
      /\ programmed = profile => entry = Rotation
      /\ profile # "invalid"
      /\ profile = "full" /\ programmed # "full" => stale /\ HavePartial
  BY <1>1, <1>2 DEF PathInv, Believed, NotInUse, Initialising
<1>5. \/ /\ Refresh /\ blankingOn /\ ~failed
         /\ trusted' = (trusted \/ ~stale) /\ stale' = stale
      \/ trusted' = FALSE /\ stale' = stale
  <2>1. CASE BlankingOff /\ Finish(failed \/ err')
    <3>1. CASE Refresh /\ Goto("idle") /\ blankingOn
      <4>1. CASE failed
        BY <1>1, <2>1, <4>1 DEF Finish, Failed
      <4>2. CASE ~failed
        <5>1. err' = FALSE
          BY <3>1 DEF Goto
        <5> QED
          BY <1>1, <2>1, <3>1, <4>2, <5>1 DEF Finish, Succeeded
      <4> QED
        BY <1>1, <4>1, <4>2
    <3>2. CASE RefreshFails
      <4>1. err' = TRUE
        BY <3>2 DEF RefreshFails, Fail
      <4> QED
        BY <1>1, <2>1, <4>1 DEF Finish, Failed
    <3> QED
      BY <2>1, <3>1, <3>2 DEF BlankingOff
  <2>2. CASE Finish(TRUE)
    BY <1>1, <2>2 DEF Finish, Failed
  <2> QED
    BY <2>1, <2>2 DEF TurnBlankingOff
<1>6. trusted' => /\ Refresh /\ blankingOn /\ ~failed /\ ~stale
                  /\ profile = "full" /\ programmed = "full"
  <2>1. trusted => ~stale
    BY DEF PathInv, Starting
  <2>2. blankingOn => profile # "partial"
    BY DEF PathBase, IInv, Shape, PartialRefresh
  <2> QED
    BY <1>1, <1>4, <1>5, <2>1, <2>2 DEF PathBase, Registered
<1> USE <1>1, <1>2, <1>3 DEF PathInv
<1>7. Control'
  BY <1>5 DEF Control, NotInUse, Initialising, Drawing
<1>8. Starting'
  BY <1>5, <1>6 DEF Starting, NotInUse, Initialising
<1>9. Believed'
  BY <1>4, <1>5 DEF Believed, NotInUse, Initialising
<1>10. PartialUpdate'
  <2>1. ASSUME trusted' PROVE Even' /\ Shows(panel, sent)'
    <3>1. Shows(black, sent) /\ (HavePartial => Shows(red, sent))
      BY <1>6, <2>1 DEF FullUpdate
    <3>2. panel' = black /\ black' = black /\ red' = red
      BY <1>6, <2>1 DEF Refresh, planes
    <3>3. sent # "noise"
      BY ConfigAssumption DEF PathBase, Drawn
    <3> QED
      BY <1>6, <2>1, <3>1, <3>2, <3>3 DEF Shows, Even
  <2> QED
    BY <2>1 DEF PartialUpdate
<1>11. FullUpdate'
  BY DEF FullUpdate
<1> QED
  BY <1>7, <1>8, <1>9, <1>10, <1>11

(* Starting, until the empty picture is shown. *)
LEMMA PathBoot ==
    ASSUME Boot PROVE PathInv'
<1>1. /\ pc' = "reset" /\ healthy' = TRUE /\ blankingOn' = FALSE /\ step' = "none"
      /\ full' = FALSE /\ sent' = "blank" /\ failed' = FALSE /\ trusted' = TRUE /\ stale' = FALSE
  BY DEF Boot, Restart
<1> QED
  BY <1>1 DEF PathInv, Control, Starting, Believed, PartialUpdate, FullUpdate, NotInUse,
              Initialising, Drawing, Idle

LEMMA PathDriverInit ==
    ASSUME PathBase, PathInv, DriverInit PROVE PathInv'
<1>1. pc \in Initialising /\ UNCHANGED <<trust, step, full, sent, failed>>
  BY DEF DriverInit, Reset, InitProfile, ClearBlack, ClearRed, Orient, Show, Initialising
<1>2. /\ step = "none" /\ sent = "blank" /\ trusted = TRUE /\ stale = FALSE /\ healthy
      /\ full \in BOOLEAN /\ failed = FALSE /\ blankingOn = FALSE
  BY <1>1 DEF PathInv, Control, Starting, NotInUse, PathBase, IInv, Shape, Types
<1>3. CASE Show /\ Refresh /\ Goto("idle")
  <2>1. /\ pc = "show" /\ pc' = "idle"
        /\ UNCHANGED <<driverVars, registers, planes, healthy>>
    <3>1. profile # "partial"
      BY <1>3 DEF PathBase, IInv, Shape, PartialRefresh, Show
    <3> QED
      BY <1>3, <3>1 DEF Show, Refresh, Goto
  <2>2. /\ Known /\ black = Filled("blank") /\ (HavePartial => red = Filled("blank"))
        /\ profile = "full"
    BY <1>2, <2>1 DEF PathBase, IInv, Steady, Clearing, Shape
  <2>3. panel' = black
    BY <1>3, <2>2 DEF Refresh, Known
  <2>4. orientation = Rotation /\ scanMode = Rotation /\ entry = Rotation
    BY <2>1, <2>2 DEF PathBase, Aimed, Known
  <2> USE <1>1, <1>2, <2>1, <2>2, <2>4 DEF PathInv, trust, driverVars, registers, planes, Known
  <2>5. Control'
    BY DEF Control, NotInUse, Initialising, Drawing
  <2>6. Starting'
    BY DEF Starting, NotInUse, Initialising
  <2>7. Believed'
    BY DEF Believed, NotInUse, Initialising
  <2>8. PartialUpdate'
    <3>1. \A c \in Visible : Filled("blank")[c] = "blank"
      BY VisibleInRam DEF Filled
    <3>2. Even' /\ Shows(panel, sent)'
      BY <2>3, <3>1 DEF Even, Shows
    <3> QED
      BY <3>2 DEF PartialUpdate
  <2>9. FullUpdate'
    BY DEF FullUpdate
  <2> QED
    BY <2>5, <2>6, <2>7, <2>8, <2>9
<1>4. CASE ~(Show /\ Refresh /\ Goto("idle"))
  <2>1. pc' \in NotInUse /\ (pc' \in Initialising => healthy') /\ blankingOn' = FALSE
    BY <1>2, <1>4 DEF DriverInit, Reset, InitProfile, SetProfile, SetProfileFails, ClearBlack,
                      ClearRed, ClearWindow, Orient, SetOrientation, Show, RefreshFails, Goto,
                      Fail, NotInUse, Initialising, driverVars
  <2>2. pc' = "show" =>
            /\ orientation' = Rotation /\ scanMode' = Rotation
            /\ programmed' = profile' => entry' = Rotation
    BY <1>4 DEF DriverInit, Reset, InitProfile, SetProfileFails, ClearBlack, ClearRed, Orient,
                SetOrientation, Show, RefreshFails, Goto, Fail, Initialising
  <2>3. pc' \notin {"idle", "profile", "window"} \cup Drawing
    BY <2>1 DEF NotInUse, Initialising, Drawing
  <2> USE <1>1, <1>2, <2>1, <2>3 DEF PathInv, trust
  <2>4. Control'
    BY DEF Control
  <2>5. Starting'
    BY DEF Starting, NotInUse
  <2>6. Believed'
    BY <2>2, <2>3 DEF Believed, Drawing
  <2>7. PartialUpdate'
    BY <2>3 DEF PartialUpdate, Idle, Drawing
  <2>8. FullUpdate'
    BY <2>3 DEF FullUpdate, Drawing
  <2> QED
    BY <2>4, <2>5, <2>6, <2>7, <2>8
<1> QED
  BY <1>3, <1>4

LEMMA PathInvKept ==
    ASSUME PathBase, PathInv, [PathNext]_pathVars PROVE PathInv'
<1>1. CASE UNCHANGED pathVars
  BY <1>1 DEF pathVars, vars, trust, driverVars, registers, planes, PathInv, Control, Starting,
              Believed, PartialUpdate, FullUpdate, Even, Shows, Idle
<1> QED
  BY <1>1, PathUpdate, PathBlankingOn, PathFlush, PathFlushing, PathBlankingOff, PathBoot,
     PathDriverInit DEF PathNext

LEMMA PathInvInitially == PathInit => PathInv
BY DEF PathInit, Init, PathInv, Control, Starting, Believed, PartialUpdate, FullUpdate, NotInUse,
       Initialising, Drawing, Idle

(* For every panel, orientation and set of pictures, whichever transfers   *)
(* fail and whenever the device restarts: the panel shows the picture that *)
(* was sent last from the first success after a start on, and after a      *)
(* failure again from the next full update on that meets no failed partial *)
(* update.                                                                 *)
THEOREM TrustIsJustified ==
    ASSUME Screen \in Rects
    PROVE  PathSpec => []TrustJustified
<1>1. PathInit => Drawn
  BY DEF PathInit, Drawn
<1>2. Drawn /\ [PathNext]_pathVars => Drawn'
  BY DrawnKept
<1>3. Spec => [](Registered /\ Aimed)
  <2>1. Init => Registered /\ Windowed /\ Aimed
    BY InitAimed DEF Init, Registered, Windowed, Orientations
  <2>2. IInv /\ Registered /\ Windowed /\ Aimed /\ [Next]_vars
        => (Registered /\ Windowed /\ Aimed)'
    BY RegistersStep, AimedStep DEF IInv
  <2> QED
    BY <2>1, <2>2, IInvHolds, PTL DEF Spec
<1>4. PathSpec => Spec
  BY UpdatesUseDriver
<1>5. IInv /\ Registered /\ Aimed /\ Drawn => PathBase
  BY DEF PathBase
<1>6. PathInv => TrustJustified
  BY DEF PathInv, PartialUpdate, TrustJustified, Shows
<1> QED
  BY <1>1, <1>2, <1>3, <1>4, <1>5, <1>6, IInvHolds, PathInvInitially, PathInvKept, PTL
     DEF PathSpec

=============================================================================
