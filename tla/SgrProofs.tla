----------------------------- MODULE SgrProofs -----------------------------
(* Theorems about Sgr.                                                     *)
EXTENDS Sgr, TLAPS

SavedFront == IF saved.reverse THEN saved.text_bg ELSE saved.text_fg
SavedBack  == IF saved.reverse THEN saved.text_fg ELSE saved.text_bg

\* ColoursAsSelected of what ESC 7 saved.
SavedAsSelected ==
  /\ "fg" \notin saved.loose => SavedFront \in FrontColours(saved.primary, saved.bold)
  /\ "bg" \notin saved.loose => SavedBack \in BackColours(saved.bg, saved.bg_bold)

IInv == TypeOK /\ ColoursAsSelected /\ SavedAsSelected

-----------------------------------------------------------------------------
LEMMA ColourTypes ==
  /\ \A b \in BOOLEAN : DefaultFg(b) \in Colours /\ DefaultBg(b) \in Colours
  /\ \A b \in BOOLEAN, n \in Palette : Shade(b, n) \in Colours
  /\ Transparent \in Colours /\ DirectColours \subseteq Colours
  BY DEF Colours, Defaults, DefaultFg, DefaultBg, Shade, Transparent, DirectColours

LEMMA NoneIsNoColour == None \notin Palette
  BY PaletteAssumption DEF None

LEMMA SavedIsSaved == NeverSaved \in Saved
  BY ColourTypes, PaletteAssumption DEF NeverSaved, Saved, Sides

LEMMA InitType == Init => TypeOK
  BY ColourTypes, SavedIsSaved DEF Init, TypeOK, Sides, None

LEMMA TypeStep == TypeOK /\ [Next]_vars => TypeOK'
<1> SUFFICES ASSUME TypeOK, [Next]_vars PROVE TypeOK'
    OBVIOUS
<1> USE ColourTypes DEF TypeOK, Sides
<1>1. CASE Reset
  BY <1>1 DEF Reset
<1>2. ASSUME NEW b \in BOOLEAN, Intensity(b) PROVE TypeOK'
  BY <1>2 DEF Intensity, DrawFront
<1>3. ASSUME NEW b \in BOOLEAN, Blink(b) PROVE TypeOK'
  BY <1>3 DEF Blink, DrawBack
<1>4. ASSUME NEW b \in BOOLEAN, Reverse(b) PROVE TypeOK'
  BY <1>4 DEF Reverse, SwapPalette
<1>5. ASSUME NEW n \in Palette, Foreground(n) \/ BrightForeground(n) PROVE TypeOK'
  BY <1>5 DEF Foreground, BrightForeground, DrawFront, FrontOnly
<1>6. ASSUME NEW n \in Palette, Background(n) \/ BrightBackground(n) PROVE TypeOK'
  BY <1>6 DEF Background, BrightBackground, DrawBack, BackOnly
<1>7. CASE DefaultForeground
  BY <1>7 DEF DefaultForeground, DrawFront, FrontOnly
<1>8. CASE DefaultBackground
  BY <1>8 DEF DefaultBackground, DrawBack, BackOnly
<1>9. ASSUME NEW c \in DirectColours, DirectForeground(c) \/ DirectBackground(c) PROVE TypeOK'
  BY <1>9 DEF DirectForeground, DirectBackground, flags
<1>10. CASE SaveState
  BY <1>10 DEF SaveState, Saved, flags, text
<1>11. CASE RestoreState
  BY <1>11 DEF RestoreState, Saved
<1>12. CASE Reinit
  BY <1>12 DEF Reinit, text
<1>13. CASE UNCHANGED vars
  BY <1>13 DEF vars, text, flags
<1> QED BY <1>1, <1>2, <1>3, <1>4, <1>5, <1>6, <1>7, <1>8, <1>9, <1>10, <1>11, <1>12, <1>13
        DEF Next, Parameter

-----------------------------------------------------------------------------
LEMMA InitColours == Init => ColoursAsSelected /\ SavedAsSelected
<1> SUFFICES ASSUME Init PROVE ColoursAsSelected /\ SavedAsSelected
    OBVIOUS
<1>1. ColoursAsSelected
  BY DEF Init, ColoursAsSelected, Front, Back, FrontColours, BackColours,
         DefaultFg, DefaultBg, Transparent
<1>2. SavedAsSelected
  BY DEF Init, NeverSaved, SavedAsSelected, SavedFront, SavedBack,
         FrontColours, BackColours, None
<1> QED BY <1>1, <1>2

\* The colours' part of the step, one side at a time.
LEMMA ColoursStep == IInv /\ [Next]_vars => ColoursAsSelected'
<1> SUFFICES ASSUME IInv, [Next]_vars PROVE ColoursAsSelected'
    OBVIOUS
<1> USE NoneIsNoColour
    DEF IInv, TypeOK, ColoursAsSelected, Front, Back, FrontColours, BackColours, Sides
<1>1. CASE Reset
  BY <1>1 DEF Reset, DefaultFg, DefaultBg
<1>2. ASSUME NEW b \in BOOLEAN, Intensity(b) PROVE ColoursAsSelected'
  BY <1>2 DEF Intensity, DrawFront
<1>3. ASSUME NEW b \in BOOLEAN, Blink(b) PROVE ColoursAsSelected'
  BY <1>3 DEF Blink, DrawBack
<1>4. ASSUME NEW b \in BOOLEAN, Reverse(b) PROVE ColoursAsSelected'
  BY <1>4 DEF Reverse, SwapPalette
<1>5. ASSUME NEW n \in Palette, Foreground(n) \/ BrightForeground(n) PROVE ColoursAsSelected'
  <2>1. CASE Foreground(n)
    BY <2>1 DEF Foreground, DrawFront, FrontOnly
  <2>2. CASE BrightForeground(n)
    BY <2>2 DEF BrightForeground, DrawFront, FrontOnly
  <2> QED BY <1>5, <2>1, <2>2
<1>6. ASSUME NEW n \in Palette, Background(n) \/ BrightBackground(n) PROVE ColoursAsSelected'
  <2>1. CASE Background(n)
    BY <2>1 DEF Background, DrawBack, BackOnly
  <2>2. CASE BrightBackground(n)
    BY <2>2 DEF BrightBackground, DrawBack, BackOnly
  <2> QED BY <1>6, <2>1, <2>2
<1>7. CASE DefaultForeground
  BY <1>7 DEF DefaultForeground, DrawFront, FrontOnly
<1>8. CASE DefaultBackground
  BY <1>8 DEF DefaultBackground, DrawBack, BackOnly
<1>9. ASSUME NEW c \in DirectColours, DirectForeground(c) \/ DirectBackground(c)
      PROVE ColoursAsSelected'
  <2>1. CASE DirectForeground(c)
    BY <2>1 DEF DirectForeground, flags
  <2>2. CASE DirectBackground(c)
    BY <2>2 DEF DirectBackground, flags
  <2> QED BY <1>9, <2>1, <2>2
<1>10. CASE SaveState
  BY <1>10 DEF SaveState, flags, text
<1>11. CASE RestoreState
  BY <1>11 DEF RestoreState, Saved, SavedAsSelected, SavedFront, SavedBack
<1>12. CASE Reinit
  BY <1>12 DEF Reinit, text
<1>13. CASE UNCHANGED vars
  BY <1>13 DEF vars, text, flags
<1> QED BY <1>1, <1>2, <1>3, <1>4, <1>5, <1>6, <1>7, <1>8, <1>9, <1>10, <1>11, <1>12, <1>13
        DEF Next, Parameter

LEMMA SavedStep == IInv /\ [Next]_vars => SavedAsSelected'
<1> SUFFICES ASSUME IInv, [Next]_vars PROVE SavedAsSelected'
    OBVIOUS
<1>1. CASE SaveState
  BY <1>1 DEF SaveState, flags, text, IInv, ColoursAsSelected, SavedAsSelected,
              SavedFront, SavedBack, Front, Back, FrontColours, BackColours
<1>2. CASE UNCHANGED saved
  BY <1>2 DEF IInv, SavedAsSelected, SavedFront, SavedBack, FrontColours, BackColours
<1>3. SaveState \/ UNCHANGED saved
  BY DEF Next, Parameter, vars, Reset, Intensity, Blink, Reverse, Foreground, Background,
         BrightForeground, BrightBackground, DefaultForeground, DefaultBackground,
         DirectForeground, DirectBackground, FrontOnly, BackOnly, RestoreState, Reinit
<1> QED BY <1>1, <1>2, <1>3

LEMMA IInvSpec == Spec => []IInv
<1>1. Init => IInv
  BY InitType, InitColours DEF IInv
<1>2. IInv /\ [Next]_vars => IInv'
  BY TypeStep, ColoursStep, SavedStep DEF IInv
<1> QED BY <1>1, <1>2, PTL DEF Spec

\* Every colour drawn, selected or saved is one of the palette's, a mixed one or
\* a default: no selection of sgr reads behind the arrays of colours.
THEOREM TypeCorrect == Spec => []TypeOK
<1>1. IInv => TypeOK
  BY DEF IInv
<1> QED BY IInvSpec, <1>1, PTL

\* For every palette and every sequence of parameters, saves and restores, text is
\* drawn in the colours that sgr's flags say, but for the named exceptions.
THEOREM ColoursHold == Spec => []ColoursAsSelected
<1>1. IInv => ColoursAsSelected
  BY DEF IInv
<1> QED BY IInvSpec, <1>1, PTL

-----------------------------------------------------------------------------
Kept == IF saved.reverse THEN <<saved.text_bg, saved.text_fg, TRUE>>
        ELSE <<saved.text_fg, saved.text_bg, FALSE>>

LEMMA StepRefines == IInv /\ [Next]_vars => [ThePen!Next]_<<ThePen!pen, Kept>>
<1> SUFFICES ASSUME IInv, [Next]_vars PROVE [ThePen!Next]_<<ThePen!pen, Kept>>
    OBVIOUS
<1>t. TypeOK /\ TypeOK'
  BY TypeStep DEF IInv
<1> USE DEF ThePen!Next, ThePen!pen, Front, Back, Kept
<1>1. CASE Reset
  <2>1. ThePen!Plain
    BY <1>1 DEF Reset, ThePen!Plain
  <2> QED BY <2>1
<1>2. ASSUME NEW b \in BOOLEAN, Intensity(b) PROVE ThePen!PickFront
  BY <1>2, <1>t DEF Intensity, DrawFront, ThePen!PickFront, TypeOK
<1>3. ASSUME NEW b \in BOOLEAN, Blink(b) PROVE ThePen!PickBack
  BY <1>3, <1>t DEF Blink, DrawBack, ThePen!PickBack, TypeOK
<1>4. ASSUME NEW b \in BOOLEAN, Reverse(b) PROVE ThePen!Turn
  BY <1>4, <1>t DEF Reverse, SwapPalette, ThePen!Turn, TypeOK
<1>5. ASSUME NEW n \in Palette, Foreground(n) \/ BrightForeground(n) PROVE ThePen!PickFront
  BY <1>5, <1>t DEF Foreground, BrightForeground, DrawFront, FrontOnly, ThePen!PickFront, TypeOK
<1>6. ASSUME NEW n \in Palette, Background(n) \/ BrightBackground(n) PROVE ThePen!PickBack
  BY <1>6, <1>t DEF Background, BrightBackground, DrawBack, BackOnly, ThePen!PickBack, TypeOK
<1>7. CASE DefaultForeground
  <2>1. ThePen!PickFront
    BY <1>7, <1>t DEF DefaultForeground, DrawFront, FrontOnly, ThePen!PickFront, TypeOK
  <2> QED BY <2>1
<1>8. CASE DefaultBackground
  <2>1. ThePen!PickBack
    BY <1>8, <1>t DEF DefaultBackground, DrawBack, BackOnly, ThePen!PickBack, TypeOK
  <2> QED BY <2>1
<1>9. ASSUME NEW c \in DirectColours, DirectForeground(c) \/ DirectBackground(c)
      PROVE ThePen!PickFront \/ ThePen!PickBack
  BY <1>9, <1>t DEF DirectForeground, DirectBackground, flags, ThePen!PickFront,
                    ThePen!PickBack, TypeOK
<1>10. CASE SaveState
  <2>1. ThePen!Keep
    BY <1>10, <1>t DEF SaveState, flags, text, ThePen!Keep, TypeOK
  <2> QED BY <2>1
<1>11. CASE RestoreState
  <2>1. ThePen!GoBack
    BY <1>11, <1>t DEF RestoreState, ThePen!GoBack, TypeOK, Saved
  <2> QED BY <2>1
<1>12. CASE Reinit
  <2>1. ThePen!Adopt \/ UNCHANGED <<ThePen!pen, Kept>>
    BY <1>12, <1>t DEF Reinit, text, ThePen!Adopt, TypeOK
  <2> QED BY <2>1
<1>13. CASE UNCHANGED vars
  <2>1. UNCHANGED <<ThePen!pen, Kept>>
    BY <1>13 DEF vars, text, flags
  <2> QED BY <2>1
<1> QED BY <1>1, <1>2, <1>3, <1>4, <1>5, <1>6, <1>7, <1>8, <1>9, <1>10, <1>11, <1>12, <1>13
        DEF Next, Parameter

\* Sgr implements the pen: whatever the parameters, a step changes one side's
\* colour, turns the pen, puts both sides back, saves, or restores what was saved.
THEOREM ImplementsPen == Spec => IsAPen
<1>1. Init => ThePen!Init
  BY ColourTypes, SavedIsSaved DEF Init, ThePen!Init, Front, Back, NeverSaved, Shade, Saved
<1>2. IInv /\ [Next]_vars => [ThePen!Next]_<<ThePen!pen, Kept>>
  BY StepRefines
<1> QED BY IInvSpec, <1>1, <1>2, PTL DEF Spec, IsAPen, ThePen!Spec, Kept
=============================================================================
