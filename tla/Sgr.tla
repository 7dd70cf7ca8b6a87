-------------------------------- MODULE Sgr --------------------------------
(***************************************************************************)
(* The colours text is written in: sgr, save_state, restore_state and the  *)
(* colours' part of flanterm_context_reinit (kernel/src/ft/flanterm.c),    *)
(* and the colour calls of the framebuffer back end (fb.c).                *)
(*                                                                         *)
(* One action is one iteration of sgr's loop over the parameters, so that  *)
(* a sequence is several steps.  A parameter list that ends in the middle  *)
(* of 38 or 48, or has neither 2 nor 5 after them, changes nothing.        *)
(***************************************************************************)
EXTENDS Integers

CONSTANTS
  Palette,   \* 0..7: indices of ansi_colours and ansi_bright_colours
  Mixed      \* colours of 38;2 and of 38;5;16 to 38;5;255

ASSUME PaletteAssumption == Palette \subseteq Nat /\ 0 \in Palette

VARIABLES
  text_fg, text_bg,             \* what is drawn (back end)
  current_primary, current_bg,  \* the last colour of the palette selected
  bold, bg_bold, reverse_video,
  saved,                        \* saved_state_*
  loose                         \* history: see ColoursAsSelected

flags == <<current_primary, current_bg, bold, bg_bold, reverse_video>>
text  == <<text_fg, text_bg>>
vars  == <<text, flags, saved, loose>>

None == -1                      \* (size_t)-1: the default colour

Transparent == <<"transparent", 0>>      \* 0xffffffff
DefaultFg(bright) == <<IF bright THEN "default_fg_bright" ELSE "default_fg", 0>>
DefaultBg(bright) == IF bright THEN <<"default_bg_bright", 0>> ELSE Transparent
Shade(bright, n)  == <<IF bright THEN "bright" ELSE "ansi", n>>

Defaults == {Transparent, DefaultFg(TRUE), DefaultFg(FALSE), DefaultBg(TRUE)}
Colours  == Defaults \cup ({"ansi", "bright"} \X Palette) \cup ({"rgb"} \X Mixed)

\* Zeroed memory: black on black, both selected from the palette.
NeverSaved ==
  [text_fg |-> Shade(FALSE, 0), text_bg |-> Shade(FALSE, 0),
   primary |-> 0, bg |-> 0, bold |-> FALSE, bg_bold |-> FALSE, reverse |-> FALSE,
   loose |-> {}]

Init ==
  /\ text_fg = DefaultFg(FALSE) /\ text_bg = Transparent
  /\ current_primary = None /\ current_bg = None
  /\ bold = FALSE /\ bg_bold = FALSE /\ reverse_video = FALSE
  /\ saved = NeverSaved
  /\ loose = {}

-----------------------------------------------------------------------------
(* A foreground selection is drawn as the background in reverse video, and *)
(* the other way round.                                                    *)

DrawFront(normal, reversed) ==
  \/ ~reverse_video /\ text_fg' = normal /\ UNCHANGED text_bg
  \/ reverse_video /\ text_bg' = reversed /\ UNCHANGED text_fg

DrawBack(normal, reversed) ==
  \/ ~reverse_video /\ text_bg' = normal /\ UNCHANGED text_fg
  \/ reverse_video /\ text_fg' = reversed /\ UNCHANGED text_bg

SwapPalette == text_fg' = text_bg /\ text_bg' = text_fg

\* 0, or no parameter.
Reset ==
  /\ text_fg' = DefaultFg(FALSE) /\ text_bg' = Transparent
  /\ current_primary' = None /\ current_bg' = None
  /\ bold' = FALSE /\ bg_bold' = FALSE /\ reverse_video' = FALSE
  /\ loose' = {}
  /\ UNCHANGED saved

\* 1 and 22.  In reverse video the default colour is taken from the wrong side.
Intensity(b) ==
  /\ bold' = b
  /\ \/ /\ current_primary # None
        /\ DrawFront(Shade(b, current_primary), Shade(b, current_primary))
        /\ loose' = loose \ {"fg"}
     \/ /\ current_primary = None
        /\ DrawFront(DefaultFg(b), DefaultBg(b))
        /\ loose' = IF reverse_video THEN loose \cup {"fg"} ELSE loose \ {"fg"}
  /\ UNCHANGED <<current_primary, current_bg, bg_bold, reverse_video, saved>>

\* 5 and 25.
Blink(b) ==
  /\ bg_bold' = b
  /\ \/ /\ current_bg # None
        /\ DrawBack(Shade(b, current_bg), Shade(b, current_bg))
        /\ loose' = loose \ {"bg"}
     \/ /\ current_bg = None
        /\ DrawBack(DefaultBg(b), DefaultFg(b))
        /\ loose' = IF reverse_video THEN loose \cup {"bg"} ELSE loose \ {"bg"}
  /\ UNCHANGED <<current_primary, current_bg, bold, reverse_video, saved>>

FrontOnly(n) ==
  /\ current_primary' = n /\ loose' = loose \ {"fg"}
  /\ UNCHANGED <<current_bg, bold, bg_bold, reverse_video, saved>>

BackOnly(n) ==
  /\ current_bg' = n /\ loose' = loose \ {"bg"}
  /\ UNCHANGED <<current_primary, bold, bg_bold, reverse_video, saved>>

\* Mutant: in reverse video the other side's boldness decides.
Foreground_WrongBold(n) ==
  DrawFront(Shade(bold, n), Shade(bg_bold, n)) /\ FrontOnly(n)

\* 30 to 37, 40 to 47, 90 to 97, 100 to 107.
Foreground(n) == DrawFront(Shade(bold, n), Shade(bold, n)) /\ FrontOnly(n)

Background(n) == DrawBack(Shade(bg_bold, n), Shade(bg_bold, n)) /\ BackOnly(n)

BrightForeground(n) == DrawFront(Shade(TRUE, n), Shade(TRUE, n)) /\ FrontOnly(n)

BrightBackground(n) == DrawBack(Shade(TRUE, n), Shade(TRUE, n)) /\ BackOnly(n)

\* Mutant: the colours are not swapped back.
DefaultForeground_Half ==
  /\ \/ ~reverse_video /\ text_fg' = DefaultFg(bold) /\ UNCHANGED text_bg
     \/ reverse_video /\ text_fg' = DefaultFg(bold) /\ text_bg' = text_fg
  /\ FrontOnly(None)

\* 39 and 49 set the default colour between two swaps.
DefaultForeground == DrawFront(DefaultFg(bold), DefaultFg(bold)) /\ FrontOnly(None)

DefaultBackground == DrawBack(DefaultBg(bg_bold), DefaultBg(bg_bold)) /\ BackOnly(None)

\* 7 and 27.
Reverse(on) ==
  /\ reverse_video # on /\ reverse_video' = on
  /\ SwapPalette
  /\ UNCHANGED <<current_primary, current_bg, bold, bg_bold, saved, loose>>

DirectColours == ({"ansi", "bright"} \X Palette) \cup ({"rgb"} \X Mixed)

\* 38 and 48 go to what is drawn, also in reverse video, and select nothing that
\* a later 1, 5, 22 or 25 would remember.
DirectForeground(c) ==
  /\ text_fg' = c
  /\ loose' = loose \cup {IF reverse_video THEN "bg" ELSE "fg"}
  /\ UNCHANGED <<text_bg, flags, saved>>

DirectBackground(c) ==
  /\ text_bg' = c
  /\ loose' = loose \cup {IF reverse_video THEN "fg" ELSE "bg"}
  /\ UNCHANGED <<text_fg, flags, saved>>

-----------------------------------------------------------------------------
(* ESC 7, ESC 8 and ESC c.                                                 *)

SaveState ==
  /\ saved' = [text_fg |-> text_fg, text_bg |-> text_bg,
               primary |-> current_primary, bg |-> current_bg,
               bold |-> bold, bg_bold |-> bg_bold, reverse |-> reverse_video,
               loose |-> loose]
  /\ UNCHANGED <<text, flags, loose>>

RestoreState ==
  /\ text_fg' = saved.text_fg /\ text_bg' = saved.text_bg
  /\ current_primary' = saved.primary /\ current_bg' = saved.bg
  /\ bold' = saved.bold /\ bg_bold' = saved.bg_bold /\ reverse_video' = saved.reverse
  /\ loose' = saved.loose
  /\ UNCHANGED saved

\* The flags forget what was selected; the colours stay as they are drawn.
Reinit ==
  /\ current_primary' = None /\ current_bg' = None
  /\ bold' = FALSE /\ bg_bold' = FALSE /\ reverse_video' = FALSE
  /\ loose' = {"fg", "bg"}
  /\ UNCHANGED <<text, saved>>

Parameter ==
  \/ Reset
  \/ \E b \in BOOLEAN : Intensity(b) \/ Blink(b) \/ Reverse(b)
  \/ \E n \in Palette : \/ Foreground(n) \/ Background(n)
                        \/ BrightForeground(n) \/ BrightBackground(n)
  \/ DefaultForeground \/ DefaultBackground
  \/ \E c \in DirectColours : DirectForeground(c) \/ DirectBackground(c)

Next == Parameter \/ SaveState \/ RestoreState \/ Reinit

Spec == Init /\ [][Next]_vars

-----------------------------------------------------------------------------
Sides == {"fg", "bg"}

Saved == [text_fg : Colours, text_bg : Colours,
          primary : Palette \cup {None}, bg : Palette \cup {None},
          bold : BOOLEAN, bg_bold : BOOLEAN, reverse : BOOLEAN, loose : SUBSET Sides]

TypeOK ==
  /\ text_fg \in Colours /\ text_bg \in Colours
  /\ current_primary \in Palette \cup {None} /\ current_bg \in Palette \cup {None}
  /\ bold \in BOOLEAN /\ bg_bold \in BOOLEAN /\ reverse_video \in BOOLEAN
  /\ saved \in Saved
  /\ loose \in SUBSET Sides

Front == IF reverse_video THEN text_bg ELSE text_fg
Back  == IF reverse_video THEN text_fg ELSE text_bg

\* What the flags say of each side.  A colour chosen as bright is bright without
\* being bold.
FrontColours(n, bright) ==
  IF n = None THEN {DefaultFg(bright)} ELSE {Shade(bright, n), Shade(TRUE, n)}

BackColours(n, bright) ==
  IF n = None THEN {DefaultBg(bright)} ELSE {Shade(bright, n), Shade(TRUE, n)}

\* Through any sequence of parameters, saves and restores, in reverse video or
\* not, text is drawn in the colours the flags of sgr say.  The exceptions leave
\* a side loose until the next selection for it: a direct colour; a 1, 5, 22 or
\* 25 on a default colour in reverse video; and ESC c.
ColoursAsSelected ==
  /\ "fg" \notin loose => Front \in FrontColours(current_primary, bold)
  /\ "bg" \notin loose => Back \in BackColours(current_bg, bg_bold)

ThePen == INSTANCE Pen WITH
  PlainFront <- DefaultFg(FALSE), PlainBack <- Transparent,
  front <- Front, back <- Back, turned <- reverse_video,
  kept <- IF saved.reverse THEN <<saved.text_bg, saved.text_fg, TRUE>>
          ELSE <<saved.text_fg, saved.text_bg, FALSE>>

\* Reverse video mixes up nothing: a parameter changes one side's colour, turning
\* twice changes none, and ESC 8 brings back exactly what ESC 7 saved.
IsAPen == ThePen!Spec
=============================================================================
