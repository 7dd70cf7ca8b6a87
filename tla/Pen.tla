-------------------------------- MODULE Pen --------------------------------
(***************************************************************************)
(* What the colour sequences of a terminal promise: a pen has two colours  *)
(* and can be turned over.  Turning it changes no colour; one parameter    *)
(* changes one colour, or puts back both; and what is restored is what was *)
(* saved.  Which colour a parameter selects is Sgr.                        *)
(***************************************************************************)
CONSTANTS Colours, PlainFront, PlainBack

VARIABLES front, back,   \* the colours of text and of what is behind it
          turned,        \* drawn with the two exchanged
          kept           \* what ESC 7 saved

pen == <<front, back, turned>>

Init ==
  /\ front = PlainFront /\ back = PlainBack /\ turned = FALSE
  /\ kept \in Colours \X Colours \X {FALSE}

PickFront == front' \in Colours /\ UNCHANGED <<back, turned, kept>>
PickBack  == back' \in Colours /\ UNCHANGED <<front, turned, kept>>
Turn      == turned' = ~turned /\ UNCHANGED <<front, back, kept>>
Plain     == pen' = <<PlainFront, PlainBack, FALSE>> /\ UNCHANGED kept
Keep      == kept' = pen /\ UNCHANGED pen
GoBack    == pen' = kept /\ UNCHANGED kept

\* ESC c takes the colours that are drawn for those of an unturned pen.
Adopt ==
  /\ turned /\ turned' = FALSE
  /\ front' = back /\ back' = front
  /\ UNCHANGED kept

Next == PickFront \/ PickBack \/ Turn \/ Plain \/ Keep \/ GoBack \/ Adopt

Spec == Init /\ [][Next]_<<pen, kept>>
=============================================================================
