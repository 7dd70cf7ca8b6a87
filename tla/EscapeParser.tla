---------------------------- MODULE EscapeParser ----------------------------
(***************************************************************************)
(* How flanterm_putchar, escape_parse, osc_parse and control_sequence_parse *)
(* (kernel/src/ft/flanterm.c) tell the bytes of a stream apart, in flags.  *)
(* What a whole character or sequence then does to the screen is Terminal. *)
(***************************************************************************)
EXTENDS Naturals

CONSTANT MAX_ESC_VALUES            \* FLANTERM_MAX_ESC_VALUES, 16

ASSUME EscapeParserAssumption == MAX_ESC_VALUES \in Nat /\ MAX_ESC_VALUES > 0

VARIABLES
  escape, control_sequence, osc, osc_escape, discard_next, g_select,
  escape_offset,                   \* counted to 3: the code asks for 2
  rrr, esc_values_i, dec_private, csi_unhandled,
  unicode_remaining,
  shown,                           \* the byte put a character on the screen
  question, cut,                   \* history: see PrivateAsWritten
  restart                          \* history: ESC came in the open control sequence

flags    == <<escape, control_sequence, osc, osc_escape, discard_next, g_select>>
sequence == <<rrr, esc_values_i, dec_private, csi_unhandled>>
history  == <<question, cut, restart>>
vars     == <<flags, escape_offset, sequence, unicode_remaining, shown, history>>

SequenceMode ==
  IF csi_unhandled THEN "skip" ELSE IF escape_offset = 1 THEN "first" ELSE "csi"

Mode ==
  IF discard_next THEN "discard"
  ELSE IF osc_escape THEN "osc_escape"
  ELSE IF osc THEN "osc"
  ELSE IF control_sequence THEN SequenceMode
  ELSE IF escape THEN "escape"
  ELSE IF g_select # 0 THEN "designate" ELSE "text"

Grammar == INSTANCE EscapeGrammar
             WITH mode <- Mode, private <- dec_private, wanted <- unicode_remaining

Bytes == Grammar!Bytes

-----------------------------------------------------------------------------
Init ==
  /\ escape = FALSE /\ control_sequence = FALSE /\ osc = FALSE /\ osc_escape = FALSE
  /\ discard_next = FALSE /\ g_select = 0
  /\ escape_offset = 0
  /\ rrr = FALSE /\ esc_values_i = 0 /\ dec_private = FALSE /\ csi_unhandled = FALSE
  /\ unicode_remaining = 0 /\ shown = FALSE
  /\ question = FALSE /\ cut = FALSE /\ restart = FALSE

(* flanterm_putchar.                                                       *)

\* No sequence is open.
Ground ==
  /\ escape' = FALSE /\ control_sequence' = FALSE /\ osc' = FALSE /\ osc_escape' = FALSE
  /\ discard_next' = FALSE /\ g_select' = 0

Cancel(b) ==
  /\ discard_next \/ b = "can"
  /\ Ground
  /\ unicode_remaining' = 0 /\ shown' = FALSE
  /\ cut' = dec_private
  /\ UNCHANGED <<escape_offset, sequence, question, restart>>

\* A byte that is not the next one of a multi-byte character drops that one.
Continuation(b) == unicode_remaining # 0 /\ b = "cont"

\* The last byte shows the character, unless it has no width.
Continue(b) ==
  /\ ~discard_next /\ Continuation(b)
  /\ unicode_remaining' = unicode_remaining - 1
  /\ shown' \in IF unicode_remaining' = 0 THEN BOOLEAN ELSE {FALSE}
  /\ UNCHANGED <<flags, escape_offset, sequence, history>>

Lead(b) ==
  /\ ~discard_next /\ b \in Grammar!Leads
  /\ unicode_remaining' = Grammar!Wants(b) /\ shown' = FALSE
  /\ UNCHANGED <<flags, escape_offset, sequence, history>>

Parsed(b) ==
  /\ ~discard_next /\ b # "can" /\ b \notin Grammar!Leads /\ ~Continuation(b)
  /\ unicode_remaining' = 0

Designator(b) ==
  /\ Parsed(b) /\ ~escape /\ g_select # 0
  /\ g_select' = 0 /\ shown' = FALSE
  /\ UNCHANGED <<escape, control_sequence, osc, osc_escape, discard_next,
                 escape_offset, sequence, history>>

Text(b) ==
  /\ Parsed(b) /\ ~escape /\ g_select = 0
  /\ escape' = (b = "esc")
  /\ escape_offset' = IF b = "esc" THEN 0 ELSE escape_offset
  /\ shown' = (b \in Grammar!Printables)
  /\ UNCHANGED <<control_sequence, osc, osc_escape, discard_next, g_select, sequence, history>>

-----------------------------------------------------------------------------
(* escape_parse.                                                           *)

Offset == IF escape_offset < 3 THEN escape_offset + 1 ELSE 3

Escaped(b) == Parsed(b) /\ escape /\ escape_offset' = Offset /\ shown' = FALSE

OscByte(b) ==
  /\ Escaped(b) /\ osc /\ ~osc_escape
  /\ osc_escape' = (b = "esc")
  /\ osc' = (b # "bel") /\ escape' = (b # "bel")
  /\ UNCHANGED <<control_sequence, discard_next, g_select, sequence, history>>

OscEnd(b) ==
  /\ Escaped(b) /\ osc_escape /\ b = "\\"
  /\ osc' = FALSE /\ osc_escape' = FALSE /\ escape' = FALSE
  /\ UNCHANGED <<control_sequence, discard_next, g_select, sequence, history>>

\* The byte after ESC, or after an ESC in a command that is not followed by '\'.
Switched(b) ==
  /\ Escaped(b)
  /\ (osc => osc_escape /\ b # "\\") /\ ~control_sequence
  /\ osc_escape' = FALSE

\* Mutant: a cancelled sequence that was being skipped is not forgotten.
EscBracket_Stale(b) ==
  /\ Switched(b) /\ b = "["
  /\ control_sequence' = TRUE /\ osc' = FALSE
  /\ esc_values_i' = 0 /\ rrr' = FALSE
  /\ question' = FALSE /\ restart' = FALSE
  /\ UNCHANGED <<escape, discard_next, g_select, dec_private, csi_unhandled, cut>>

EscBracket(b) ==
  /\ Switched(b) /\ b = "["
  /\ control_sequence' = TRUE /\ osc' = FALSE
  /\ esc_values_i' = 0 /\ rrr' = FALSE /\ csi_unhandled' = FALSE
  /\ question' = FALSE /\ restart' = FALSE
  /\ UNCHANGED <<escape, discard_next, g_select, dec_private, cut>>

EscCommand(b) ==
  /\ Switched(b) /\ b = "]"
  /\ osc' = TRUE
  /\ UNCHANGED <<escape, control_sequence, discard_next, g_select, sequence, history>>

EscReset(b) ==
  /\ Parsed(b) /\ escape /\ shown' = FALSE /\ b = "c"
  /\ (osc => osc_escape) /\ ~control_sequence
  /\ Ground /\ escape_offset' = 0
  /\ rrr' = FALSE /\ esc_values_i' = 0 /\ dec_private' = FALSE /\ csi_unhandled' = FALSE
  /\ cut' = FALSE /\ UNCHANGED <<question, restart>>

EscOther(b) ==
  /\ Switched(b) /\ b \notin {"[", "]", "c"}
  /\ escape' = FALSE /\ osc' = FALSE
  /\ IF b = "(" THEN g_select' \in {1, 2} ELSE UNCHANGED g_select
  /\ UNCHANGED <<control_sequence, discard_next, sequence, history>>

-----------------------------------------------------------------------------
(* control_sequence_parse.                                                 *)

InSequence(b) ==
  /\ Escaped(b) /\ control_sequence /\ ~osc
  /\ UNCHANGED <<osc, osc_escape, g_select>>

Cleanup == control_sequence' = FALSE /\ escape' = FALSE
Stay    == UNCHANGED <<control_sequence, escape>>

\* The first byte.
CsiEat(b) ==
  /\ InSequence(b) /\ Offset = 2 /\ b = "["
  /\ discard_next' = TRUE /\ Cleanup
  /\ UNCHANGED <<sequence, history>>

CsiPrivate(b) ==
  /\ InSequence(b) /\ Offset = 2 /\ b = "?"
  /\ dec_private' = TRUE /\ question' = TRUE
  /\ Stay /\ UNCHANGED <<discard_next, rrr, esc_values_i, csi_unhandled, cut, restart>>

\* Mutant: a digit that finds the values full still starts one.
CsiDigit_Over(b) ==
  /\ InSequence(b) /\ b = "digit"
  /\ rrr' = TRUE
  /\ Stay /\ UNCHANGED <<discard_next, esc_values_i, dec_private, csi_unhandled, history>>

CsiDigit(b) ==
  /\ InSequence(b) /\ b = "digit"
  /\ \/ esc_values_i < MAX_ESC_VALUES /\ rrr' = TRUE
     \/ esc_values_i = MAX_ESC_VALUES /\ UNCHANGED rrr
  /\ Stay /\ UNCHANGED <<discard_next, esc_values_i, dec_private, csi_unhandled, history>>

CsiSemicolon(b) ==
  /\ InSequence(b) /\ b = ";"
  /\ rrr' = FALSE
  /\ \/ (rrr \/ esc_values_i < MAX_ESC_VALUES) /\ esc_values_i' = esc_values_i + 1
     \/ ~rrr /\ esc_values_i = MAX_ESC_VALUES /\ UNCHANGED esc_values_i
  /\ Stay /\ UNCHANGED <<discard_next, dec_private, csi_unhandled, history>>

\* Any other byte first ends the value that digits began.
Final(b) ==
  /\ InSequence(b)
  /\ b \notin Grammar!Parameters /\ ~(Offset = 2 /\ b \in {"[", "?"})
  /\ esc_values_i' = IF rrr THEN esc_values_i + 1 ELSE esc_values_i
  /\ rrr' = FALSE /\ UNCHANGED <<discard_next, question>>

\* Mutant: the end of a private sequence does not forget that it was one.
CsiPrivateEnd_Keep(b) ==
  /\ Final(b) /\ dec_private
  /\ cut' = FALSE /\ Cleanup
  /\ UNCHANGED <<dec_private, csi_unhandled, restart>>

CsiPrivateEnd(b) ==
  /\ Final(b) /\ dec_private
  /\ dec_private' = FALSE /\ cut' = FALSE /\ Cleanup
  /\ UNCHANGED <<csi_unhandled, restart>>

CsiSkip(b) ==
  /\ Final(b) /\ ~dec_private /\ csi_unhandled
  /\ \/ b \in Grammar!Finals /\ csi_unhandled' = FALSE /\ Cleanup
     \/ b \notin Grammar!Finals /\ UNCHANGED csi_unhandled /\ Stay
  /\ UNCHANGED <<dec_private, cut, restart>>

CsiKnown(b) ==
  /\ Final(b) /\ ~dec_private /\ ~csi_unhandled /\ b \in Grammar!Known
  /\ Cleanup /\ UNCHANGED <<csi_unhandled, dec_private, cut, restart>>

\* ESC only returns: the sequence stays open.
CsiEsc(b) ==
  /\ Final(b) /\ ~dec_private /\ ~csi_unhandled /\ b = "esc"
  /\ restart' = TRUE
  /\ Stay /\ UNCHANGED <<csi_unhandled, dec_private, cut>>

\* A byte without a case.
CsiUnhandled(b) ==
  /\ Final(b) /\ ~dec_private /\ ~csi_unhandled /\ b \notin Grammar!Known \cup {"esc"}
  /\ csi_unhandled' = TRUE
  /\ Stay /\ UNCHANGED <<dec_private, cut, restart>>

Putchar(b) == Cancel(b) \/ Continue(b) \/ Lead(b) \/ Designator(b) \/ Text(b)
EscapeParse(b) ==
  OscByte(b) \/ OscEnd(b) \/ EscBracket(b) \/ EscCommand(b) \/ EscReset(b) \/ EscOther(b)
ControlSequenceParse(b) ==
  \/ CsiEat(b) \/ CsiPrivate(b) \/ CsiDigit(b) \/ CsiSemicolon(b)
  \/ CsiPrivateEnd(b) \/ CsiSkip(b) \/ CsiKnown(b) \/ CsiEsc(b) \/ CsiUnhandled(b)

Next == \E b \in Bytes : Putchar(b) \/ EscapeParse(b) \/ ControlSequenceParse(b)

Spec == Init /\ [][Next]_vars

-----------------------------------------------------------------------------
TypeOK ==
  /\ flags \in BOOLEAN \X BOOLEAN \X BOOLEAN \X BOOLEAN \X BOOLEAN \X (0..2)
  /\ escape_offset \in 0..3
  /\ sequence \in BOOLEAN \X (0..MAX_ESC_VALUES) \X BOOLEAN \X BOOLEAN
  /\ unicode_remaining \in 0..3 /\ shown \in BOOLEAN
  /\ history \in BOOLEAN \X BOOLEAN \X BOOLEAN

\* However long the parameters are, digits go to a value of the array: the next
\* one to write exists, also after bytes that are skipped and values cut short.
ValuesInBounds == esc_values_i <= MAX_ESC_VALUES /\ (rrr => esc_values_i < MAX_ESC_VALUES)

\* A control sequence is read as a private one exactly if its first byte is a '?'.
\* One that CAN cut off leaves its mark on the next sequence; one after a command
\* that ESC ended is not seen to be private, and is skipped.
PrivateAsWritten ==
  control_sequence /\ ~csi_unhandled /\ ~cut => (dec_private <=> question)

\* The flags encode one mode at a time: for each byte the parser does what
\* EscapeGrammar says, shows it as text only there, and returns to text there.
\* Where a control sequence ends is in the grammar as the code has it, and not as
\* its comments do: see RestartsOrEnds.
KeepsGrammar == Grammar!Spec

(* What the comments say, and the code does not do.                        *)

\* "Got ESC in the middle of an escape sequence, start a new one": a '[' that
\* comes after it begins a control sequence.  Or at least, as "CSI sequences are
\* terminated by a byte in [0x40,0x7E]", it ends the one that is open.
RestartsOrEnds ==
  [][\A b \in Bytes :
       ControlSequenceParse(b) /\ b = "[" /\ restart => Mode' \in {"first", "text"}]_vars
=============================================================================
