--------------------------- MODULE EscapeGrammar ---------------------------
(***************************************************************************)
(* What flanterm_putchar (kernel/src/ft/flanterm.c) makes of a stream of   *)
(* bytes: which are text, which belong to an escape sequence, a control    *)
(* sequence or an operating system command, and where each of these ends.  *)
(* One mode at a time; EscapeParser keeps it in flags.                     *)
(***************************************************************************)
EXTENDS Naturals

VARIABLES
  mode,
  private,    \* the sequence, or a cancelled one before it, began with '?'
  wanted,     \* bytes a multi-byte character still wants
  shown       \* the last byte put a character on the screen

vars == <<mode, private, wanted, shown>>

Modes == {"text", "escape", "first", "csi", "skip", "osc", "osc_escape", "designate", "discard"}

\* Bytes by what the parser tells apart.  A lead byte wants as many bytes more
\* as its number says; "cont" is 0x80 to 0xBF; "can" is CAN or SUB, "control" any
\* other control character that is not shown, "(" also ')'; "known" is a letter
\* that control_sequence_parse handles, "unknown" another; "other" is any other
\* byte, of which 0xF8 to 0xFF belong to no multi-byte character.
Leads  == {"lead1", "lead2", "lead3"}
Wants(b) == IF b = "lead1" THEN 1 ELSE IF b = "lead2" THEN 2 ELSE 3

Parameters == {"digit", ";"}
Known  == {"known", "c", "]"}
Finals == Known \cup {"[", "\\", "unknown"}                \* 0x40 to 0x7E
Printables == Parameters \cup Finals \cup {"?", "(", "cont", "other"}
Bytes == Printables \cup Leads \cup {"can", "esc", "bel", "control"}

Init == mode = "text" /\ private = FALSE /\ wanted = 0 /\ shown = FALSE

Cancel(b) ==
  /\ b = "can" \/ mode = "discard"
  /\ mode' = "text" /\ wanted' = 0 /\ shown' = FALSE
  /\ UNCHANGED private

Single(b) == b \notin Leads \cup {"can"} /\ mode # "discard" /\ ~(wanted > 0 /\ b = "cont")

\* A multi-byte character goes to the screen in every mode, unless it has no width.
MultiByte(b) ==
  /\ mode # "discard"
  /\ \/ b \in Leads /\ wanted' = Wants(b) /\ shown' = FALSE
     \/ /\ b = "cont" /\ wanted > 0 /\ wanted' = wanted - 1
        /\ shown' \in BOOLEAN /\ (shown' => wanted' = 0)
  /\ UNCHANGED <<mode, private>>

Silently == wanted' = 0 /\ shown' = FALSE

Text(b) ==
  /\ Single(b) /\ mode = "text"
  /\ mode' = IF b = "esc" THEN "escape" ELSE "text"
  /\ shown' = (b \in Printables)
  /\ wanted' = 0 /\ UNCHANGED private

\* ESC \ ends a command; any other byte there is one after ESC.
Escape(b) ==
  /\ Single(b) /\ mode \in {"escape", "osc_escape"}
  /\ \/ b = "[" /\ mode' = IF mode = "escape" THEN "first" ELSE "csi"
     \/ b = "]" /\ mode' = "osc"
     \/ b = "(" /\ mode' = "designate"
     \/ b \notin {"[", "]", "("} /\ mode' = "text"
  /\ private' = (private /\ b # "c")
  /\ Silently

Designate(b) ==
  /\ Single(b) /\ mode = "designate"
  /\ mode' = "text" /\ Silently /\ UNCHANGED private

Command(b) ==
  /\ Single(b) /\ mode = "osc"
  /\ \/ b = "esc" /\ mode' = "osc_escape"
     \/ b = "bel" /\ mode' = "text"
     \/ b \notin {"esc", "bel"} /\ mode' = "osc"
  /\ Silently /\ UNCHANGED private

\* The byte right after CSI may be a '?', or a '[' that eats the byte after it.
First(b) ==
  /\ Single(b) /\ mode = "first" /\ b \in {"[", "?"}
  /\ mode' = IF b = "[" THEN "discard" ELSE "csi"
  /\ private' = (private \/ b = "?")
  /\ Silently

\* A final byte that is not known does not end the sequence: the next one does.
Control(b) ==
  /\ Single(b)
  /\ mode = "csi" \/ (mode = "first" /\ b \notin {"[", "?"})
  /\ \/ b \in Parameters /\ mode' = "csi"
     \/ b \notin Parameters /\ (private \/ b \in Known) /\ mode' = "text"
     \/ b \notin Parameters \cup Known /\ ~private
        /\ mode' = IF b = "esc" THEN "csi" ELSE "skip"
  /\ private' = (private /\ b \in Parameters)
  /\ Silently

Skip(b) ==
  /\ Single(b) /\ mode = "skip"
  /\ mode' = IF b \in Finals THEN "text" ELSE "skip"
  /\ Silently /\ UNCHANGED private

Next == \E b \in Bytes :
  \/ Cancel(b) \/ MultiByte(b) \/ Text(b) \/ Escape(b) \/ Designate(b)
  \/ Command(b) \/ First(b) \/ Control(b) \/ Skip(b)

Spec == Init /\ [][Next]_vars
=============================================================================
