------------------------- MODULE EscapeParserProofs -------------------------
(* Theorems about EscapeParser.                                            *)
EXTENDS EscapeParser, TLAPS

Booleans ==
  /\ escape \in BOOLEAN /\ control_sequence \in BOOLEAN /\ osc \in BOOLEAN
  /\ osc_escape \in BOOLEAN /\ discard_next \in BOOLEAN
  /\ rrr \in BOOLEAN /\ dec_private \in BOOLEAN /\ csi_unhandled \in BOOLEAN
  /\ shown \in BOOLEAN /\ question \in BOOLEAN /\ cut \in BOOLEAN
  /\ restart \in BOOLEAN

Counters ==
  /\ g_select \in 0..2 /\ escape_offset \in 0..3 /\ unicode_remaining \in 0..3
  /\ esc_values_i \in 0..MAX_ESC_VALUES /\ (rrr => esc_values_i < MAX_ESC_VALUES)

\* The flags of at most one sequence are set, and escape_offset tells how far it is.
OneMode ==
  /\ control_sequence => escape /\ ~osc /\ escape_offset \in 1..3
  /\ osc => escape /\ escape_offset \in 1..3
  /\ osc_escape => osc /\ escape_offset \in 2..3
  /\ escape /\ ~osc /\ ~control_sequence => escape_offset = 0
  /\ escape => g_select = 0
  /\ discard_next => ~escape /\ g_select = 0
  /\ control_sequence /\ csi_unhandled => ~dec_private /\ escape_offset \in 2..3

\* Between sequences dec_private is left over only by CAN.
PrivateInv ==
  /\ PrivateAsWritten
  /\ ~control_sequence /\ ~cut => ~dec_private
  /\ control_sequence /\ escape_offset = 1 => ~question

IInv == Booleans /\ Counters /\ OneMode /\ PrivateInv

LEMMA InvImplies == IInv => TypeOK /\ ValuesInBounds /\ PrivateAsWritten
<1> SUFFICES ASSUME IInv PROVE TypeOK /\ ValuesInBounds /\ PrivateAsWritten
    OBVIOUS
<1>1. TypeOK
  BY DEF IInv, Booleans, Counters, TypeOK, flags, sequence, history
<1>2. ValuesInBounds
  BY EscapeParserAssumption DEF IInv, Counters, ValuesInBounds
<1> QED BY <1>1, <1>2 DEF IInv, PrivateInv

LEMMA InitInv == Init => IInv
<1> SUFFICES ASSUME Init PROVE IInv
    OBVIOUS
<1>1. Booleans
  BY DEF Init, Booleans
<1>2. Counters
  BY EscapeParserAssumption DEF Init, Counters
<1>3. OneMode /\ PrivateInv
  BY DEF Init, OneMode, PrivateInv, PrivateAsWritten
<1> QED BY <1>1, <1>2, <1>3 DEF IInv

LEMMA BooleansStep == Booleans /\ [Next]_vars => Booleans'
<1> SUFFICES ASSUME Booleans, [Next]_vars PROVE Booleans'
    OBVIOUS
<1> USE EscapeParserAssumption
    DEF Booleans, flags, sequence, history
<1>1. ASSUME NEW b \in Bytes, Cancel(b) PROVE Booleans'
  BY <1>1 DEF Cancel, Ground
<1>2. ASSUME NEW b \in Bytes, Continue(b) PROVE Booleans'
  BY <1>2 DEF Continue, Continuation
<1>3. ASSUME NEW b \in Bytes, Lead(b) PROVE Booleans'
  BY <1>3 DEF Lead, Grammar!Wants
<1>4. ASSUME NEW b \in Bytes, Designator(b) PROVE Booleans'
  BY <1>4 DEF Designator, Parsed
<1>5. ASSUME NEW b \in Bytes, Text(b) PROVE Booleans'
  BY <1>5 DEF Text, Parsed
<1> USE DEF Escaped, Offset, Parsed, Switched
<1>6. ASSUME NEW b \in Bytes, OscByte(b) PROVE Booleans'
  BY <1>6 DEF OscByte
<1>7. ASSUME NEW b \in Bytes, OscEnd(b) PROVE Booleans'
  BY <1>7 DEF OscEnd
<1>8. ASSUME NEW b \in Bytes, EscBracket(b) PROVE Booleans'
  BY <1>8 DEF EscBracket
<1>9. ASSUME NEW b \in Bytes, EscCommand(b) PROVE Booleans'
  BY <1>9 DEF EscCommand
<1>10. ASSUME NEW b \in Bytes, EscReset(b) PROVE Booleans'
  BY <1>10 DEF EscReset, Ground
<1>11. ASSUME NEW b \in Bytes, EscOther(b) PROVE Booleans'
  BY <1>11 DEF EscOther
<1> USE DEF InSequence, Cleanup, Stay, Final
<1>12. ASSUME NEW b \in Bytes, CsiEat(b) PROVE Booleans'
  BY <1>12 DEF CsiEat
<1>13. ASSUME NEW b \in Bytes, CsiPrivate(b) PROVE Booleans'
  BY <1>13 DEF CsiPrivate
<1>14. ASSUME NEW b \in Bytes, CsiDigit(b) PROVE Booleans'
  BY <1>14 DEF CsiDigit
<1>15. ASSUME NEW b \in Bytes, CsiSemicolon(b) PROVE Booleans'
  BY <1>15 DEF CsiSemicolon
<1>16. ASSUME NEW b \in Bytes, CsiPrivateEnd(b) PROVE Booleans'
  BY <1>16 DEF CsiPrivateEnd
<1>17. ASSUME NEW b \in Bytes, CsiSkip(b) PROVE Booleans'
  BY <1>17 DEF CsiSkip
<1>18. ASSUME NEW b \in Bytes, CsiKnown(b) PROVE Booleans'
  BY <1>18 DEF CsiKnown
<1>19. ASSUME NEW b \in Bytes, CsiUnhandled(b) PROVE Booleans'
  BY <1>19 DEF CsiUnhandled
<1>20. ASSUME NEW b \in Bytes, CsiEsc(b) PROVE Booleans'
  BY <1>20 DEF CsiEsc
<1>21. CASE UNCHANGED vars
  BY <1>21 DEF vars
<1> QED
  BY <1>1, <1>2, <1>3, <1>4, <1>5, <1>6, <1>7, <1>8, <1>9, <1>10, <1>11, <1>12,
     <1>13, <1>14, <1>15, <1>16, <1>17, <1>18, <1>19, <1>20, <1>21
     DEF Next, Putchar, EscapeParse, ControlSequenceParse

LEMMA CountersStep == Counters /\ [Next]_vars => Counters'
<1> SUFFICES ASSUME Counters, [Next]_vars PROVE Counters'
    OBVIOUS
<1> USE EscapeParserAssumption
    DEF Counters, flags, sequence, history
<1>1. ASSUME NEW b \in Bytes, Cancel(b) PROVE Counters'
  BY <1>1 DEF Cancel, Ground
<1>2. ASSUME NEW b \in Bytes, Continue(b) PROVE Counters'
  BY <1>2 DEF Continue, Continuation
<1>3. ASSUME NEW b \in Bytes, Lead(b) PROVE Counters'
  BY <1>3 DEF Lead, Grammar!Wants
<1>4. ASSUME NEW b \in Bytes, Designator(b) PROVE Counters'
  BY <1>4 DEF Designator, Parsed
<1>5. ASSUME NEW b \in Bytes, Text(b) PROVE Counters'
  BY <1>5 DEF Text, Parsed
<1> USE DEF Escaped, Offset, Parsed, Switched
<1>6. ASSUME NEW b \in Bytes, OscByte(b) PROVE Counters'
  BY <1>6 DEF OscByte
<1>7. ASSUME NEW b \in Bytes, OscEnd(b) PROVE Counters'
  BY <1>7 DEF OscEnd
<1>8. ASSUME NEW b \in Bytes, EscBracket(b) PROVE Counters'
  BY <1>8 DEF EscBracket
<1>9. ASSUME NEW b \in Bytes, EscCommand(b) PROVE Counters'
  BY <1>9 DEF EscCommand
<1>10. ASSUME NEW b \in Bytes, EscReset(b) PROVE Counters'
  BY <1>10 DEF EscReset, Ground
<1>11. ASSUME NEW b \in Bytes, EscOther(b) PROVE Counters'
  BY <1>11 DEF EscOther
<1> USE DEF InSequence, Cleanup, Stay, Final
<1>12. ASSUME NEW b \in Bytes, CsiEat(b) PROVE Counters'
  BY <1>12 DEF CsiEat
<1>13. ASSUME NEW b \in Bytes, CsiPrivate(b) PROVE Counters'
  BY <1>13 DEF CsiPrivate
<1>14. ASSUME NEW b \in Bytes, CsiDigit(b) PROVE Counters'
  BY <1>14 DEF CsiDigit
<1>15. ASSUME NEW b \in Bytes, CsiSemicolon(b) PROVE Counters'
  <2>1. g_select' = g_select /\ escape_offset' = Offset /\ unicode_remaining' = 0 /\ ~rrr'
    BY <1>15 DEF CsiSemicolon
  <2>2. esc_values_i' \in 0..MAX_ESC_VALUES
    <3>1. CASE esc_values_i < MAX_ESC_VALUES
      <4>1. esc_values_i' \in {esc_values_i, esc_values_i + 1}
        BY <1>15 DEF CsiSemicolon
      <4> QED BY <3>1, <4>1
    <3>2. CASE ~(esc_values_i < MAX_ESC_VALUES)
      <4>1. esc_values_i' = esc_values_i
        BY <1>15, <3>2 DEF CsiSemicolon
      <4> QED BY <4>1
    <3> QED BY <3>1, <3>2
  <2> QED BY <2>1, <2>2
<1>16. ASSUME NEW b \in Bytes, CsiPrivateEnd(b) PROVE Counters'
  BY <1>16 DEF CsiPrivateEnd
<1>17. ASSUME NEW b \in Bytes, CsiSkip(b) PROVE Counters'
  BY <1>17 DEF CsiSkip
<1>18. ASSUME NEW b \in Bytes, CsiKnown(b) PROVE Counters'
  BY <1>18 DEF CsiKnown
<1>19. ASSUME NEW b \in Bytes, CsiUnhandled(b) PROVE Counters'
  BY <1>19 DEF CsiUnhandled
<1>20. ASSUME NEW b \in Bytes, CsiEsc(b) PROVE Counters'
  BY <1>20 DEF CsiEsc
<1>21. CASE UNCHANGED vars
  BY <1>21 DEF vars
<1> QED
  BY <1>1, <1>2, <1>3, <1>4, <1>5, <1>6, <1>7, <1>8, <1>9, <1>10, <1>11, <1>12,
     <1>13, <1>14, <1>15, <1>16, <1>17, <1>18, <1>19, <1>20, <1>21
     DEF Next, Putchar, EscapeParse, ControlSequenceParse

LEMMA OneModeStep == Counters /\ OneMode /\ [Next]_vars => OneMode'
<1> SUFFICES ASSUME Counters /\ OneMode, [Next]_vars PROVE OneMode'
    OBVIOUS
<1> USE EscapeParserAssumption
    DEF Counters, OneMode, flags, sequence, history
<1>1. ASSUME NEW b \in Bytes, Cancel(b) PROVE OneMode'
  BY <1>1 DEF Cancel, Ground
<1>2. ASSUME NEW b \in Bytes, Continue(b) PROVE OneMode'
  BY <1>2 DEF Continue, Continuation
<1>3. ASSUME NEW b \in Bytes, Lead(b) PROVE OneMode'
  BY <1>3 DEF Lead, Grammar!Wants
<1>4. ASSUME NEW b \in Bytes, Designator(b) PROVE OneMode'
  BY <1>4 DEF Designator, Parsed
<1>5. ASSUME NEW b \in Bytes, Text(b) PROVE OneMode'
  BY <1>5 DEF Text, Parsed
<1> USE DEF Escaped, Offset, Parsed, Switched
<1>6. ASSUME NEW b \in Bytes, OscByte(b) PROVE OneMode'
  <2>1. /\ escape_offset \in 1..3 /\ g_select' = 0 /\ ~control_sequence' /\ ~discard_next'
        /\ ~control_sequence
    BY <1>6 DEF OscByte
  <2>2. escape_offset' \in 2..3
    BY <1>6, <2>1 DEF OscByte
  <2>3. CASE b = "bel"
    <3>1. ~osc' /\ ~escape' /\ ~osc_escape'
      BY <1>6, <2>3 DEF OscByte
    <3> QED BY <2>1, <2>2, <3>1
  <2>4. CASE b # "bel"
    <3>1. osc' /\ escape'
      BY <1>6, <2>4 DEF OscByte
    <3> QED BY <2>1, <2>2, <3>1
  <2> QED BY <2>3, <2>4
<1>7. ASSUME NEW b \in Bytes, OscEnd(b) PROVE OneMode'
  BY <1>7 DEF OscEnd
<1>8. ASSUME NEW b \in Bytes, EscBracket(b) PROVE OneMode'
  BY <1>8 DEF EscBracket
<1>9. ASSUME NEW b \in Bytes, EscCommand(b) PROVE OneMode'
  BY <1>9 DEF EscCommand
<1>10. ASSUME NEW b \in Bytes, EscReset(b) PROVE OneMode'
  BY <1>10 DEF EscReset, Ground
<1>11. ASSUME NEW b \in Bytes, EscOther(b) PROVE OneMode'
  BY <1>11 DEF EscOther
<1> USE DEF InSequence, Cleanup, Stay, Final
<1>12. ASSUME NEW b \in Bytes, CsiEat(b) PROVE OneMode'
  BY <1>12 DEF CsiEat
<1>13. ASSUME NEW b \in Bytes, CsiPrivate(b) PROVE OneMode'
  BY <1>13 DEF CsiPrivate
<1>14. ASSUME NEW b \in Bytes, CsiDigit(b) PROVE OneMode'
  BY <1>14 DEF CsiDigit
<1>15. ASSUME NEW b \in Bytes, CsiSemicolon(b) PROVE OneMode'
  <2>1. /\ escape_offset' = Offset /\ g_select' = g_select
        /\ UNCHANGED <<escape, control_sequence, osc, osc_escape, discard_next>>
        /\ UNCHANGED <<dec_private, csi_unhandled, question, cut>>
    BY <1>15 DEF CsiSemicolon
  <2>2. control_sequence
    BY <1>15 DEF CsiSemicolon
  <2> QED BY <2>1, <2>2
<1>16. ASSUME NEW b \in Bytes, CsiPrivateEnd(b) PROVE OneMode'
  BY <1>16 DEF CsiPrivateEnd
<1>17. ASSUME NEW b \in Bytes, CsiSkip(b) PROVE OneMode'
  <2>1. escape_offset \in 1..3 /\ escape_offset' \in 2..3
    BY <1>17 DEF CsiSkip
  <2>2. CASE b \in Grammar!Finals
    BY <1>17, <2>1, <2>2 DEF CsiSkip
  <2>3. CASE b \notin Grammar!Finals
    <3>1. UNCHANGED <<escape, control_sequence, osc, osc_escape, discard_next, g_select>>
      BY <1>17, <2>3 DEF CsiSkip
    <3>2. UNCHANGED <<dec_private, csi_unhandled>>
      BY <1>17, <2>3 DEF CsiSkip
    <3> QED BY <1>17, <2>1, <3>1, <3>2 DEF CsiSkip
  <2> QED BY <2>2, <2>3
<1>18. ASSUME NEW b \in Bytes, CsiKnown(b) PROVE OneMode'
  BY <1>18 DEF CsiKnown
<1>19. ASSUME NEW b \in Bytes, CsiUnhandled(b) PROVE OneMode'
  BY <1>19 DEF CsiUnhandled
<1>20. ASSUME NEW b \in Bytes, CsiEsc(b) PROVE OneMode'
  BY <1>20 DEF CsiEsc
<1>21. CASE UNCHANGED vars
  BY <1>21 DEF vars
<1> QED
  BY <1>1, <1>2, <1>3, <1>4, <1>5, <1>6, <1>7, <1>8, <1>9, <1>10, <1>11, <1>12,
     <1>13, <1>14, <1>15, <1>16, <1>17, <1>18, <1>19, <1>20, <1>21
     DEF Next, Putchar, EscapeParse, ControlSequenceParse

LEMMA PrivateStep == Booleans /\ Counters /\ OneMode /\ PrivateInv /\ [Next]_vars => PrivateInv'
<1> SUFFICES ASSUME Booleans /\ Counters /\ OneMode /\ PrivateInv, [Next]_vars PROVE PrivateInv'
    OBVIOUS
<1> USE EscapeParserAssumption
    DEF Booleans, Counters, OneMode, PrivateInv, PrivateAsWritten, flags, sequence, history
<1>1. ASSUME NEW b \in Bytes, Cancel(b) PROVE PrivateInv'
  BY <1>1 DEF Cancel, Ground
<1>2. ASSUME NEW b \in Bytes, Continue(b) PROVE PrivateInv'
  BY <1>2 DEF Continue, Continuation
<1>3. ASSUME NEW b \in Bytes, Lead(b) PROVE PrivateInv'
  BY <1>3 DEF Lead, Grammar!Wants
<1>4. ASSUME NEW b \in Bytes, Designator(b) PROVE PrivateInv'
  BY <1>4 DEF Designator, Parsed
<1>5. ASSUME NEW b \in Bytes, Text(b) PROVE PrivateInv'
  BY <1>5 DEF Text, Parsed
<1> USE DEF Escaped, Offset, Parsed, Switched
<1>6. ASSUME NEW b \in Bytes, OscByte(b) PROVE PrivateInv'
  BY <1>6 DEF OscByte
<1>7. ASSUME NEW b \in Bytes, OscEnd(b) PROVE PrivateInv'
  BY <1>7 DEF OscEnd
<1>8. ASSUME NEW b \in Bytes, EscBracket(b) PROVE PrivateInv'
  BY <1>8 DEF EscBracket
<1>9. ASSUME NEW b \in Bytes, EscCommand(b) PROVE PrivateInv'
  BY <1>9 DEF EscCommand
<1>10. ASSUME NEW b \in Bytes, EscReset(b) PROVE PrivateInv'
  BY <1>10 DEF EscReset, Ground
<1>11. ASSUME NEW b \in Bytes, EscOther(b) PROVE PrivateInv'
  BY <1>11 DEF EscOther
<1> USE DEF InSequence, Cleanup, Stay, Final
<1>12. ASSUME NEW b \in Bytes, CsiEat(b) PROVE PrivateInv'
  BY <1>12 DEF CsiEat
<1>13. ASSUME NEW b \in Bytes, CsiPrivate(b) PROVE PrivateInv'
  BY <1>13 DEF CsiPrivate
<1>14. ASSUME NEW b \in Bytes, CsiDigit(b) PROVE PrivateInv'
  BY <1>14 DEF CsiDigit
<1>15. ASSUME NEW b \in Bytes, CsiSemicolon(b) PROVE PrivateInv'
  <2>1. /\ escape_offset' = Offset /\ g_select' = g_select
        /\ UNCHANGED <<escape, control_sequence, osc, osc_escape, discard_next>>
        /\ UNCHANGED <<dec_private, csi_unhandled, question, cut>>
    BY <1>15 DEF CsiSemicolon
  <2>2. control_sequence
    BY <1>15 DEF CsiSemicolon
  <2> QED BY <2>1, <2>2
<1>16. ASSUME NEW b \in Bytes, CsiPrivateEnd(b) PROVE PrivateInv'
  BY <1>16 DEF CsiPrivateEnd
<1>17. ASSUME NEW b \in Bytes, CsiSkip(b) PROVE PrivateInv'
  <2>1. /\ escape_offset' = Offset /\ control_sequence /\ csi_unhandled /\ ~dec_private
        /\ UNCHANGED <<dec_private, question, cut>>
    BY <1>17 DEF CsiSkip
  <2>2. CASE b \in Grammar!Finals
    <3>1. ~control_sequence'
      BY <1>17, <2>2 DEF CsiSkip
    <3> QED BY <2>1, <3>1
  <2>3. CASE b \notin Grammar!Finals
    <3>1. csi_unhandled' = csi_unhandled
      BY <1>17, <2>3 DEF CsiSkip
    <3> QED BY <2>1, <3>1
  <2> QED BY <2>2, <2>3
<1>18. ASSUME NEW b \in Bytes, CsiKnown(b) PROVE PrivateInv'
  BY <1>18 DEF CsiKnown
<1>19. ASSUME NEW b \in Bytes, CsiUnhandled(b) PROVE PrivateInv'
  BY <1>19 DEF CsiUnhandled
<1>20. ASSUME NEW b \in Bytes, CsiEsc(b) PROVE PrivateInv'
  BY <1>20 DEF CsiEsc
<1>21. CASE UNCHANGED vars
  BY <1>21 DEF vars
<1> QED
  BY <1>1, <1>2, <1>3, <1>4, <1>5, <1>6, <1>7, <1>8, <1>9, <1>10, <1>11, <1>12,
     <1>13, <1>14, <1>15, <1>16, <1>17, <1>18, <1>19, <1>20, <1>21
     DEF Next, Putchar, EscapeParse, ControlSequenceParse

LEMMA StepInv == IInv /\ [Next]_vars => IInv'
BY BooleansStep, CountersStep, OneModeStep, PrivateStep DEF IInv

LEMMA InvHolds == Spec => []IInv
BY InitInv, StepInv, PTL DEF Spec

\* No stream of bytes takes a flag or a counter out of its range.
THEOREM TypeCorrect == Spec => []TypeOK
<1>1. IInv => TypeOK
  BY InvImplies
<1> QED BY InvHolds, <1>1, PTL

\* Whatever the size of the array, no digit and no semicolon runs behind it.
THEOREM ValuesFit == Spec => []ValuesInBounds
<1>1. IInv => ValuesInBounds
  BY InvImplies
<1> QED BY InvHolds, <1>1, PTL

\* A sequence is read as private if and only if '?' begins it, but for what CAN
\* leaves behind.
THEOREM PrivateRead == Spec => []PrivateAsWritten
<1>1. IInv => PrivateAsWritten
  BY InvImplies
<1> QED BY InvHolds, <1>1, PTL

\* What the flags say of the mode.
ModeTable ==
  /\ discard_next => Mode = "discard"
  /\ ~discard_next /\ osc_escape => Mode = "osc_escape"
  /\ ~discard_next /\ ~osc_escape /\ osc => Mode = "osc"
  /\ ~discard_next /\ ~osc_escape /\ ~osc /\ control_sequence =>
       /\ csi_unhandled => Mode = "skip"
       /\ ~csi_unhandled /\ escape_offset = 1 => Mode = "first"
       /\ ~csi_unhandled /\ escape_offset # 1 => Mode = "csi"
  /\ ~discard_next /\ ~osc_escape /\ ~osc /\ ~control_sequence =>
       /\ escape => Mode = "escape"
       /\ ~escape /\ g_select # 0 => Mode = "designate"
       /\ ~escape /\ g_select = 0 => Mode = "text"

LEMMA ModeNow == ModeTable
BY DEF ModeTable, Mode, SequenceMode

LEMMA ModeThen == ModeTable'
BY DEF ModeTable, Mode, SequenceMode

LEMMA StepRefines == IInv /\ [Next]_vars => [Grammar!Next]_(Grammar!vars)
<1> SUFFICES ASSUME IInv, [Next]_vars PROVE [Grammar!Next]_(Grammar!vars)
    OBVIOUS
<1> USE ModeNow, ModeThen
    DEF IInv, Counters, OneMode, ModeTable, flags, sequence, history
<1>1. ASSUME NEW b \in Bytes, Cancel(b) PROVE Grammar!Cancel(b)
  BY <1>1 DEF Cancel, Ground, Grammar!Cancel
<1>2. ASSUME NEW b \in Bytes, Continue(b) PROVE Grammar!MultiByte(b)
  <2>1. Mode # "discard" /\ Mode' = Mode
    BY <1>2 DEF Continue, Continuation
  <2>2. dec_private' = dec_private /\ shown' \in BOOLEAN
    BY <1>2 DEF Continue, Continuation
  <2>3. b = "cont" /\ unicode_remaining > 0
    BY <1>2 DEF Continue, Continuation
  <2>4. shown' => unicode_remaining' = 0
    BY <1>2 DEF Continue, Continuation
  <2> QED
    BY <1>2, <2>1, <2>2, <2>3, <2>4
       DEF Continue, Grammar!MultiByte, Grammar!Silently
<1>3. ASSUME NEW b \in Bytes, Lead(b) PROVE Grammar!MultiByte(b)
  BY <1>3 DEF Lead, Grammar!MultiByte, Grammar!Leads
<1>4. ASSUME NEW b \in Bytes, Designator(b) PROVE Grammar!Designate(b)
  BY <1>4
     DEF Designator, Parsed, Continuation, Grammar!Designate, Grammar!Single,
         Grammar!Leads, Grammar!Silently
<1>5. ASSUME NEW b \in Bytes, Text(b) PROVE Grammar!Text(b)
  <2>1. Grammar!Single(b)
    BY <1>5 DEF Text, Parsed, Continuation, Grammar!Single, Grammar!Leads
  <2>2. Mode = "text"
    BY <1>5 DEF Text, Parsed, Continuation
  <2>3. Mode' = IF b = "esc" THEN "escape" ELSE "text"
    BY <1>5 DEF Text, Parsed, Continuation
  <2>4. dec_private' = dec_private /\ unicode_remaining' = 0
    BY <1>5 DEF Text, Parsed, Continuation
  <2> QED BY <1>5, <2>1, <2>2, <2>3, <2>4 DEF Text, Grammar!Text, Grammar!Silently
<1> USE DEF Escaped, Offset, Parsed, Switched, Continuation
<1>6. ASSUME NEW b \in Bytes, OscByte(b) PROVE Grammar!Command(b)
  <2>1. Grammar!Single(b)
    BY <1>6 DEF OscByte, Grammar!Single, Grammar!Leads
  <2>2. unicode_remaining' = 0 /\ shown' = FALSE
    BY <1>6 DEF OscByte
  <2>3. dec_private' = dec_private
    BY <1>6 DEF OscByte
  <2>4. Mode = "osc"
    BY <1>6 DEF OscByte
  <2>5. b = "esc" => Mode' = "osc_escape"
    BY <1>6 DEF OscByte
  <2>6. b = "bel" => Mode' = "text"
    BY <1>6 DEF OscByte
  <2>7. b \notin {"esc", "bel"} => Mode' = "osc"
    BY <1>6 DEF OscByte
  <2> QED
    BY <1>6, <2>1, <2>2, <2>3, <2>4, <2>5, <2>6, <2>7
       DEF OscByte, Grammar!Command, Grammar!Silently
<1>7. ASSUME NEW b \in Bytes, OscEnd(b) PROVE Grammar!Escape(b)
  <2>1. Grammar!Single(b)
    BY <1>7 DEF OscEnd, Grammar!Single, Grammar!Leads
  <2>2. unicode_remaining' = 0 /\ shown' = FALSE
    BY <1>7 DEF OscEnd
  <2>3. dec_private' = dec_private /\ dec_private \in BOOLEAN
    BY <1>7 DEF OscEnd, Booleans
  <2>4. Mode = "osc_escape" /\ b = "\\"
    BY <1>7 DEF OscEnd
  <2>5. Mode' = "text"
    BY <1>7 DEF OscEnd
  <2> QED
    BY <1>7, <2>1, <2>2, <2>3, <2>4, <2>5
       DEF OscEnd, Grammar!Escape, Grammar!Silently
<1>8. ASSUME NEW b \in Bytes, EscBracket(b) PROVE Grammar!Escape(b)
  <2>1. Grammar!Single(b)
    BY <1>8 DEF EscBracket, Grammar!Single, Grammar!Leads
  <2>2. unicode_remaining' = 0 /\ shown' = FALSE
    BY <1>8 DEF EscBracket
  <2>3. dec_private' = (dec_private /\ b # "c")
    BY <1>8 DEF EscBracket, Booleans
  <2>4. Mode \in {"escape", "osc_escape"} /\ b = "["
    BY <1>8 DEF EscBracket
  <2>5. Mode' = IF Mode = "escape" THEN "first" ELSE "csi"
    BY <1>8 DEF EscBracket
  <2> QED
    BY <1>8, <2>1, <2>2, <2>3, <2>4, <2>5
       DEF EscBracket, Grammar!Escape, Grammar!Silently
<1>9. ASSUME NEW b \in Bytes, EscCommand(b) PROVE Grammar!Escape(b)
  <2>1. Grammar!Single(b)
    BY <1>9 DEF EscCommand, Grammar!Single, Grammar!Leads
  <2>2. unicode_remaining' = 0 /\ shown' = FALSE
    BY <1>9 DEF EscCommand
  <2>3. dec_private' = (dec_private /\ b # "c")
    BY <1>9 DEF EscCommand, Booleans
  <2>4. Mode \in {"escape", "osc_escape"} /\ b = "]"
    BY <1>9 DEF EscCommand
  <2>5. Mode' = "osc"
    BY <1>9 DEF EscCommand
  <2> QED
    BY <1>9, <2>1, <2>2, <2>3, <2>4, <2>5
       DEF EscCommand, Grammar!Escape, Grammar!Silently
<1>10. ASSUME NEW b \in Bytes, EscReset(b) PROVE Grammar!Escape(b)
  BY <1>10
     DEF EscReset, Ground, Grammar!Escape, Grammar!Single, Grammar!Leads,
         Grammar!Silently
<1>11. ASSUME NEW b \in Bytes, EscOther(b) PROVE Grammar!Escape(b)
  <2>1. Grammar!Single(b)
    BY <1>11 DEF EscOther, Grammar!Single, Grammar!Leads
  <2>2. unicode_remaining' = 0 /\ shown' = FALSE
    BY <1>11 DEF EscOther
  <2>3. dec_private' = (dec_private /\ b # "c")
    BY <1>11 DEF EscOther, Booleans
  <2>4. Mode \in {"escape", "osc_escape"} /\ b \notin {"[", "]"}
    BY <1>11 DEF EscOther
  <2>5. b = "(" => Mode' = "designate"
    BY <1>11 DEF EscOther
  <2>6. b # "(" => Mode' = "text"
    BY <1>11 DEF EscOther
  <2> QED
    BY <1>11, <2>1, <2>2, <2>3, <2>4, <2>5, <2>6
       DEF EscOther, Grammar!Escape, Grammar!Silently
<1> USE DEF InSequence, Cleanup, Stay, Final
<1>12. ASSUME NEW b \in Bytes, CsiEat(b) PROVE Grammar!First(b)
  <2>1. Grammar!Single(b)
    BY <1>12 DEF CsiEat, Grammar!Single, Grammar!Leads
  <2>2. unicode_remaining' = 0 /\ shown' = FALSE
    BY <1>12 DEF CsiEat
  <2>3. dec_private' = (dec_private \/ b = "?")
    BY <1>12 DEF CsiEat, Booleans
  <2>4. Mode = "first" /\ b = "["
    BY <1>12 DEF CsiEat
  <2>5. Mode' = "discard"
    BY <1>12 DEF CsiEat
  <2> QED
    BY <1>12, <2>1, <2>2, <2>3, <2>4, <2>5
       DEF CsiEat, Grammar!First, Grammar!Silently
<1>13. ASSUME NEW b \in Bytes, CsiPrivate(b) PROVE Grammar!First(b)
  <2>1. Grammar!Single(b)
    BY <1>13 DEF CsiPrivate, Grammar!Single, Grammar!Leads
  <2>2. unicode_remaining' = 0 /\ shown' = FALSE
    BY <1>13 DEF CsiPrivate
  <2>3. dec_private' = (dec_private \/ b = "?")
    BY <1>13 DEF CsiPrivate, Booleans
  <2>4. Mode = "first" /\ b = "?"
    BY <1>13 DEF CsiPrivate
  <2>5. Mode' = "csi"
    BY <1>13 DEF CsiPrivate
  <2> QED
    BY <1>13, <2>1, <2>2, <2>3, <2>4, <2>5
       DEF CsiPrivate, Grammar!First, Grammar!Silently
<1>14. ASSUME NEW b \in Bytes, CsiDigit(b) PROVE Grammar!Control(b) \/ Grammar!Skip(b)
  <2>1. Grammar!Single(b)
    BY <1>14 DEF CsiDigit, Grammar!Single, Grammar!Leads
  <2>2. unicode_remaining' = 0 /\ shown' = FALSE
    BY <1>14 DEF CsiDigit
  <2>3. dec_private' = dec_private /\ dec_private \in BOOLEAN
    BY <1>14 DEF CsiDigit, Booleans
  <2>4. b = "digit"
    BY <1>14 DEF CsiDigit
  <2>5. csi_unhandled => Mode = "skip" /\ Mode' = "skip"
    BY <1>14 DEF CsiDigit
  <2>6. ~csi_unhandled => Mode \in {"first", "csi"}
    BY <1>14 DEF CsiDigit
  <2>7. escape_offset' = Offset /\ control_sequence /\ escape_offset \in 1..3
    BY <1>14 DEF CsiDigit
  <2>8. /\ UNCHANGED <<discard_next, osc, osc_escape, control_sequence, csi_unhandled>>
        /\ ~discard_next /\ ~osc
    BY <1>14 DEF CsiDigit
  <2>9. ~csi_unhandled => Mode' = "csi"
    BY <2>7, <2>8
  <2> QED
    BY <1>14, <2>1, <2>2, <2>3, <2>4, <2>5, <2>6, <2>7, <2>8, <2>9
       DEF CsiDigit, Grammar!Control, Grammar!Skip, Grammar!Parameters, Grammar!Known,
           Grammar!Finals, Grammar!Silently
<1>15. ASSUME NEW b \in Bytes, CsiSemicolon(b) PROVE Grammar!Control(b) \/ Grammar!Skip(b)
  <2>1. Grammar!Single(b)
    BY <1>15 DEF CsiSemicolon, Grammar!Single, Grammar!Leads
  <2>2. unicode_remaining' = 0 /\ shown' = FALSE
    BY <1>15 DEF CsiSemicolon
  <2>3. dec_private' = dec_private /\ dec_private \in BOOLEAN
    BY <1>15 DEF CsiSemicolon, Booleans
  <2>4. b = ";"
    BY <1>15 DEF CsiSemicolon
  <2>5. csi_unhandled => Mode = "skip" /\ Mode' = "skip"
    BY <1>15 DEF CsiSemicolon
  <2>6. ~csi_unhandled => Mode \in {"first", "csi"}
    BY <1>15 DEF CsiSemicolon
  <2>7. escape_offset' = Offset /\ control_sequence /\ escape_offset \in 1..3
    BY <1>15 DEF CsiSemicolon
  <2>8. /\ UNCHANGED <<discard_next, osc, osc_escape, control_sequence, csi_unhandled>>
        /\ ~discard_next /\ ~osc
    BY <1>15 DEF CsiSemicolon
  <2>9. ~csi_unhandled => Mode' = "csi"
    BY <2>7, <2>8
  <2> QED
    BY <1>15, <2>1, <2>2, <2>3, <2>4, <2>5, <2>6, <2>7, <2>8, <2>9
       DEF CsiSemicolon, Grammar!Control, Grammar!Skip, Grammar!Parameters,
           Grammar!Known, Grammar!Finals, Grammar!Silently
<1>16. ASSUME NEW b \in Bytes, CsiPrivateEnd(b) PROVE Grammar!Control(b)
  <2>1. Grammar!Single(b)
    BY <1>16 DEF CsiPrivateEnd, Grammar!Single, Grammar!Leads
  <2>2. unicode_remaining' = 0 /\ shown' = FALSE
    BY <1>16 DEF CsiPrivateEnd
  <2>3. dec_private /\ dec_private' = FALSE
    BY <1>16 DEF CsiPrivateEnd
  <2>4. b \notin Grammar!Parameters /\ ~(Mode = "first" /\ b \in {"[", "?"})
    BY <1>16 DEF CsiPrivateEnd
  <2>5. Mode \in {"first", "csi"}
    BY <1>16 DEF CsiPrivateEnd
  <2>6. Mode' = "text"
    BY <1>16 DEF CsiPrivateEnd
  <2> QED
    BY <1>16, <2>1, <2>2, <2>3, <2>4, <2>5, <2>6
       DEF CsiPrivateEnd, Grammar!Control, Grammar!Silently
<1>17. ASSUME NEW b \in Bytes, CsiSkip(b) PROVE Grammar!Skip(b)
  <2>1. Grammar!Single(b)
    BY <1>17 DEF CsiSkip, Grammar!Single, Grammar!Leads
  <2>2. unicode_remaining' = 0 /\ shown' = FALSE
    BY <1>17 DEF CsiSkip
  <2>3. dec_private' = dec_private
    BY <1>17 DEF CsiSkip
  <2>4. Mode = "skip"
    BY <1>17 DEF CsiSkip
  <2>5. b \in Grammar!Finals => Mode' = "text"
    BY <1>17 DEF CsiSkip
  <2>6. b \notin Grammar!Finals => Mode' = "skip"
    BY <1>17 DEF CsiSkip
  <2> QED
    BY <1>17, <2>1, <2>2, <2>3, <2>4, <2>5, <2>6
       DEF CsiSkip, Grammar!Skip, Grammar!Parameters, Grammar!Known, Grammar!Finals,
           Grammar!Silently
<1>18. ASSUME NEW b \in Bytes, CsiKnown(b) PROVE Grammar!Control(b)
  <2>1. Grammar!Single(b)
    BY <1>18 DEF CsiKnown, Grammar!Single, Grammar!Leads
  <2>2. unicode_remaining' = 0 /\ shown' = FALSE
    BY <1>18 DEF CsiKnown
  <2>3. ~dec_private /\ dec_private' = FALSE
    BY <1>18 DEF CsiKnown, Booleans
  <2>4. b \notin Grammar!Parameters /\ ~(Mode = "first" /\ b \in {"[", "?"})
    BY <1>18 DEF CsiKnown
  <2>5. Mode \in {"first", "csi"} /\ b \in Grammar!Known
    BY <1>18 DEF CsiKnown
  <2>6. Mode' = "text"
    BY <1>18 DEF CsiKnown
  <2> QED
    BY <1>18, <2>1, <2>2, <2>3, <2>4, <2>5, <2>6
       DEF CsiKnown, Grammar!Control, Grammar!Silently
<1>19. ASSUME NEW b \in Bytes, CsiUnhandled(b) PROVE Grammar!Control(b)
  <2>1. Grammar!Single(b)
    BY <1>19 DEF CsiUnhandled, Grammar!Single, Grammar!Leads
  <2>2. unicode_remaining' = 0 /\ shown' = FALSE
    BY <1>19 DEF CsiUnhandled
  <2>3. ~dec_private /\ dec_private' = FALSE
    BY <1>19 DEF CsiUnhandled, Booleans
  <2>4. b \notin Grammar!Parameters /\ ~(Mode = "first" /\ b \in {"[", "?"})
    BY <1>19 DEF CsiUnhandled
  <2>5. Mode \in {"first", "csi"} /\ b \notin Grammar!Known \cup {"esc"}
    BY <1>19 DEF CsiUnhandled
  <2>6. Mode' = "skip"
    BY <1>19 DEF CsiUnhandled
  <2> QED
    BY <1>19, <2>1, <2>2, <2>3, <2>4, <2>5, <2>6
       DEF CsiUnhandled, Grammar!Control, Grammar!Silently
<1>20. ASSUME NEW b \in Bytes, CsiEsc(b) PROVE Grammar!Control(b)
  <2>1. Grammar!Single(b)
    BY <1>20 DEF CsiEsc, Grammar!Single, Grammar!Leads
  <2>2. unicode_remaining' = 0 /\ shown' = FALSE
    BY <1>20 DEF CsiEsc
  <2>3. ~dec_private /\ dec_private' = FALSE
    BY <1>20 DEF CsiEsc, Booleans
  <2>4. b \notin Grammar!Parameters /\ ~(Mode = "first" /\ b \in {"[", "?"})
    BY <1>20 DEF CsiEsc
  <2>5. Mode \in {"first", "csi"} /\ b = "esc"
    BY <1>20 DEF CsiEsc
  <2>6. Mode' = "csi"
    BY <1>20 DEF CsiEsc
  <2> QED
    BY <1>20, <2>1, <2>2, <2>3, <2>4, <2>5, <2>6
       DEF CsiEsc, Grammar!Control, Grammar!Known, Grammar!Silently
<1>21. CASE UNCHANGED vars
  BY <1>21 DEF vars, Grammar!vars, Mode, SequenceMode
<1> QED
  BY <1>1, <1>2, <1>3, <1>4, <1>5, <1>6, <1>7, <1>8, <1>9, <1>10, <1>11, <1>12,
     <1>13, <1>14, <1>15, <1>16, <1>17, <1>18, <1>19, <1>20, <1>21
     DEF Next, Putchar, EscapeParse, ControlSequenceParse, Grammar!Next, Bytes

LEMMA InitRefines == Init => Grammar!Init
BY DEF Init, Grammar!Init, Mode

\* For every stream of bytes and every size of the array the flags implement
\* the grammar: one mode at a time, and each byte taken as EscapeGrammar takes it.
THEOREM ImplementsGrammar == Spec => KeepsGrammar
<1>1. Init => Grammar!Init
  BY InitRefines
<1>2. IInv /\ [Next]_vars => [Grammar!Next]_(Grammar!vars)
  BY StepRefines
<1> QED BY InvHolds, <1>1, <1>2, PTL DEF Spec, KeepsGrammar, Grammar!Spec
=============================================================================
