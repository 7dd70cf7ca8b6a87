-------------------------------- MODULE Shell --------------------------------
(***************************************************************************)
(* The command prompt of SealOS (kernel/src/command_prompt/cmdprompt.c):   *)
(* the line editor, the words of a line, the commands that change the      *)
(* prompt's own state, the text editor, ISL scripts and the `;' loop.      *)
(*                                                                         *)
(* handle_keyboard runs in the keyboard interrupt, with interrupts off: a  *)
(* key is taken when the command of the last one is over (pc = "idle"),    *)
(* and a command is a sequence of actions that no key comes between.       *)
(*                                                                         *)
(* A character is the letters of one word, or of a part of one: "create"   *)
(* is one key here and "create" followed by "a" is the word createa.       *)
(***************************************************************************)
EXTENDS Integers, Sequences, FiniteSets

CONSTANTS
  Letters,       \* what a byte of a string may be
  Keys,          \* what is typed in a line, other than Enter and Backspace
  EditorKeys,    \* what is typed in the editor, other than Backspace and F1
  NUL, SP,       \* '\0' (Shift and the other keys mapped to 0) and ' '
  NL,            \* '\n', which the editor takes as text
  MAX_ARGS,      \* 10
  CleanLen,      \* 100: the bytes cmd_cleanup zeroes
  Under, MaxPos, \* bounds on cursor_pos: it stays in -Under..MaxPos
  MaxDoc,        \* bound on the text typed in the editor
  PathLen,       \* bound on the length of folder_name
  Scripts,       \* what the cluster isl run reads may hold: lines, cut at '\r'
  Garbage,       \* strings a pointer into a dead stack frame may reach
  StackFrames,   \* isl_run frames (32 KiB each) the kernel stack holds
  Root, Folders  \* the root directory and the clusters cd may find

ASSUME ShellAssumption ==
  /\ {SP, NL, "/"} \subseteq Letters /\ NUL \notin Letters
  /\ SP \in Keys /\ Keys \subseteq Letters \cup {NUL} /\ EditorKeys \subseteq Keys \cup {NL}
  /\ Garbage \subseteq Seq(Letters) /\ Scripts \subseteq Seq(Seq(Letters))
  /\ MAX_ARGS \in Nat /\ MAX_ARGS >= 3
  /\ Under \in Nat /\ MaxPos \in Nat /\ MaxDoc \in Nat /\ CleanLen \in 1..MaxPos
  /\ PathLen \in Nat /\ PathLen >= 2
  /\ StackFrames \in Nat \ {0} /\ Root \notin Folders

MinPos == 0 - Under

VARIABLES
  pc,            \* "idle", "run" a parsed command, "next" line, "halted"
  command_buf, cursor_pos, doc_buf,
  argv, argc,    \* pointers <<frame, line, position>>; frame 0 is command_buf
  frames,        \* the running isl_run calls and `;' loops, innermost last
  editor_mode, bash_mode,
  current_clust, at_root, folder_name,
  typed,         \* history: what was typed since the last cmd_cleanup
  path,          \* history: the folders entered since boot or cd ..
  prompts,       \* history: prompts printed since the last Enter (at most 2)
  odd,           \* history: a key of this line the line editor cannot follow
  spilled,       \* history: a line went beyond what cmd_cleanup zeroes
  nested,        \* history: a script of this command ran another one
  returned,      \* history: cd .. has been used since boot
  worded,        \* history: a line with a word in it has been parsed since boot
  saving         \* history: the last key was F1 in the editor

keyboardVars == <<command_buf, cursor_pos, doc_buf, editor_mode, typed, odd, spilled, saving>>
argVars      == <<argv, argc, worded>>
folderVars   == <<current_clust, at_root, folder_name, path, returned>>
promptVars   == <<prompts, nested>>
vars == <<pc, keyboardVars, argVars, frames, bash_mode, folderVars, promptVars>>

-----------------------------------------------------------------------------
(* Strings: functions from positions to characters.                        *)

CStr(s) == [p \in 0..Len(s) |-> IF p = Len(s) THEN NUL ELSE s[p + 1]]

\* The first position from p on that holds a character of S.
Stop(b, p, S) ==
  CHOOSE e \in DOMAIN b : e >= p /\ b[e] \in S /\ \A j \in p..(e - 1) : b[j] \notin S

Chars(b, p, S) == [j \in 1..(Stop(b, p, S) - p) |-> b[p + j - 1]]
CString(b, p)  == Chars(b, p, {NUL})
StrLen(b)      == Stop(b, 0, {NUL})

\* Where the words of b start.
Starts(b) == {p \in 0..(StrLen(b) - 1) : b[p] # SP /\ (p = 0 \/ b[p - 1] = SP)}

Nth(S, k) == CHOOSE p \in S : Cardinality({q \in S : q < p}) = k

Words(b) == [k \in 1..Cardinality(Starts(b)) |-> Chars(b, Nth(Starts(b), k - 1), {NUL, SP})]

\* The spaces of b are overwritten with NULs.
Split(b) == [p \in DOMAIN b |-> IF p \in 0..(StrLen(b) - 1) /\ b[p] = SP THEN NUL ELSE b[p]]

Null == <<-1, 0, 0>>
Dead == <<-2, 0, 0>>

Memory(f, l) == IF f = 0 THEN command_buf ELSE frames[f].data[l]

\* The strings the pointer a may point to.
StringsAt(a) == IF a = Dead THEN Garbage ELSE {CString(Memory(a[1], a[2]), a[3])}

Zero(n) == [p \in 0..n |-> NUL]

-----------------------------------------------------------------------------
Init ==
  /\ pc = "idle"
  /\ command_buf = [p \in MinPos..MaxPos |-> NUL] /\ doc_buf = [p \in MinPos..MaxPos |-> NUL]
  /\ cursor_pos = 0 /\ editor_mode = 0 /\ bash_mode = 0
  /\ argv = [k \in 0..(MAX_ARGS - 1) |-> Null] /\ argc = 0
  /\ frames = << >>
  /\ current_clust = Root /\ at_root = 1 /\ folder_name = Zero(PathLen)
  /\ typed = << >> /\ path = << >>
  /\ prompts = 1
  /\ odd = FALSE /\ spilled = FALSE /\ nested = FALSE /\ returned = FALSE
  /\ worded = FALSE /\ saving = FALSE

\* Mutant: the zeroing loop ends one byte early.
Cleared_Short == [p \in DOMAIN command_buf |-> IF p \in 0..(CleanLen - 2) THEN NUL ELSE command_buf[p]]

Cleared == [p \in DOMAIN command_buf |-> IF p \in 0..(CleanLen - 1) THEN NUL ELSE command_buf[p]]

\* Mutant: the prompt is printed while a script runs as well.
Quiet_EditorOnly(editor, bash) == editor = 1

Quiet(editor, bash) == editor = 1 \/ bash = 1

\* The line is emptied and the prompt printed.
cmd_cleanup(editor, bash) ==
  /\ command_buf' = Cleared
  /\ cursor_pos' = 0
  /\ prompts' = IF Quiet(editor, bash) THEN prompts ELSE IF prompts = 0 THEN 1 ELSE 2
  /\ typed' = << >> /\ odd' = FALSE

-----------------------------------------------------------------------------
(* Keys.                                                                   *)

Type ==
  /\ pc = "idle" /\ editor_mode = 0 /\ cursor_pos < MaxPos
  /\ \E c \in Keys :
       /\ command_buf' = [command_buf EXCEPT ![cursor_pos] = c]
       /\ typed' = Append(typed, c)
       /\ odd' = (odd \/ c = NUL)
  /\ cursor_pos' = cursor_pos + 1
  /\ spilled' = (spilled \/ cursor_pos >= CleanLen) /\ saving' = FALSE
  /\ UNCHANGED <<pc, doc_buf, editor_mode, argVars, frames, bash_mode, folderVars, promptVars>>

\* Mutant: in the editor a letter goes where the backspace goes.
EditorType_CommandBuf ==
  /\ pc = "idle" /\ editor_mode = 1 /\ cursor_pos < MaxPos /\ cursor_pos < MaxDoc
  /\ \E c \in EditorKeys :
       /\ command_buf' = [command_buf EXCEPT ![cursor_pos] = c]
       /\ typed' = Append(typed, c)
       /\ odd' = (odd \/ c = NUL)
  /\ cursor_pos' = cursor_pos + 1 /\ saving' = FALSE
  /\ UNCHANGED <<pc, doc_buf, editor_mode, spilled, argVars, frames, bash_mode, folderVars, promptVars>>

\* In the editor a letter goes to doc_buf, and Enter is a letter.
EditorType ==
  /\ pc = "idle" /\ editor_mode = 1 /\ cursor_pos < MaxPos /\ cursor_pos < MaxDoc
  /\ \E c \in EditorKeys :
       /\ doc_buf' = [doc_buf EXCEPT ![cursor_pos] = c]
       /\ typed' = Append(typed, c)
       /\ odd' = (odd \/ c = NUL)
  /\ cursor_pos' = cursor_pos + 1 /\ saving' = FALSE
  /\ UNCHANGED <<pc, command_buf, editor_mode, spilled, argVars, frames, bash_mode, folderVars, promptVars>>

\* The line loses its last letter, or the byte before command_buf is written.
\* In the editor the space is written in command_buf as well, not in doc_buf.
Backspace ==
  /\ pc = "idle" /\ cursor_pos > MinPos
  /\ cursor_pos' = cursor_pos - 1
  /\ command_buf' = [command_buf EXCEPT ![cursor_pos - 1] = SP]
  /\ typed' = IF typed = << >> THEN typed ELSE SubSeq(typed, 1, Len(typed) - 1)
  /\ odd' = (odd \/ cursor_pos <= 0)
  /\ spilled' = (spilled \/ cursor_pos > CleanLen) /\ saving' = FALSE
  /\ UNCHANGED <<pc, doc_buf, editor_mode, argVars, frames, bash_mode, folderVars, promptVars>>

\* F1 saves the text and leaves the editor; without an editor it does nothing.
\* fat_create_file is called without its third argument and reads through it when
\* the file is new: what the register holds may be no address, and the kernel
\* stops there.
F1 ==
  /\ pc = "idle" /\ editor_mode = 1
  /\ editor_mode' = 0 /\ saving' = TRUE
  /\ \/ cmd_cleanup(0, bash_mode) /\ UNCHANGED pc
     \/ pc' = "halted" /\ UNCHANGED <<command_buf, cursor_pos, prompts, typed, odd>>
  /\ UNCHANGED <<doc_buf, spilled, argVars, frames, bash_mode, folderVars, nested>>

-----------------------------------------------------------------------------
(* exec: a line is split into words, or starts a loop.                     *)

\* Mutant: argc is incremented before the pointer is stored.
Parse_PreIncrement(f, l, b) ==
  LET n == Cardinality(Starts(b)) IN
  /\ argc' = IF n < MAX_ARGS THEN n ELSE MAX_ARGS
  /\ argv' = [k \in 0..(MAX_ARGS - 1) |->
                IF k \in 1..n THEN <<f, l, Nth(Starts(b), k - 1)>> ELSE argv[k]]

\* parse_command: the first MAX_ARGS words get a pointer, the other entries of
\* argv stay as they are.
Parse(f, l, b) ==
  LET n == Cardinality(Starts(b)) IN
  /\ argc' = IF n < MAX_ARGS THEN n ELSE MAX_ARGS
  /\ argv' = [k \in 0..(MAX_ARGS - 1) |-> IF k < n THEN <<f, l, Nth(Starts(b), k)>> ELSE argv[k]]

\* The string starts with `;': where, and what is behind it.
Semicolon(b) == {p \in Starts(b) : b[p] = ";" /\ \A q \in Starts(b) : p <= q}
AfterSemicolon(b) ==
  {CString(b, q) : q \in {r \in 0..StrLen(b) :
      \E p \in Semicolon(b) : /\ r > p /\ b[r] # SP
                              /\ \A j \in (p + 1)..(r - 1) : b[j] = SP}}

LoopFrame(s) == [kind |-> "loop", data |-> <<CStr(s)>>, next |-> 1]

\* exec of a string that does not start a loop.
ExecWords(f, l, b) ==
  /\ Semicolon(b) = {}
  /\ Parse(f, l, b) /\ worded' = (worded \/ Starts(b) # {})
  /\ pc' = "run"

\* exec of `; command': the loop starts and nothing ends it.
ExecLoop(b) ==
  /\ \E s \in AfterSemicolon(b) : s # << >> /\ frames' = Append(frames, LoopFrame(s))
  /\ pc' = "next"
  /\ UNCHANGED argVars

Enter ==
  /\ pc = "idle" /\ editor_mode = 0
  /\ prompts' = 0 /\ nested' = FALSE /\ saving' = FALSE
  /\ \/ /\ ExecWords(0, 0, command_buf)
        /\ command_buf' = Split(command_buf)
        /\ UNCHANGED <<frames, odd>>
     \/ /\ ExecLoop(command_buf)
        /\ UNCHANGED <<command_buf, odd>>
     \/ /\ << >> \in AfterSemicolon(command_buf)  \* No input after ;
        /\ odd' = TRUE
        /\ UNCHANGED <<pc, command_buf, frames, argVars>>
  /\ UNCHANGED <<cursor_pos, doc_buf, editor_mode, typed, spilled, bash_mode, folderVars>>

-----------------------------------------------------------------------------
(* exec: the commands.                                                     *)

\* The handlers tell their command, and whether it has its words, from argv.
Command(w)   == pc = "run" /\ argv[0] # Null /\ w \in StringsAt(argv[0])
Argument(k)  == IF argv[k] = Null THEN {} ELSE StringsAt(argv[k])

\* A handler returns to the interrupt, or to the script or loop around it.
Return == pc' = IF frames = << >> THEN "idle" ELSE "next"

NoEffect == <<doc_buf, editor_mode, spilled, saving, argVars, frames, bash_mode, folderVars, nested>>

\* Commands that print, read or write files, unknown commands, commands without
\* the words they need, and cd when fat_search finds no folder.
Plain ==
  /\ pc = "run" /\ argv[0] # Null
  /\ \/ \E w \in StringsAt(argv[0]) : w \notin {<<"edit">>, <<"cd">>, <<"isl">>, <<"reboot">>}
     \/ Command(<<"edit">>) /\ argv[1] = Null
     \/ Command(<<"cd">>) /\ Argument(1) # {<<"..">>}
     \/ Command(<<"isl">>) /\ (argv[2] = Null \/ Argument(1) # {<<"run">>})
  /\ cmd_cleanup(editor_mode, bash_mode)
  /\ Return
  /\ UNCHANGED NoEffect

\* An empty line before the first command: strcmp(NULL, ...) faults.
Fault ==
  /\ pc = "run" /\ argv[0] = Null
  /\ cmd_cleanup(editor_mode, bash_mode)
  /\ pc' = "halted"
  /\ UNCHANGED NoEffect

Edit ==
  /\ Command(<<"edit">>) /\ argv[1] # Null
  /\ editor_mode' = 1
  /\ cmd_cleanup(1, bash_mode)
  /\ Return
  /\ UNCHANGED <<doc_buf, spilled, saving, argVars, frames, bash_mode, folderVars, nested>>

CdUp ==
  /\ Command(<<"cd">>) /\ <<"..">> \in Argument(1)
  /\ current_clust' = Root
  /\ folder_name' = [folder_name EXCEPT ![0] = NUL]  \* strlen is 0 from then on
  /\ at_root' = 1
  /\ path' = << >> /\ returned' = TRUE
  /\ cmd_cleanup(editor_mode, bash_mode)
  /\ Return
  /\ UNCHANGED <<doc_buf, editor_mode, spilled, saving, argVars, frames, bash_mode, nested>>

\* Mutant: no slash is put after the name.
Extended_NoSlash(name) ==
  LET n == StrLen(folder_name) IN
  [p \in DOMAIN folder_name |->
     IF p \in n..(n + Len(name) - 1) THEN name[p - n + 1] ELSE folder_name[p]]

\* strcat(folder_name, name), then a slash over the NUL.
Extended(name) ==
  LET n == StrLen(folder_name) IN
  [p \in DOMAIN folder_name |->
     IF p \in n..(n + Len(name) - 1) THEN name[p - n + 1]
     ELSE IF p = n + Len(name) THEN "/" ELSE folder_name[p]]

\* cd into a folder fat_search finds; PathLen bounds how deep.
CdInto ==
  /\ Command(<<"cd">>)
  /\ \E w \in Argument(1) :
       /\ w # <<"..">> /\ StrLen(folder_name) + Len(w) + 1 < PathLen
       /\ folder_name' = Extended(w)
       /\ path' = path \o w \o <<"/">>
  /\ current_clust' \in Folders
  /\ at_root' = 0
  /\ cmd_cleanup(editor_mode, bash_mode)
  /\ Return
  /\ UNCHANGED <<doc_buf, editor_mode, spilled, saving, argVars, frames, bash_mode, returned, nested>>

\* The machine starts again.
Reboot ==
  /\ Command(<<"reboot">>)
  /\ pc' = "idle"
  /\ command_buf' = [p \in MinPos..MaxPos |-> NUL] /\ doc_buf' = [p \in MinPos..MaxPos |-> NUL]
  /\ cursor_pos' = 0 /\ editor_mode' = 0 /\ bash_mode' = 0
  /\ argv' = [k \in 0..(MAX_ARGS - 1) |-> Null] /\ argc' = 0
  /\ frames' = << >>
  /\ current_clust' = Root /\ at_root' = 1 /\ folder_name' = Zero(PathLen)
  /\ typed' = << >> /\ path' = << >>
  /\ prompts' = 1
  /\ odd' = FALSE /\ spilled' = FALSE /\ nested' = FALSE /\ returned' = FALSE
  /\ worded' = FALSE /\ saving' = FALSE

-----------------------------------------------------------------------------
(* isl run and the loop.                                                   *)

ScriptFrame(s) == [kind |-> "script", data |-> [l \in DOMAIN s |-> CStr(s[l])], next |-> 1]
Running(kind)  == {k \in DOMAIN frames : frames[k].kind = kind}

\* isl run reads the cluster and starts with its first line, or runs over the
\* end of the stack.
IslRun ==
  /\ Command(<<"isl">>) /\ <<"run">> \in Argument(1) /\ argv[2] # Null
  /\ nested' = (nested \/ Running("script") # {})
  /\ bash_mode' = 1
  /\ IF Cardinality(Running("script")) < StackFrames
     THEN /\ \E s \in Scripts : frames' = Append(frames, ScriptFrame(s))
          /\ pc' = "next"
     ELSE pc' = "halted" /\ UNCHANGED frames
  /\ UNCHANGED <<keyboardVars, argVars, folderVars, prompts>>

Top == frames[Len(frames)]

\* The lines of the script still to be run; empty ones are skipped.
LinesLeft == {l \in DOMAIN Top.data : l >= Top.next /\ Top.data[l][0] # NUL}

\* Mutant: line is not set to next_line.
Advanced_Stuck(l, b) ==
  [frames EXCEPT ![Len(frames)] = [@ EXCEPT !.data[l] = b]]

Advanced(l, b) ==
  [frames EXCEPT ![Len(frames)] = [@ EXCEPT !.data[l] = b, !.next = l + 1]]

\* exec of the next line.  A line of the form `;' only prints a message.
NextLine ==
  /\ pc = "next" /\ Top.kind = "script"
  /\ \E l \in LinesLeft :
       LET b == Top.data[l] IN
       /\ \A m \in LinesLeft : l <= m
       /\ \/ /\ ExecWords(Len(frames), l, b)
             /\ frames' = Advanced(l, Split(b))
          \/ /\ \E s \in AfterSemicolon(b) :
                  /\ s # << >>
                  /\ frames' = Append(Advanced(l, b), LoopFrame(s))
             /\ UNCHANGED <<pc, argVars>>
          \/ /\ << >> \in AfterSemicolon(b)
             /\ frames' = Advanced(l, b)
             /\ UNCHANGED <<pc, argVars>>
  /\ UNCHANGED <<keyboardVars, bash_mode, folderVars, promptVars>>

\* Mutant: the end of a script always waits for a key.
Caller_Keyboard == "idle"

\* Where exec goes on when the innermost frame is gone.
Caller == IF Len(frames) = 1 THEN "idle" ELSE "next"

\* The last line is done: isl_run returns, and argv may point into its frame.
ScriptEnd ==
  /\ pc = "next" /\ Top.kind = "script" /\ LinesLeft = {}
  /\ argv' = [k \in DOMAIN argv |-> IF argv[k][1] = Len(frames) THEN Dead ELSE argv[k]]
  /\ frames' = SubSeq(frames, 1, Len(frames) - 1)
  /\ pc' = Caller
  /\ bash_mode' = 0
  /\ cmd_cleanup(editor_mode, 0)
  /\ UNCHANGED <<doc_buf, editor_mode, spilled, saving, argc, worded, folderVars, nested>>

\* exec of loop_cmd, once more.
LoopStep ==
  /\ pc = "next" /\ Top.kind = "loop"
  /\ LET b == Top.data[1] IN
     \/ /\ ExecWords(Len(frames), 1, b)
        /\ frames' = [frames EXCEPT ![Len(frames)].data[1] = Split(b)]
     \/ ExecLoop(b)
     \/ << >> \in AfterSemicolon(b) /\ UNCHANGED <<pc, frames, argVars>>
  /\ UNCHANGED <<keyboardVars, bash_mode, folderVars, promptVars>>

Key    == Type \/ EditorType \/ Backspace \/ F1 \/ Enter
Run    == Plain \/ Fault \/ Edit \/ CdUp \/ CdInto \/ Reboot \/ IslRun
Kernel == Run \/ NextLine \/ ScriptEnd \/ LoopStep

Next == Key \/ Kernel

Spec == Init /\ [][Next]_vars

\* The processor goes on with a command once it has begun.
FairSpec == Spec /\ WF_vars(Kernel)

-----------------------------------------------------------------------------
Text == [MinPos..MaxPos -> Keys \cup {NUL, NL}]

\* A pointer to a byte of a string that is still there.
Live(a) ==
  \/ a[1] = 0 /\ a[3] \in 0..MaxPos
  \/ /\ a[1] \in DOMAIN frames /\ a[2] \in DOMAIN frames[a[1]].data
     /\ a[3] \in DOMAIN frames[a[1]].data[a[2]]

TypeOK ==
  /\ pc \in {"idle", "run", "next", "halted"}
  /\ command_buf \in Text /\ doc_buf \in Text /\ cursor_pos \in MinPos..MaxPos
  /\ editor_mode \in {0, 1} /\ bash_mode \in {0, 1} /\ at_root \in {0, 1}
  /\ \A k \in 0..(MAX_ARGS - 1) : argv[k] \in {Null, Dead} \/ Live(argv[k])
  /\ argc \in 0..MAX_ARGS
  /\ current_clust \in Folders \cup {Root}
  /\ prompts \in 0..2
  /\ pc = "idle" => frames = << >>
  /\ pc = "next" => frames # << >>

\* When the user presses Enter, the words of command_buf are the words typed
\* since the prompt appeared: nothing is left of earlier lines, of text written
\* in the editor or of what a script did.  The line editor only promises this
\* for a line without Shift and without a backspace at its start (odd), until
\* some line gets longer than the bytes cmd_cleanup zeroes (spilled).
LineIsTyped ==
  pc = "idle" /\ editor_mode = 0 /\ ~odd /\ ~spilled
    => Words(command_buf) = Words(CStr(typed))

\* The text that F1 would save begins with what was typed in the editor and not
\* taken back, whoever opened the editor: a key, or a script that went on.  What
\* follows it is not promised: doc_buf keeps the tail of longer texts.
TextIsTyped ==
  editor_mode = 1 /\ ~odd =>
    /\ cursor_pos = Len(typed)
    /\ \A p \in 1..Len(typed) : doc_buf[p - 1] = typed[p]

\* Every command line is answered by exactly one prompt, whatever mix of
\* scripts and editor sessions it started; a script that runs another one
\* (isl_run clears bash_mode on return) and a lone `;' are the exceptions.
OnePrompt ==
  pc = "idle" /\ editor_mode = 0 /\ ~odd => prompts = 1 \/ nested

\* The kernel stops only on F1 in the editor, whose save reads through a missing
\* argument; on a command line without a word as long as none with a word has been
\* parsed since boot; or on a command line whose scripts run one another until
\* they exhaust the stack.  No letter, no backspace and no other line stops it,
\* whatever scripts have left in argv.
HaltsOnlySo ==
  pc = "halted" =>
    \/ saving
    \/ ~worded
    \/ nested /\ Cardinality(Running("script")) = StackFrames

\* The prompt shows no folder exactly in the root directory and, as long as
\* nothing has been left with cd .., the folders that lead to the current one.
PromptNamesDirectory ==
  /\ at_root = 1 <=> current_clust = Root
  /\ at_root = 0 /\ ~returned => CString(folder_name, 0) = path

\* A command ends, however its scripts call each other, unless it has started a
\* loop or the kernel has stopped.
CommandEnds ==
  pc # "idle" ~> (pc \in {"idle", "halted"} \/ Running("loop") # {})
=============================================================================
