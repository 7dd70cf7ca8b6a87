------------------------------ MODULE MCShell ------------------------------
(* Instances of Shell for TLC.                                             *)
EXTENDS Shell

MCLetters == {" ", "/", ";", "nl", "a", "cd", "..", "echo", "edit", "isl", "run", "reboot"}

\* Scripts: none; a folder entered, an empty line, and the editor opened half-way;
\* the root, and a line of spaces; a nested or self-running script, a lone `;', and a
\* reboot; a loop.
MCScripts ==
  { << >>,
    <<<<"cd", " ", "a">>, << >>, <<"edit", " ", "a">>, <<"echo">>>>,
    <<<<"cd", " ", "..">>, <<" ">>, <<"echo">>>>,
    <<<<"isl", " ", "run", " ", "a">>, <<";">>, <<"reboot">>>>,
    <<<<";", "isl", " ", "run", " ", "a">>>> }

\* A dead stack frame still holds a word of the script, or anything else.
MCGarbage == { << >>, <<"a">> }
=============================================================================
