------------------------------ MODULE MCFat32 ------------------------------
(* Instances of Fat32 for TLC.                                             *)
EXTENDS Fat32

\* "a" fits everywhere; "documents" is longer than a directory entry's
\* eight bytes and a file's seven; "." and ".." are typed as well.
MCFileStem == [n \in Names |-> IF n = "documents" THEN "documen" ELSE n]
MCDirStem  == [n \in Names |-> IF n = "documents" THEN "document" ELSE n]
MCCdStem   == [n \in Names |-> n]
MCStems    == {".", "..", "documen", "document"} \cup Names

\* 300 is a length that does not fit the low byte, 600 one that does not fit the
\* sector, and "sector" is what is left of it there.
MCTextLen  ==
  [t \in Texts |-> CASE t = "huge" -> 600 [] t = "sector" -> 512
                     [] t = "long" -> 300 [] OTHER -> 5]
MCCut      == [t \in Texts |-> IF t = "huge" THEN "sector" ELSE t]
=============================================================================
