------------------------------- MODULE MCBoot -------------------------------
(* What SealOS can find when it starts, for TLC.  Each kind of machine      *)
(* varies one part: the memory map, the framebuffer, or drive and keyboard. *)
EXTENDS Boot

Volume   == <<0, 2, 3, 4>>      \* 512 bytes per sector
NoVolume == <<0, 0, 5, 6>>
MCContents == {Volume, NoVolume}

Medium(c) == [s \in {0, 1} |-> IF s = 0 THEN c ELSE NoVolume]

Lens == {0, 1, 16}

\* Three regions, back to back from page 0.
Map(ts, ns) ==
  <<[type |-> ts[1], base |-> 0, len |-> ns[1]],
    [type |-> ts[2], base |-> ns[1], len |-> ns[2]],
    [type |-> ts[3], base |-> ns[1] + ns[2], len |-> ns[3]]>>

MCMemMaps == {Map(ts, ns) : ts \in Types \X Types \X Types, ns \in Lens \X Lens \X Lens}

Screen8(w, h, more) == [width |-> w, height |-> h, stride |-> w + more, masks |-> <<8, 8, 8>>]

\* Common screens, the limits and the bounds of the scales, each with one less.
MCFramebuffers ==
  {Screen8(d[1], d[2], more) :
     d \in {<<8, 15>>, <<640, 480>>, <<1366, 768>>, <<1920, 1200>>, <<1921, 1201>>,
            <<2560, 1439>>, <<2560, 1440>>, <<3840, 1080>>, <<5119, 2880>>, <<5120, 2880>>},
     more \in {0, 10}}
  \cup {[width |-> 1024, height |-> 768, stride |-> 1024, masks |-> m] :
          m \in {<<5, 6, 5>>, <<10, 10, 10>>, <<8, 8, 0>>}}

PlainMap    == Map(<<"usable", "kernel", "reserved">>, <<16, 0, 16>>)
PlainScreen == Screen8(640, 480, 0)

\* A page for one buffer, or for none.
ScarceMaps == {Map(<<"usable", "kernel", "reserved">>, <<n, 0, 16>>) : n \in {0, 1}}

MCMachines ==
  [memmap : MCMemMaps, fb : {PlainScreen}, drive : {"absent"}, medium : {Medium(Volume)}, keys : {0}]
  \cup [memmap : {PlainMap}, fb : MCFramebuffers, drive : {"good"}, medium : {Medium(Volume)}, keys : {0}]
  \cup [memmap : {PlainMap}, fb : {PlainScreen}, drive : {"good", "failing", "absent"},
        medium : {Medium(c) : c \in MCContents}, keys : {0}]
  \cup [memmap : {PlainMap}, fb : {PlainScreen}, drive : {"good"}, medium : {Medium(Volume)}, keys : {2}]
  \cup [memmap : {PlainMap}, fb : {PlainScreen}, drive : {"failing", "absent"},
        medium : {Medium(Volume)}, keys : {1}]
  \cup [memmap : ScarceMaps, fb : {PlainScreen}, drive : {"good"}, medium : {Medium(Volume)}, keys : {1}]
=============================================================================
