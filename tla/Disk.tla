-------------------------------- MODULE Disk --------------------------------
(***************************************************************************)
(* What read_ata and write_ata promise their callers: one request at a     *)
(* time moves one whole sector, at once, between the disk and the buffer   *)
(* it names, and changes nothing else.  Only a drive that is not reliable  *)
(* may end a request without it.                                           *)
(***************************************************************************)
CONSTANTS Sectors, Contents, Buffers

VARIABLES sectors, buffers, request, reliable

NoRequest == [op |-> "none"]

Requests ==
  [op : {"read"}, sector : Sectors, buffer : Buffers]
  \cup [op : {"write"}, sector : Sectors, data : Contents]

Init ==
  /\ sectors \in [Sectors -> Contents]
  /\ buffers \in [Buffers -> Contents]
  /\ request = NoRequest

Ask == request = NoRequest /\ request' \in Requests /\ UNCHANGED <<sectors, buffers>>

Read ==
  /\ request.op = "read"
  /\ buffers' = [buffers EXCEPT ![request.buffer] = sectors[request.sector]]
  /\ request' = NoRequest /\ UNCHANGED sectors

Write ==
  /\ request.op = "write"
  /\ sectors' = [sectors EXCEPT ![request.sector] = request.data]
  /\ request' = NoRequest /\ UNCHANGED buffers

Fail ==
  /\ ~reliable /\ request # NoRequest
  /\ request' = NoRequest /\ UNCHANGED <<sectors, buffers>>

Next == (Ask \/ Read \/ Write \/ Fail) /\ UNCHANGED reliable

Spec == Init /\ [][Next]_<<sectors, buffers, request, reliable>>
=============================================================================
