---------------------------- MODULE MCRecvFraming ----------------------------
(***************************************************************************)
(* RecvFraming for TLC: heads of 3 bytes, bodies of up to 4, a buffer of 4 *)
(* bytes, so that a head and a body take one, two or three reads and one   *)
(* read brings the end of a frame and the beginning of the next; streams   *)
(* of up to three frames with empty bodies, bad ids and lengths that are   *)
(* too big, -1 and less among them.                                        *)
(***************************************************************************)
EXTENDS RecvFraming

F(len) == [len |-> len, idok |-> TRUE]

BadId == [len |-> 1, idok |-> FALSE]

MCFrameSeqs ==
    {<<F(1), F(3)>>, <<F(3), F(0)>>, <<F(0), F(1), F(0)>>,
     <<F(1), F(MAX_LENGTH + 1), F(0)>>, <<F(1), BadId, F(0)>>,
     <<F(1), F(-1), F(1)>>, <<F(1), F(-2), F(0)>>}
=============================================================================
