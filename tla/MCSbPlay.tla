----------------------------- MODULE MCSbPlay -----------------------------
(* Instances of SbPlay for TLC: bytes of two values, so 16 bit registers of *)
(* four, and buffers of up to four samples.                                 *)
EXTENDS SbPlay

Song(kind, block, count, loop) ==
    [kind |-> kind, block |-> block, count |-> count, loop |-> loop]
McSongs ==
    { Song("single", 3, 3, FALSE), Song("single", 1, 2, TRUE), Song("single_hs", 2, 4, TRUE),
      Song("wide", 2, 2, FALSE), Song("auto", 2, 3, TRUE), Song("auto_hs", 3, 4, TRUE),
      Song("wide_auto", 1, 2, TRUE) }
McUses == {"detect", "reset", "halt", "pause", "poll"}
McHandler == {"next", "exit"}
\* Uses with which a property fails (see the README): reading half a counter,
\* pausing a single block, a handler that changes the width of the samples.
LowPolls == McUses \cup {"poll_low"}
SinglePauses == McUses \cup {"pause_single"}
Widening == {"next", "widen"}
=============================================================================
