---------------------------- MODULE MCTrafficControl ----------------------------
(* Small instances of TrafficControl for TLC: a uint32 of 2^8 values, and a *)
(* thousand of 10.                                                         *)
EXTENDS TrafficControl

\* 1 and 2: 2 mega is within a word, 3 mega is not.  12 and 13: the ceiling's sum
\* wraps for the second with "kilo".  25 and 26: the largest rate in "kilo" and
\* one too large.  64: its "mega" wraps to 0.  122: its ceiling wraps to 0.
\* 255 and 256: the largest number that parses and one too large.
MCNumbers == {1, 2, 3, 12, 13, 25, 26, 64, 122, 255, 256}
=============================================================================
