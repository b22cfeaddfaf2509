--------------------------- MODULE MCSlidingWindow ---------------------------
(***************************************************************************)
(* Files of up to nine bytes in blocks of one to three, whose length stays *)
(* or changes by one.                                                      *)
(***************************************************************************)
EXTENDS SlidingWindow
=============================================================================
