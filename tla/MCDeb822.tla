------------------------------ MODULE MCDeb822 --------------------------------
(***************************************************************************)
(* Files of up to six lines, with two fields, of which one is named "0": a *)
(* signed message of one line and its signature take five, and a field     *)
(* ahead of it makes six.                                                  *)
(***************************************************************************)
EXTENDS Deb822
=============================================================================
