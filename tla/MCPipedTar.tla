------------------------------ MODULE MCPipedTar ------------------------------
(***************************************************************************)
(* An archive of six chunks, pipes that hold two, so that every pipe fills *)
(* up with more to come, and two of the three readers (the listings differ *)
(* in an option, and in that the complaints of the numeric one are         *)
(* dropped): one that extracts in silence, and one that may die, and makes  *)
(* of each chunk a complaint or a listing of two.                          *)
(***************************************************************************)
EXTENDS PipedTar, TLC

MCReaderOrder == <<"extract", "numeric">>

\* In the order in which open3 is called; each call leaves gaps that the next
\* one fills.
MCFileNo == Out("produce") :> 5 @@ Out("extract") :> 6 @@ Err("produce") :> 7
            @@ Err("extract") :> 9 @@ Out("numeric") :> 10 @@ Err("numeric") :> 12
MCYields == "extract" :> {<<0, 0>>} @@ "numeric" :> {<<0, 1>>, <<2, 0>>}
=============================================================================
