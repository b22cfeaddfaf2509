---------------------- MODULE ProfileImplementsSelection ----------------------
(***************************************************************************)
(* The loops of Profile implement the sets of TagSelection: a loop in      *)
(* progress counts as finished, so that the steps of the loop, in whatever *)
(* order, leave the abstract set alone.                                    *)
(***************************************************************************)
EXTENDS Profile

Stage ==
    CASE phase \in {"read", "header", "disable", "sections", "loaded"} -> "loading"
      [] phase \in {"ftp_enable", "ftp_durable", "select"} -> "loaded"
      [] phase \in {"select_enable", "suppress"} -> "chosen"
      [] phase = "ready" -> "done"
      [] phase = "died" -> "rejected"

\* What enabled_tags will be at the end of the loop.
AfterLoop == IF loop.op = "enable" THEN enabled_tags \cup CurrentTags(loop.todo)
             ELSE enabled_tags \ CurrentTags(loop.todo)

Enabled ==
    CASE phase = "died" -> {}
      [] phase = "disable" -> AfterLoop \ DisableList(Current)
      [] phase = "ftp_enable" -> CurrentTags(Certain \cup Preventable)
      [] phase = "select_enable" ->
            IF selected.tags # {} THEN CurrentTags(selected.tags) ELSE PartTags
      [] OTHER -> AfterLoop

Selection == INSTANCE TagSelection WITH stage <- Stage, enabled <- Enabled

\* Every step of Profile, the options included, is a step of TagSelection or
\* leaves its state alone: the tags that end up enabled are those promised,
\* save for those that a profile both enables and disables (Contested).
ImplementsTagSelection == Selection!Spec
=============================================================================
