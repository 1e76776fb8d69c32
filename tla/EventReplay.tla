---------------------------- MODULE EventReplay -----------------------------
(***************************************************************************)
(* What a consumer of EVENT_TOPIC_INVENTORY_CHANGED can know of one        *)
(* inventory.  The consumer is not in this repository: it is modelled as   *)
(* one that keeps a picture slot -> content and applies the events as the  *)
(* game client does, a MOVE exchanging the two slots it names.             *)
(***************************************************************************)
EXTENDS SlotTable, SequencesExt

\* The picture of a table: what each occupied slot holds.
Picture(t, Content(_)) == [s \in SlotsOf(t) |-> Content(t[RowAt(t, s)])]

Exchanged(pic, s, d) ==
  LET other == [x \in {s, d} |-> IF x = s THEN d ELSE s]
      slots == {x \in DOMAIN pic : x \notin {s, d}}
               \cup {x \in {s, d} : other[x] \in DOMAIN pic}
  IN [x \in slots |-> IF x \in {s, d} THEN pic[other[x]] ELSE pic[x]]

Apply(pic, e, Content(_)) ==
  CASE e.type \in {"ADD", "UPDATE"} -> [x \in DOMAIN pic \cup {e.slot} |->
                                          IF x = e.slot THEN Content(e) ELSE pic[x]]
    [] e.type = "REMOVE" -> [x \in DOMAIN pic \ {e.slot} |-> pic[x]]
    [] e.type = "MOVE" -> Exchanged(pic, e.oldSlot, e.slot)

Replay(pic, events, Content(_)) ==
  LET after[k \in 0 .. Len(events)] ==
        IF k = 0 THEN pic ELSE Apply(after[k - 1], events[k], Content)
  IN after[Len(events)]
=============================================================================
