------------------------------ MODULE Options ------------------------------
(***************************************************************************)
(* One option of m_config.c with its stack of save slots, as operators on  *)
(* the record                                                              *)
(*   lvl     config->lvl                                                   *)
(*   slots   the values of co->slots, the oldest first: slot i was made    *)
(*           at level i - 1                                                *)
(*   var     the variable the option points to                             *)
(* The player reads the variable, and may write it behind m_config's back  *)
(* (slave commands do).                                                    *)
(*                                                                         *)
(* Options that are global, not saved, or of an M_OPT_OLD type are left    *)
(* out: they have no slots.                                                *)
(***************************************************************************)
EXTENDS Integers, Sequences

\* The slot an option entry writes to.  An alias (an entry whose variable
\* another one has already) keeps the slot its primary had when it was added.
SlotOf(c, alias) == IF alias THEN 2 ELSE Len(c.slots)

\* m_config_new and m_config_add_option: the default, and level 1.
Fresh(value) == [lvl |-> 1, slots |-> <<value, value>>, var |-> value]

\* m_config_push: save the variable in the newest slot, then copy that slot.
Push(c) ==
  [lvl   |-> c.lvl + 1,
   slots |-> Append([c.slots EXCEPT ![Len(c.slots)] = c.var], c.var),
   var   |-> c.var]

\* m_config_pop: drop the slots of this level, restore from the newest left.
PopKeepsVar(c) == [c EXCEPT !.lvl = @ - 1, !.slots = SubSeq(@, 1, c.lvl)]
Pop(c) ==
  LET kept == SubSeq(c.slots, 1, c.lvl)
  IN [lvl   |-> c.lvl - 1,
      slots |-> kept,
      var   |-> IF Len(kept) < Len(c.slots) THEN kept[Len(kept)] ELSE c.var]

\* m_config_set_option
Assign(c, p) ==
  [c EXCEPT !.slots[SlotOf(c, p.alias)] = p.val, !.var = p.val]

\* What an entry sets the option to, if anything.
Apply(c, ps) == IF ps = <<>> THEN c ELSE Assign(c, ps[1])
=============================================================================
