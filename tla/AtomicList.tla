---------------------------- MODULE AtomicList -----------------------------
(***************************************************************************)
(* A list as its readers should find it: one item joins at the end, or one *)
(* item leaves, in a single step.                                          *)
(***************************************************************************)
EXTENDS Sequences

CONSTANT Items

VARIABLE entries

Occurs(v) == \E k \in DOMAIN entries : entries[k] = v

LInit == entries = <<>>

Join(v) == ~Occurs(v) /\ entries' = Append(entries, v)

Leave(v) == Occurs(v) /\ entries' = SelectSeq(entries, LAMBDA w : w # v)

LNext == \E v \in Items : Join(v) \/ Leave(v)

LSpec == LInit /\ [][LNext]_entries
=============================================================================
