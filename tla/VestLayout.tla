------------------------------ MODULE VestLayout ------------------------------
(***************************************************************************)
(* How a VestInfo lies in its dictionary entry: 80 bytes, then 40 for each *)
(* schedule.                                                               *)
(***************************************************************************)
EXTENDS EntryBytes, SequencesExt

pack_schedule(s) == to_le(s.release, 8) \o to_le(s.amount, 32)

pack(lock) ==
  to_le(lock.id, 8) \o to_le(lock.lock_time, 8)
  \o to_le(lock.recipient, 32) \o to_le(lock.token_hash, 32)
  \o FlattenSeq([i \in 1..Len(lock.schedules) |-> pack_schedule(lock.schedules[i])])

\* Mutated unpack_schedule: the amount is read from where the release begins.
unpack_schedule_early(src) ==
  [release |-> from_le(Slice(src, 0, 8), 8), amount |-> from_le(Slice(src, 0, 32), 32)]

unpack_schedule(src) ==
  [release |-> from_le(Slice(src, 0, 8), 8), amount |-> from_le(Slice(src, 8, 40), 32)]

unpack_all_schedules(src) ==
  [i \in 1..(Len(src) \div 40) |-> unpack_schedule(Slice(src, (i - 1) * 40, i * 40))]

unpack_recipient(src) == from_le(Slice(src, 16, 48), 32)

\* unpack panics on a slice out of range and reverts on a broken schedule.
CanUnpack(src) == Len(src) >= 80 /\ (Len(src) - 80) % 40 = 0

unpack(src) ==
  [id         |-> from_le(Slice(src, 0, 8), 8),
   lock_time  |-> from_le(Slice(src, 8, 16), 8),
   recipient  |-> from_le(Slice(src, 16, 48), 32),
   token_hash |-> from_le(Slice(src, 48, 80), 32),
   schedules  |-> unpack_all_schedules(Slice(src, 80, Len(src)))]

\* What a finished lock leaves in the dictionary, where nothing can be deleted.
clear_entry == << >>
=============================================================================
