----------------------------- MODULE DenseSets ------------------------------
(***************************************************************************)
(* A file of vectors, MMF_Dense_Sets of src/MMF_Dense_Sets.h: a count, a   *)
(* header with the size and the place of each vector, and one body.        *)
(***************************************************************************)
EXTENDS Integers, SequencesExt

\* item_offset, before each vector and after the last
Offsets(src) ==
  LET offset[i \in 1..(Len(src) + 1)] ==
        IF i = 1 THEN 0 ELSE offset[i - 1] + Len(src[i - 1])
  IN offset

\* MMF_Dense_Sets::make
dense(src) == [header |-> [i \in DOMAIN src |-> [count |-> Len(src[i]), offset |-> Offsets(src)[i]]],
               body |-> FlattenSeq(src)]

\* size and operator[]
dense_size(sets) == Len(sets.header)
dense_at(sets, b) == SubSeq(sets.body, sets.header[b + 1].offset + 1,
                            sets.header[b + 1].offset + sets.header[b + 1].count)

\* MMF_Dense_Sets::test, after which make returns
dense_test(sets, src) == /\ dense_size(sets) = Len(src)
                         /\ \A i \in DOMAIN src : dense_at(sets, i - 1) = src[i]
=============================================================================
