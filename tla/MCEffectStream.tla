--------------------------- MODULE MCEffectStream ---------------------------
(* Small instances of EffectStream for TLC. *)
EXTENDS EffectStream

\* One row, two rows, and one oversized row that may stand alone.
MCPayloads == {[rows |-> 1, bytes |-> 1], [rows |-> 2, bytes |-> 1], [rows |-> 1, bytes |-> 3]}
MCSmallPayloads == {[rows |-> 1, bytes |-> 1], [rows |-> 1, bytes |-> 3]}
=============================================================================
