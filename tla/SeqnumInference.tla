-------------------------- MODULE SeqnumInference --------------------------
(***************************************************************************)
(* The arithmetic that lets PABotBase keep 64-bit sequence numbers while   *)
(* the wire carries only their low 32 bits.  SeqMod stands for 2^32, the   *)
(* range of seqnum_t; everything below holds for any modulus.              *)
(***************************************************************************)
EXTENDS Integers

CONSTANT SeqMod      \* the number of values of seqnum_t (2^32 in the code)

ASSUME SeqModAssumption == SeqMod \in Nat \ {0}

(* (seqnum_t)seqnum: what is copied into the message body.                 *)
Truncate(full) == full % SeqMod

(* full & 0xffffffff00000000                                               *)
HighPart(full) == (full \div SeqMod) * SeqMod

(* A mistaken infer_full_seqnum, which overlooks the wrap-around.          *)
InferFullSeqnumLow(lo, hi, seqnum) == HighPart(lo) + seqnum

(* PABotBase::infer_full_seqnum, for a map whose smallest key is lo and    *)
(* whose largest key is hi.                                                *)
InferFullSeqnum(lo, hi, seqnum) ==
    LET lo_candidate == HighPart(lo) + seqnum
        hi_candidate == HighPart(hi) + seqnum
    IN  IF lo_candidate >= lo THEN lo_candidate ELSE hi_candidate

(* PABotBase::MAX_SEQNUM_GAP, (seqnum_t)-1 >> 2.                           *)
MAX_SEQNUM_GAP == (SeqMod - 1) \div 4
=============================================================================
