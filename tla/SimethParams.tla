---------------------------- MODULE SimethParams ----------------------------
(***************************************************************************)
(* The descriptor-count parameters of the simeth driver                    *)
(* (g_n_txds, g_n_rxds) and the arithmetic simeth.c does on them.          *)
(***************************************************************************)
EXTENDS Naturals

(* Range, default and alignment of a descriptor count.  The alignment is   *)
(* SIMETH_DESC_RING_ALIGNER = 128 / sizeof (simeth_desc_t), four 32-bit    *)
(* words.                                                                  *)
MinDescs    == 32
MaxDescs    == 512
DefDescs    == 64
DescBytes   == 16
DescAligner == 128 \div DescBytes

(* A count is out of range: the driver falls back to the default.          *)
OutOfRange(n) == n < MinDescs \/ n > MaxDescs

(* _simeth_adjust_descq_count, the same code for tx and for rx.            *)
AdjustOffByOne(n) == IF n < MinDescs - 1 \/ n > MaxDescs THEN DefDescs
                     ELSE n - (n % DescAligner)

Adjust(n) == IF OutOfRange(n) THEN DefDescs ELSE n - (n % DescAligner)

(* What the parameter descriptions promise of a count.                     *)
Documented(n) == n \in MinDescs .. MaxDescs /\ n % DescAligner = 0
=============================================================================
