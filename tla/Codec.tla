------------------------------- MODULE Codec -------------------------------
(***************************************************************************)
(* How numbers become bytes (chunkserver/spy_utils.c) and the checksum of  *)
(* what is stored (chunkserver/spy_adler32.c).                             *)
(*                                                                         *)
(* A cell stands for a byte and holds one of BYTE values.  The widths of   *)
(* the four integer types are constants, so that an instance can scale     *)
(* them down; the order of the fields and the arithmetic are the code's.   *)
(***************************************************************************)
EXTENDS Integers, SequencesExt

CONSTANTS
  BYTE,             \* values of a cell (256)
  N1, N2, N4, N8,   \* cells of a uint8_t, uint16_t, uint32_t and uint64_t
  BASE,             \* the modulus of the checksum (65521)
  HALF,             \* what splits its two sums (1 << 16)
  NMAX              \* cells summed before a reduction is due (5552)

ASSUME CodecAssumption ==
  /\ {BYTE, N1, N2, N4, N8, BASE, HALF, NMAX} \subseteq Nat \ {0}
  /\ BASE <= HALF
  /\ HALF * HALF <= BYTE^N8

Cell == 0 .. BYTE - 1

-----------------------------------------------------------------------------
(***************************************************************************)
(* spy_mach_write_to_1/2/4/8 and spy_mach_read_from_1/2/4/8: most          *)
(* significant byte first, what does not fit the width cut off.            *)
(***************************************************************************)

mach_write_to(n, data) == [i \in 1 .. n |-> (data \div BYTE^(n - i)) % BYTE]

mach_read_from(cells) == FoldLeft(LAMBDA data, b : data * BYTE + b, 0, cells)

-----------------------------------------------------------------------------
(***************************************************************************)
(* Adler-32: two running sums, reduced after at most NMAX cells and at the *)
(* end of every area of memory the data lies in.                           *)
(***************************************************************************)

SplitSums(adler) == [adler |-> adler % HALF, sum2 |-> (adler \div HALF) % HALF]

JoinSums(s) == s.adler + s.sum2 * HALF

\* DO1 ... DO16: the sums without a reduction.
DO(s, cells) ==
  FoldLeft(LAMBDA t, b : [adler |-> t.adler + b, sum2 |-> t.sum2 + t.adler + b],
           s, cells)

MOD(s) == [adler |-> s.adler % BASE, sum2 |-> s.sum2 % BASE]

\* What one contiguous area adds to the sums.
RECURSIVE AddArea(_, _)
AddArea(s, cells) ==
  IF Len(cells) >= NMAX
  THEN AddArea(MOD(DO(s, SubSeq(cells, 1, NMAX))),
               SubSeq(cells, NMAX + 1, Len(cells)))
  ELSE IF cells = <<>> THEN s ELSE MOD(DO(s, cells))

spy_adler32(adler, cells) == JoinSums(AddArea(SplitSums(adler), cells))

-----------------------------------------------------------------------------
(***************************************************************************)
(* The checksum by its closed form, over data in one piece: what the code  *)
(* is measured against.                                                    *)
(***************************************************************************)

Adler(cells) ==
  LET n == Len(cells) IN
  JoinSums([adler |-> FoldLeft(LAMBDA a, b : a + b, 0, cells) % BASE,
            sum2  |-> FoldLeftDomain(LAMBDA a, i : a + (n - i + 1) * cells[i],
                                     0, cells) % BASE])
=============================================================================
