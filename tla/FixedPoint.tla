----------------------------- MODULE FixedPoint -----------------------------
(***************************************************************************)
(* How fixedpoint.h turns a row of floats into integers and back:          *)
(* fast_pow2, the stochastic rounding, and fit_exponent,                   *)
(* floats_to_mantissa and mantissa_to_floats of FixedPointBlock for one    *)
(* row (block_columns; the other case walks columns the same way).         *)
(*                                                                         *)
(* A float is its sign, exponent field and fraction; the widths are        *)
(* parameters.  Numbers are integers in units of the smallest normal       *)
(* float's last place, means are exact quotients <<sum, count>>.           *)
(* Denormals count as zero, as they do in the code.  The generator of the  *)
(* noise, xorshift32, is left out: an element is rounded with one of three *)
(* noises, which give every result any noise gives.                        *)
(***************************************************************************)
EXTENDS Integers, FiniteSets, FiniteSetsExt

CONSTANTS
    FracBits,      \* 23
    Bias,          \* 127; the exponent field holds 0 .. 2 * Bias + 1
    Word,          \* 32: the bits of the unsigned integers
    Lanes,         \* 4: how many elements the rounding loop takes at a time
    Precision,     \* 8: force_precision of every caller
    MantissaBits,  \* 16 or 8: the bits of the mantissa type T
    Offset,        \* 127: added to make a mantissa unsigned
    Row            \* the rows to convert: functions from 0 .. n-1 to floats

ASSUME FixedPointAssumption ==
    /\ {FracBits, Bias, Word, Lanes, Precision, MantissaBits, Offset} \subseteq Nat \ {0}
    /\ FracBits < Word /\ Precision < Word

(* Powers of two, and shifts by them. *)
Pow2[n \in Nat] == IF n = 0 THEN 1 ELSE 2 * Pow2[n - 1]

Float == [neg : BOOLEAN, exp : 0 .. 2 * Bias + 1, frac : 0 .. Pow2[FracBits] - 1]
Zero == [neg |-> FALSE, exp |-> 0, frac |-> 0]
IsZero(x) == x.exp = 0
Infinite(x) == x.exp = 2 * Bias + 1

ASSUME RowAssumption ==
    \A row \in Row : /\ IsFiniteSet(DOMAIN row)
                     /\ row \in [0 .. Cardinality(DOMAIN row) - 1 -> Float]

(* A signed integer of w bits, and conversion to it. *)
Signed(w) == -(Pow2[w - 1]) .. Pow2[w - 1] - 1
Wrap(v, w) == ((v + Pow2[w - 1]) % Pow2[w]) - Pow2[w - 1]

Abs(v) == IF v < 0 THEN -v ELSE v
Negate(neg, v) == IF neg THEN -v ELSE v

(* The value of a float, and 2^e, in units of 2^(1 - Bias - FracBits). *)
Magnitude(x) == IF IsZero(x) THEN 0 ELSE (Pow2[FracBits] + x.frac) * Pow2[x.exp - 1]
ValueOf(x) == Negate(x.neg, Magnitude(x))
UnitsOf2To(e) == Pow2[e + Bias + FracBits - 1]

-----------------------------------------------------------------------------
(* fast_pow2: the exponent field is written without a look at its range,   *)
(* so that it wraps into the sign.                                         *)
fast_pow2(shift) ==
    [neg |-> ((Bias + shift) \div (2 * Bias + 2)) % 2 = 1,
     exp |-> (Bias + shift) % (2 * Bias + 2),
     frac |-> 0]

InRange(shift) == Bias + shift \in 1 .. 2 * Bias

(* Multiplication by what fast_pow2 returned (external: IEEE arithmetic).  *)
NotANumber == [neg |-> FALSE, exp |-> 2 * Bias + 1, frac |-> 1]
Infinity(neg) == [neg |-> neg, exp |-> 2 * Bias + 1, frac |-> 0]
Times(x, p) ==
    CASE IsZero(x) -> IF Infinite(p) THEN NotANumber ELSE Zero
      [] ~IsZero(x) /\ IsZero(p) -> Zero
      [] OTHER -> LET e == x.exp + p.exp - Bias IN
                  IF e <= 0 THEN Zero
                  ELSE IF Infinite(p) \/ e > 2 * Bias THEN Infinity(x.neg # p.neg)
                  ELSE [neg |-> x.neg # p.neg, exp |-> e, frac |-> x.frac]

-----------------------------------------------------------------------------
(* Stochastic rounding. *)

calculate_scaled_fixed_value(mantissa, bit_shift) ==
    CASE bit_shift >= Word -> 0
      [] bit_shift >= 0 /\ bit_shift < Word -> mantissa \div Pow2[bit_shift]
      [] bit_shift < 0 /\ bit_shift > -Word -> (mantissa * Pow2[-bit_shift]) % Pow2[Word]
      [] bit_shift <= -Word -> 0

(* Wrong on purpose: the noise may be as large as one. *)
round_with_carry(x, noise) ==
    LET scaled == calculate_scaled_fixed_value(Pow2[FracBits] + x.frac, Bias + FracBits - Precision - x.exp)
    IN  IF IsZero(x) THEN 0
        ELSE Negate(x.neg, (scaled \div Pow2[Precision])
                + ((scaled % Pow2[Precision]) + (noise % Pow2[Precision]) + 1) \div Pow2[Precision])

(* The result before its conversion to T: the integer part of the          *)
(* magnitude, one more if fraction and noise make a carry, and the sign.   *)
process_single_stochastic_round(x, noise) ==
    LET scaled == calculate_scaled_fixed_value(Pow2[FracBits] + x.frac, Bias + FracBits - Precision - x.exp)
    IN  IF IsZero(x) THEN 0
        ELSE Negate(x.neg, (scaled \div Pow2[Precision])
                + ((scaled % Pow2[Precision]) + (noise % Pow2[Precision])) \div Pow2[Precision])

(* The elements of an array of n that the loop in steps of Lanes and the   *)
(* loop over the remainder round.                                          *)
LaneStarts(n) == {i \in 0 .. n : i % Lanes = 0 /\ i < n - (Lanes - 1)}

remainder_start(n) == (n \div Lanes) * Lanes

TimesRounded(n, i) ==
    Cardinality({s \in LaneStarts(n) : i \in s .. s + Lanes - 1})
        + (IF i \in remainder_start(n) .. n - 1 THEN 1 ELSE 0)

-----------------------------------------------------------------------------
(* The blocks of a row. *)

VARIABLES
    pc,
    values,      \* the row
    block_size,
    exponents,   \* by block index
    means,       \* by block index
    mantissa,    \* the integers before the mean is taken off, then after
    integer_mean,
    output       \* by element: what is sent to the NPU, or the float given back
                 \* (in units times the block's count)

vars == <<pc, values, block_size, exponents, means, mantissa, integer_mean, output>>

cols == Cardinality(DOMAIN values)

(* Wrong on purpose: the block that is not full is left out. *)
whole_blocks == cols \div block_size

num_blocks == (cols + block_size - 1) \div block_size

BlockIndex == 0 .. num_blocks - 1
start_col(b) == b * block_size
end_col(b) == IF start_col(b) + block_size < cols THEN start_col(b) + block_size ELSE cols
Columns(b) == start_col(b) .. end_col(b) - 1
BlockOf(i) == i \div block_size

None == [i \in {} |-> 0]

Init ==
    /\ pc = "fit"
    /\ values \in Row
    /\ block_size \in 1 .. Cardinality(DOMAIN values)
    /\ exponents = None
    /\ means = None
    /\ mantissa = None
    /\ integer_mean = None
    /\ output = None

(* block_sum, element by element. *)
SumOf(b) ==
    LET count == end_col(b) - start_col(b)
        block_sum[n \in 0 .. count] ==
            IF n = 0 THEN 0 ELSE block_sum[n - 1] + ValueOf(values[start_col(b) + n - 1])
    IN  block_sum[count]

(* Wrong on purpose: the largest value is taken for a power of two. *)
exponent_below(biased) == IF biased > 0 THEN biased - Bias ELSE -Bias

exponent_of(biased) == IF biased > 0 THEN biased - Bias + 1 ELSE -Bias

fit_exponent ==
    /\ pc = "fit"
    /\ exponents' = [b \in BlockIndex |-> exponent_of(Max({values[i].exp : i \in Columns(b)}))]
    /\ means' = [b \in BlockIndex |-> <<SumOf(b), Cardinality(Columns(b))>>]
    /\ pc' = "round"
    /\ UNCHANGED <<values, block_size, mantissa, integer_mean, output>>

(* floats_to_mantissa, first part: scale by the exponent and round.        *)
Scaled(i) == Times(values[i], fast_pow2(-exponents[BlockOf(i)]))

RoundRow ==
    /\ pc = "round"
    /\ \E noise \in [0 .. cols - 1 -> {0, Pow2[Precision] \div 2, Pow2[Precision] - 1}] :
          mantissa' = [i \in 0 .. cols - 1 |->
                          Wrap(process_single_stochastic_round(Scaled(i), noise[i]), MantissaBits)]
    /\ pc' = "centre"
    /\ UNCHANGED <<values, block_size, exponents, means, integer_mean, output>>

(* std::round of the mean times 2^(Precision - exponent): halves go away   *)
(* from zero.                                                              *)
RoundQuotient(num, den) == Negate(num < 0, (2 * Abs(num) + den) \div (2 * den))

MeanScale(b) == fast_pow2(Precision - exponents[b])

ScaledMean(b) ==
    RoundQuotient(Negate(MeanScale(b).neg, means[b][1]),
                  means[b][2] * Pow2[2 * Bias + FracBits - 1 - MeanScale(b).exp])

(* The conversion to T of what does not fit, infinities and not-a-number   *)
(* among it, may give anything.                                            *)
MeanChoices(b) ==
    IF Infinite(MeanScale(b)) THEN Signed(MantissaBits)
    ELSE IF IsZero(MeanScale(b)) THEN {0}
    ELSE IF ScaledMean(b) \in Signed(MantissaBits) THEN {ScaledMean(b)}
    ELSE Signed(MantissaBits)

(* Wrong on purpose: the mean is added. *)
CentreAdding ==
    /\ pc = "centre"
    /\ integer_mean' \in [BlockIndex -> UNION {MeanChoices(b) : b \in BlockIndex}]
    /\ \A b \in BlockIndex : integer_mean'[b] \in MeanChoices(b)
    /\ mantissa' = [i \in 0 .. cols - 1 |->
                        Wrap(mantissa[i] + integer_mean'[BlockOf(i)], MantissaBits)]
    /\ pc' = "centred"
    /\ UNCHANGED <<values, block_size, exponents, means, output>>

(* floats_to_mantissa, second part: take the mean off. *)
CentreRow ==
    /\ pc = "centre"
    /\ integer_mean' \in [BlockIndex -> UNION {MeanChoices(b) : b \in BlockIndex}]
    /\ \A b \in BlockIndex : integer_mean'[b] \in MeanChoices(b)
    /\ mantissa' = [i \in 0 .. cols - 1 |->
                        Wrap(mantissa[i] - integer_mean'[BlockOf(i)], MantissaBits)]
    /\ pc' = "centred"
    /\ UNCHANGED <<values, block_size, exponents, means, output>>

(* mantissa_to_floats: mantissa * 2^(exponent - precision) + mean, here    *)
(* times the number of elements of the block.                              *)
RestoreScale(b) == fast_pow2(exponents[b] - Precision)

mantissa_to_floats ==
    /\ pc = "centred"
    /\ output' = [i \in 0 .. cols - 1 |->
                     LET b == BlockOf(i) IN
                     IF Infinite(RestoreScale(b)) THEN "not finite"
                     ELSE mantissa[i] * ValueOf(RestoreScale(b)) * means[b][2] + means[b][1]]
    /\ pc' = "restored"
    /\ UNCHANGED <<values, block_size, exponents, means, mantissa, integer_mean>>

(* Wrong on purpose: the type of the mantissa is reinterpreted. *)
EncodeSigned ==
    /\ pc = "centred"
    /\ output' = [i \in 0 .. cols - 1 |-> mantissa[i] % Pow2[MantissaBits]]
    /\ pc' = "encoded"
    /\ UNCHANGED <<values, block_size, exponents, means, mantissa, integer_mean>>

(* The copies that matmul_int8 and matmul_tiled hand to the NPU.           *)
Encode ==
    /\ pc = "centred"
    /\ output' = [i \in 0 .. cols - 1 |-> (mantissa[i] + Offset) % Pow2[MantissaBits]]
    /\ pc' = "encoded"
    /\ UNCHANGED <<values, block_size, exponents, means, mantissa, integer_mean>>

Next == fit_exponent \/ RoundRow \/ CentreRow \/ Encode \/ mantissa_to_floats

Spec == Init /\ [][Next]_vars

-----------------------------------------------------------------------------
(* Properties. *)

(* The rounding is fair, for every float whose scaled magnitude fits the   *)
(* word: it gives the integer below or above, keeps the sign, leaves       *)
(* integers alone, and of the 2^Precision noises as many round up as the   *)
(* fraction, cut off after Precision bits, says (fixedpoint.h 29-54).      *)
RoundingIsFair ==
    \A i \in DOMAIN values :
        LET x == values[i]
            one == UnitsOf2To(0)
            up == {n \in 0 .. Pow2[Precision] - 1 :
                      Abs(process_single_stochastic_round(x, n)) = (Magnitude(x) \div one) + 1}
        IN  Magnitude(x) < one * Pow2[Word - Precision] =>
                /\ \A n \in (0 .. Pow2[Precision] - 1) \ up :
                      process_single_stochastic_round(x, n) = Negate(x.neg, Magnitude(x) \div one)
                /\ \A n \in up :
                      process_single_stochastic_round(x, n) = Negate(x.neg, (Magnitude(x) \div one) + 1)
                /\ Cardinality(up) = ((Magnitude(x) % one) * Pow2[Precision]) \div one

(* The blocks partition the row, the index of an element's block is one    *)
(* the constructor made room for, and every element of a block is rounded  *)
(* exactly once, whatever its length: the loop over four elements and the  *)
(* loop over the rest meet (fixedpoint.h 62-81, 225-227, 253-254).         *)
EachElementOnce ==
    /\ \A i \in DOMAIN values : {b \in BlockIndex : i \in Columns(b)} = {BlockOf(i)}
    /\ \A b \in BlockIndex :
          /\ Columns(b) \subseteq DOMAIN values /\ Columns(b) # {}
          /\ LET n == Cardinality(Columns(b)) IN
             \A i \in 0 .. n - 1 : TimesRounded(n, i) = 1

(* The exponent of a block bounds its values, and no smaller one does, so  *)
(* that scaling brings them below one and wastes no bit                    *)
(* (fixedpoint.h 275, 369).                                                *)
ExponentIsTight ==
    exponents # None =>
        \A b \in BlockIndex :
            LET bound == UnitsOf2To(exponents[b]) IN
            IF \A i \in Columns(b) : IsZero(values[i]) THEN exponents[b] = -Bias
            ELSE /\ \A i \in Columns(b) : Magnitude(values[i]) < bound
                 /\ \E i \in Columns(b) : 2 * Magnitude(values[i]) >= bound

(* With 16-bit mantissas taking the mean off never wraps, for blocks whose *)
(* exponents stay clear of the ends of the range: adding it back gives     *)
(* the rounded number, of magnitude at most one since the row was scaled   *)
(* below one (fixedpoint.h 365-377).                                       *)
CentredExactly ==
    pc = "centred" =>
        \A i \in DOMAIN values : LET b == BlockOf(i) IN
            InRange(-exponents[b]) /\ InRange(Precision - exponents[b]) =>
                /\ integer_mean[b] = ScaledMean(b)
                /\ mantissa[i] + integer_mean[b] \in {-1, 0, 1}

(* The unsigned copy stands for the mantissa, less the offset the graph's  *)
(* tensors declare, for every block whose scaled mean is below the offset; *)
(* above it the copy wraps (pipeline.h 188-193, execution.h 438-443).      *)
EncodedDecodes ==
    pc = "encoded" =>
        \A i \in DOMAIN values : LET b == BlockOf(i) IN
            InRange(-exponents[b]) /\ InRange(Precision - exponents[b]) /\ ScaledMean(b) < Offset =>
                output[i] - Offset = mantissa[i]

(* What mantissa_to_floats is for: it gives the values back, up to one     *)
(* unit of the block for each of the two roundings, where no power of two  *)
(* leaves its range (fixedpoint.h 431).  It does not: the row is scaled by *)
(* 2^-exponent and the mean by 2^(precision - exponent).                   *)
RoundTrip ==
    pc = "restored" =>
        \A i \in DOMAIN values : LET b == BlockOf(i) IN
            /\ InRange(-exponents[b])
            /\ InRange(Precision - exponents[b])
            /\ InRange(exponents[b] - Precision)
            => Abs(output[i] - ValueOf(values[i]) * means[b][2])
                    <= 2 * ValueOf(RestoreScale(b)) * means[b][2]

=============================================================================
