------------------------------- MODULE Md5Words -------------------------------
(***************************************************************************)
(* The circuits of COE 838/project/md5-rtl around the chunk cruncher:      *)
(* fcalc, gcalc, leftrotate and the adder, for words of any width.  A word *)
(* is the set of its bits that are one, bit 0 the least significant.       *)
(***************************************************************************)
EXTENDS Integers, Sequences

Bits(width)  == 0..(width - 1)
Words(width) == SUBSET Bits(width)

Xor(x, y) == (x \ y) \cup (y \ x)

(* The selector is the upper half of the round's bits: its quarter. *)
FCalc(sel, b, c, d, width) ==
    LET not(x) == Bits(width) \ x IN
    CASE sel = 0 -> (b \cap c) \cup (not(b) \cap d)
      [] sel = 1 -> (d \cap b) \cup (not(d) \cap c)
      [] sel = 2 -> Xor(b, Xor(c, d))
      [] sel = 3 -> Xor(c, b \cup not(d))

(* Multiplication by 1, 5, 3 and 7, modulo the words of a chunk, without a *)
(* multiplier.                                                             *)
GCalc(sel, i, words) ==
    LET low     == i % words
        shiftby == <<0, 2, 1, 3>>[sel + 1]
        shifted == IF sel = 0 THEN 0 ELSE (low * 2^shiftby) % words
        mult    == IF sel = 3 THEN shifted - low ELSE shifted + low
        addon   == <<0, 1, 5, 0>>[sel + 1]
    IN  (mult + addon) % words

LeftRotate(x, n, width) == {(i + n) % width : i \in x}

(* A ripple carry; the last carry is lost. *)
Adder(x, y, width) ==
    LET carry[i \in 0..width] ==
            IF i = 0 THEN FALSE
            ELSE LET a == (i - 1) \in x
                     b == (i - 1) \in y
                 IN  (a /\ b) \/ (carry[i - 1] /\ (a \/ b))
    IN  {i \in Bits(width) : ((i \in x) # (i \in y)) # carry[i]}

(* A word of 32 bits from the two halves of its hexadecimal digits. *)
Hex(high, low) ==
    {i \in 0..15 : (low \div 2^i) % 2 = 1} \cup {i \in 16..31 : (high \div 2^(i - 16)) % 2 = 1}

(* kdata.mif and sdata.mif. *)
KData == <<
    Hex(\HD76A, \HA478), Hex(\HE8C7, \HB756), Hex(\H2420, \H70DB), Hex(\HC1BD, \HCEEE),
    Hex(\HF57C, \H0FAF), Hex(\H4787, \HC62A), Hex(\HA830, \H4613), Hex(\HFD46, \H9501),
    Hex(\H6980, \H98D8), Hex(\H8B44, \HF7AF), Hex(\HFFFF, \H5BB1), Hex(\H895C, \HD7BE),
    Hex(\H6B90, \H1122), Hex(\HFD98, \H7193), Hex(\HA679, \H438E), Hex(\H49B4, \H0821),
    Hex(\HF61E, \H2562), Hex(\HC040, \HB340), Hex(\H265E, \H5A51), Hex(\HE9B6, \HC7AA),
    Hex(\HD62F, \H105D), Hex(\H0244, \H1453), Hex(\HD8A1, \HE681), Hex(\HE7D3, \HFBC8),
    Hex(\H21E1, \HCDE6), Hex(\HC337, \H07D6), Hex(\HF4D5, \H0D87), Hex(\H455A, \H14ED),
    Hex(\HA9E3, \HE905), Hex(\HFCEF, \HA3F8), Hex(\H676F, \H02D9), Hex(\H8D2A, \H4C8A),
    Hex(\HFFFA, \H3942), Hex(\H8771, \HF681), Hex(\H6D9D, \H6122), Hex(\HFDE5, \H380C),
    Hex(\HA4BE, \HEA44), Hex(\H4BDE, \HCFA9), Hex(\HF6BB, \H4B60), Hex(\HBEBF, \HBC70),
    Hex(\H289B, \H7EC6), Hex(\HEAA1, \H27FA), Hex(\HD4EF, \H3085), Hex(\H0488, \H1D05),
    Hex(\HD9D4, \HD039), Hex(\HE6DB, \H99E5), Hex(\H1FA2, \H7CF8), Hex(\HC4AC, \H5665),
    Hex(\HF429, \H2244), Hex(\H432A, \HFF97), Hex(\HAB94, \H23A7), Hex(\HFC93, \HA039),
    Hex(\H655B, \H59C3), Hex(\H8F0C, \HCC92), Hex(\HFFEF, \HF47D), Hex(\H8584, \H5DD1),
    Hex(\H6FA8, \H7E4F), Hex(\HFE2C, \HE6E0), Hex(\HA301, \H4314), Hex(\H4E08, \H11A1),
    Hex(\HF753, \H7E82), Hex(\HBD3A, \HF235), Hex(\H2AD7, \HD2BB), Hex(\HEB86, \HD391) >>

SData(i) == << <<7, 12, 17, 22>>,
               <<5, 9, 14, 20>>,
               <<4, 11, 16, 23>>,
               <<6, 10, 15, 21>> >>[(i \div 16) + 1][(i % 4) + 1]
===============================================================================
