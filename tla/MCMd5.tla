-------------------------------- MODULE MCMd5 --------------------------------
(* Two crunchers with words of two bits, chunks of two words and four        *)
(* rounds, one for each function of fcalc; and, at the size of the code, the *)
(* chunk and the digest of the test bench md5unit_tb.vhd.                    *)
EXTENDS Md5Group, Md5Words, TLC

Width    == 2
MCWord   == Words(Width)
MCWrites == {[addr |-> 0, data |-> {0, 1}], [addr |-> 1, data |-> {0}], [addr |-> 2, data |-> {1}]}
MCPlus(x, y)    == Adder(x, y, Width)
MCRotate(x, n)  == LeftRotate(x, n, Width)
MCF(i, b, c, d) == FCalc(i, b, c, d, Width)
MCK  == [i \in 0..3 |-> <<{0}, {1}, {0, 1}, {1}>>[i + 1]]
MCS  == [i \in 0..3 |-> <<0, 1, 1, 0>>[i + 1]]
MCG  == [i \in 0..3 |-> GCalc(i, i, 2)]
MCIV == [a |-> {0}, b |-> {0, 1}, c |-> {1}, d |-> {}]

MCRun(h, m) == LET run[i \in 0..4] == IF i = 0 THEN h ELSE RoundOf(i - 1, run[i - 1], m) IN run
-----------------------------------------------------------------------------
RealPlus(x, y)    == Adder(x, y, 32)
RealRotate(x, n)  == LeftRotate(x, n, 32)
RealF(i, b, c, d) == FCalc(i \div 16, b, c, d, 32)
RealK  == [i \in 0..63 |-> KData[i + 1]]
RealS  == [i \in 0..63 |-> SData(i)]
RealG  == [i \in 0..63 |-> GCalc(i \div 16, i, 16)]
RealIV == [a |-> Hex(\H6745, \H2301), b |-> Hex(\HEFCD, \HAB89),
           c |-> Hex(\H98BA, \HDCFE), d |-> Hex(\H1032, \H5476)]

Real == INSTANCE Md5Algorithm WITH Word <- Words(32), Zero <- {}, Plus <- RealPlus,
            F <- RealF, Rotate <- RealRotate, N <- 64, A <- 16, K <- RealK, S <- RealS,
            G <- RealG, IV <- RealIV, Run <- MCRun

TestSequence ==
    << Hex(\H0168, \H0208), Hex(\H13AB, \H80BB), Hex(\HCB8B, \H2C30), Hex(\HB965, \H7582),
       Hex(\HA379, \H3C48), Hex(\H103F, \H26BE), Hex(\H0B78, \HDAC4), Hex(\H5C43, \H3348),
       Hex(\H4DE9, \H9287), Hex(\HEFF0, \HBE7C), Hex(\H0080, \H8533), {},
       {}, {}, Hex(\H0000, \H0150), {} >>
Expected == [d |-> Hex(\HBAEB, \HDDF8), c |-> Hex(\H61D3, \HEB27),
             b |-> Hex(\H14BA, \H892C), a |-> Hex(\H2AD2, \H6682)]

TestChunk == [w \in 0..15 |-> TestSequence[w + 1]]
RealRun   == LET run[i \in 0..64] ==
                    IF i = 0 THEN RealIV ELSE Real!RoundOf(i - 1, run[i - 1], TestChunk)
             IN  run

(* The digest the test bench expects is the algorithm's. *)
ASSUME TestBench == Real!Added(RealIV, RealRun[64]) = Expected

(* gcalc is the table of the standard. *)
ASSUME Standard == \A i \in 0..63 :
    RealG[i] = <<i, 5 * i + 1, 3 * i + 5, 7 * i>>[(i \div 16) + 1] % 16
=============================================================================
