------------------------------ MODULE MCFraming ------------------------------
(* Values of Framing's constants that a .cfg cannot write. *)
EXTENDS Framing

\* A session of this sender, with hex headers: the offset of ZRPOS and the data
\* hold every byte that is escaped and the letters of the terminators.
Session ==
  << Hdr("hex", <<4, 0, 0, 0, 0>>), Sub(<<97, 0, 51, 0>>, ZCRCW),
     Hdr("hex", <<10, 24, 0, 0, 0>>),
     Sub(<<24, 17, 104>>, ZCRCG), Sub(<<255, 88, 107>>, ZCRCE),
     Hdr("hex", <<11, 6, 0, 0, 0>>), Hdr("hex", <<8, 0, 0, 0, 0>>) >>

\* What a receiver answers.
Answers ==
  << Hdr("hex", <<1, 0, 0, 0, 35>>), Hdr("hex", <<9, 19, 255, 17, 0>>),
     Hdr("hex", <<3, 0, 0, 0, 0>>), Hdr("hex", <<8, 0, 0, 0, 0>>) >>

\* Binary headers, subpackets that ask for an answer, and an empty one.
Binary ==
  << Hdr("bin32", <<10, 24, 145, 147, 255>>), Sub(<<>>, ZCRCQ), Sub(<<19, 24>>, ZCRCW),
     Sub(<<105>>, ZCRCE), Hdr("bin16", <<11, 255, 24, 0, 0>>),
     Hdr("bin32", <<8, 0, 0, 0, 0>>) >>

AllBatches == {Session, Answers, Binary}

\* The definitions that the tables are compared with give the published check
\* values, those of "123456789".
ASSUME CheckValues ==
  LET digits == [i \in 1..9 |-> 48 + i]
  IN Serial16(digits) = 12739 /\ Serial32(digits) = Word(52212, 14630)
=============================================================================
