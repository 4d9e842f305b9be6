------------------------------- MODULE MCBench --------------------------------
(***************************************************************************)
(* Binary bytes, words of two of them, and three orders to ask for.        *)
(***************************************************************************)
EXTENDS Bench, SequencesExt

TwoKeys == << <<0, 1>>, <<1, 1>> >>
Below0ToAbove2 == {-1, 1, 2, 3}
SweepLists == {<< >>, <<1, 0, 1>>, <<2, 3>>, <<-1, 1, 0>>}
ShortCorpora == BoundedSeq(Bytes, 6)
===============================================================================
