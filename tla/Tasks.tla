-------------------------------- MODULE Tasks ---------------------------------
(***************************************************************************)
(* The diagnostic tasks: the streams that make_parity and make_induction   *)
(* write for scoring, and those that fill_parity and fill_induction write  *)
(* into a training buffer of a given length, byte by byte.                 *)
(***************************************************************************)
EXTENDS Integers, Sequences, FiniteSets, Functions

CONSTANTS
    Base,          \* bytes are 0 .. Base - 1
    BlockLen,      \* parity: data bits in a block
    Blocks,        \* parity: blocks of a made stream
    Keys,          \* induction: the key dictionary, a sequence of keys
    KeyLen,        \* induction: bytes in a key
    PairsPerSeq,   \* induction: (key, value) pairs in a sequence
    Sequences,     \* induction: sequences of a made stream
    FillLengths    \* lengths of the buffers to fill

Bytes == 0 .. Base - 1
Bits == {0, 1}
KeyIds == DOMAIN Keys

ASSUME BytesHoldBits == Base \in Nat /\ Bits \subseteq Bytes
ASSUME TaskSizes == /\ BlockLen \in Nat /\ Blocks \in Nat /\ Sequences \in Nat
                    /\ KeyLen \in Nat \ {0} /\ PairsPerSeq \in Nat \ {0}
                    /\ FillLengths \subseteq Nat
\* The dictionary has one entry or more, all different.
ASSUME KeysAreDistinct == /\ Keys \in Seq([1 .. KeyLen -> Bytes]) /\ KeyIds /= {}
                          /\ \A k, l \in KeyIds : Keys[k] = Keys[l] => k = l

VARIABLES
    kind,     \* "make" a stream, "fill" a buffer, or "corpus": given bytes
    task,     \* "parity" or "induction"; "corpus"
    T,        \* fill: the length of the buffer
    left,     \* make: blocks or sequences still to write
    out,      \* the bytes written
    mark,     \* make: for every byte "key", "fresh" or "recall" (isval, recall)
    off,      \* bytes written of the block or pair at hand
    parity,   \* parity of the bits of the block at hand
    vals,     \* the mapping of the sequence at hand, << >> where it is to be drawn
    key,      \* the key of the pair at hand
    pair,     \* make: pairs written of the sequence at hand
    seen      \* make: keys the sequence at hand has shown

genVars == <<kind, task, T, left, out, mark, off, parity, vals, key, pair, seen>>

GenInit ==
    /\ kind \in {"make", "fill"} /\ task \in {"parity", "induction"}
    /\ T \in IF kind = "fill" THEN FillLengths ELSE {0}
    /\ left = IF task = "parity" THEN Blocks ELSE Sequences
    /\ out = << >> /\ mark = << >> /\ off = 0 /\ parity = 0
    /\ vals = << >> /\ key = 1 /\ pair = 0
    /\ seen = [k \in KeyIds |-> FALSE]

\* The loops go on; a buffer may be full in the middle of a block or pair.
CheckedAtTop == off > 0 \/ (kind = "make" /\ left > 0) \/ Len(out) < T    \* mutant
More == IF kind = "make" THEN left > 0 ELSE kind = "fill" /\ Len(out) < T

PushBit ==
    /\ task = "parity" /\ More /\ off < BlockLen
    /\ \E bit \in Bits :
         /\ out' = Append(out, bit)
         /\ parity' = (parity + bit) % 2
    /\ off' = off + 1
    /\ UNCHANGED <<kind, task, T, left, mark, vals, key, pair, seen>>

RunningParity == parity     \* mutant
NewParity == 0
PushParity ==
    /\ task = "parity" /\ More /\ off = BlockLen
    /\ out' = Append(out, parity)
    /\ parity' = NewParity
    /\ off' = 0
    /\ left' = IF kind = "make" THEN left - 1 ELSE left
    /\ UNCHANGED <<kind, task, T, mark, vals, key, pair, seen>>

SeenBefore == seen          \* mutant
NoneSeen == [k \in KeyIds |-> FALSE]
DrawMapping ==
    /\ task = "induction" /\ More /\ vals = << >>
    /\ vals' \in [KeyIds -> Bytes]
    /\ seen' = NoneSeen /\ pair' = 0
    /\ UNCHANGED <<kind, task, T, left, out, mark, off, parity, key>>

Marked(m) == mark' = IF kind = "make" THEN Append(mark, m) ELSE mark

PushKeyByte ==
    /\ task = "induction" /\ More /\ vals /= << >> /\ off < KeyLen
    /\ key' \in IF off = 0 THEN KeyIds ELSE {key}
    /\ out' = Append(out, Keys[key'][off + 1])
    /\ Marked("key")
    /\ off' = off + 1
    /\ UNCHANGED <<kind, task, T, left, parity, vals, pair, seen>>

EveryPair == TRUE           \* mutant
LastPair == pair + 1 = PairsPerSeq
PushValue ==
    /\ task = "induction" /\ More /\ vals /= << >> /\ off = KeyLen
    /\ out' = Append(out, vals[key])
    /\ Marked(IF seen[key] THEN "recall" ELSE "fresh")
    /\ off' = 0
    /\ \/ kind = "fill" /\ UNCHANGED <<left, vals, pair, seen>>
       \/ /\ kind = "make"
          /\ seen' = [seen EXCEPT ![key] = TRUE] /\ pair' = pair + 1
          /\ IF LastPair THEN left' = left - 1 /\ vals' = << >>
             ELSE UNCHANGED <<left, vals>>
    /\ UNCHANGED <<kind, task, T, parity, key>>

Generate == PushBit \/ PushParity \/ DrawMapping \/ PushKeyByte \/ PushValue

-------------------------------------------------------------------------------
\* What the streams are meant to be.

\* A fill stays inside its buffer, and leaves no byte of it unwritten.
FillsExactly == kind = "fill" =>
    /\ Len(out) <= T
    /\ Len(out) < T => ENABLED Generate

\* Every block of a parity stream holds an even number of ones, whatever came
\* before it.
ParityBlocks == task = "parity" =>
    \A b \in 1 .. Len(out) \div (BlockLen + 1) :
        LET last == b * (BlockLen + 1) IN
        Cardinality({i \in last - BlockLen .. last : out[i] = 1}) % 2 = 0

Width == KeyLen + 1
Pairs == 1 .. Len(out) \div Width
KeyOf(p) == SubSeq(out, (p - 1) * Width + 1, (p - 1) * Width + KeyLen)
ValueOf(p) == out[p * Width]
SameSequence(p, q) ==
    kind = "fill" \/ (p - 1) \div PairsPerSeq = (q - 1) \div PairsPerSeq
ShownBefore(p) == {q \in 1 .. p - 1 : SameSequence(p, q) /\ KeyOf(q) = KeyOf(p)}

\* An induction stream is a run of pairs of a dictionary key and a value, and
\* within a sequence a key always comes with the same value.
InductionPairs == task = "induction" =>
    \A p \in Pairs :
        /\ KeyOf(p) \in Range(Keys)
        /\ \A q \in ShownBefore(p) : ValueOf(q) = ValueOf(p)

\* A value is free at the floor exactly when a reader of the stream could know
\* it: its key stands earlier in the same sequence.
RecallIsKnowable == kind = "make" /\ task = "induction" =>
    \A p \in Pairs : (mark[p * Width] = "recall") = (ShownBefore(p) /= {})
===============================================================================
