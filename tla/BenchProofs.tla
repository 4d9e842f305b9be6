------------------------------ MODULE BenchProofs ------------------------------
(***************************************************************************)
(* Proofs about the task streams and the loops that score them, for every  *)
(* size of a block, a key, a dictionary and a stream.                      *)
(***************************************************************************)
EXTENDS Bench, FiniteSetTheorems, NatSetProofs

-------------------------------------------------------------------------------
(* The generators *)

GenType ==
    /\ kind \in {"make", "fill", "corpus"} /\ task \in {"parity", "induction", "corpus"}
    /\ kind = "corpus" <=> task = "corpus"
    /\ T \in Nat /\ left \in Nat /\ off \in Nat /\ pair \in Nat /\ parity \in Bits
    /\ out \in Seq(Bytes) /\ mark \in Seq({"key", "fresh", "recall"})
    /\ vals = << >> \/ vals \in [KeyIds -> Bytes]
    /\ key \in KeyIds /\ seen \in [KeyIds -> BOOLEAN]

\* The dictionary starts at 1, and no mapping of it is the empty one.
LEMMA KeysAre ==
    /\ KeyIds = 1 .. Len(Keys) /\ 1 \in KeyIds
    /\ \A k \in KeyIds : Keys[k] \in [1 .. KeyLen -> Bytes]
    /\ \A f \in [KeyIds -> Bytes] : f /= << >>
<1>1. KeyIds = 1 .. Len(Keys) /\ Len(Keys) \in Nat
  BY KeysAreDistinct DEF KeyIds
<1>2. 1 \in KeyIds
  BY <1>1, KeysAreDistinct
<1>3. \A k \in KeyIds : Keys[k] \in [1 .. KeyLen -> Bytes]
  BY <1>1, KeysAreDistinct
<1>4. ASSUME NEW f \in [KeyIds -> Bytes] PROVE f /= << >>
  <2>1. 1 \in DOMAIN f
    BY <1>2
  <2>2. DOMAIN << >> = {}
    OBVIOUS
  <2>3. QED
    BY <2>1, <2>2
<1>5. QED
  BY <1>1, <1>2, <1>3, <1>4

LEMMA InitGenType == BenchInit => GenType
<1> SUFFICES ASSUME BenchInit PROVE GenType
  OBVIOUS
<1> DEFINE Fresh == off = 0 /\ pair = 0 /\ parity = 0 /\ mark = << >> /\ vals = << >>
                    /\ key = 1 /\ seen = [k \in KeyIds |-> FALSE]
           Sized == T \in Nat /\ left \in Nat /\ out \in Seq(Bytes)
           Kinds == /\ kind \in {"make", "fill", "corpus"}
                    /\ task \in {"parity", "induction", "corpus"}
                    /\ kind = "corpus" <=> task = "corpus"
<1>1. Fresh /\ Sized /\ Kinds
  <2>1. CASE GenInit
    <3>1. Fresh /\ Kinds
      BY <2>1 DEF GenInit
    <3>2. out = << >> /\ left \in Nat
      BY <2>1, TaskSizes DEF GenInit
    <3>3. T \in Nat
      BY <2>1, TaskSizes DEF GenInit
    <3>4. QED
      BY <3>1, <3>2, <3>3
  <2>2. CASE ~ GenInit
    <3>1. Fresh /\ Kinds
      BY <2>2 DEF BenchInit
    <3>2. T = 0 /\ left = 0 /\ out \in Corpora
      BY <2>2 DEF BenchInit
    <3>3. QED
      BY <3>1, <3>2, CorporaAreBytes
  <2>3. QED
    BY <2>1, <2>2
<1>2. key \in KeyIds /\ seen \in [KeyIds -> BOOLEAN]
  BY <1>1, KeysAre
<1>3. mark \in Seq({"key", "fresh", "recall"}) /\ parity \in Bits
  BY <1>1 DEF Bits
<1>4. QED
  BY <1>1, <1>2, <1>3 DEF GenType

LEMMA NextGenType == GenType /\ [BenchNext]_<<genVars, benchVars>> => GenType'
<1> SUFFICES ASSUME GenType, [BenchNext]_<<genVars, benchVars>> PROVE GenType'
  OBVIOUS
<1> USE DEF GenType
<1>1. CASE PushBit
  <2>1. PICK bit \in Bits : out' = Append(out, bit) /\ parity' = (parity + bit) % 2
    BY <1>1 DEF PushBit
  <2>2. bit \in Bytes /\ parity' \in Bits
    BY <2>1, BytesHoldBits DEF Bits
  <2>3. out' \in Seq(Bytes)
    BY <2>1, <2>2
  <2>4. QED
    BY <1>1, <2>2, <2>3 DEF PushBit
<1>2. CASE PushParity
  <2>1. parity \in Bytes
    BY BytesHoldBits
  <2>2. out' \in Seq(Bytes)
    BY <1>2, <2>1 DEF PushParity
  <2>3. parity' \in Bits /\ left' \in Nat
    BY <1>2 DEF PushParity, More, NewParity, Bits
  <2>4. QED
    BY <1>2, <2>2, <2>3 DEF PushParity
<1>3. CASE DrawMapping
  BY <1>3 DEF DrawMapping, NoneSeen
<1>4. CASE PushKeyByte
  <2>1. key' \in KeyIds /\ off + 1 \in 1 .. KeyLen
    BY <1>4, TaskSizes DEF PushKeyByte
  <2>2. Keys[key'][off + 1] \in Bytes
    BY <2>1, KeysAre
  <2>3. out' \in Seq(Bytes)
    BY <1>4, <2>2 DEF PushKeyByte
  <2>4. mark' \in Seq({"key", "fresh", "recall"})
    BY <1>4 DEF PushKeyByte, Marked
  <2>5. QED
    BY <1>4, <2>1, <2>3, <2>4 DEF PushKeyByte
<1>5. CASE PushValue
  <2>1. vals[key] \in Bytes
    BY <1>5 DEF PushValue
  <2>2. out' \in Seq(Bytes)
    BY <1>5, <2>1 DEF PushValue
  <2>3. mark' \in Seq({"key", "fresh", "recall"})
    BY <1>5 DEF PushValue, Marked
  <2>4. /\ left' \in Nat /\ pair' \in Nat /\ seen' \in [KeyIds -> BOOLEAN]
        /\ vals' = << >> \/ vals' \in [KeyIds -> Bytes]
    <3>1. CASE kind = "fill"
      BY <1>5, <3>1 DEF PushValue
    <3>2. CASE kind = "make"
      <4>1. left > 0 /\ seen' = [seen EXCEPT ![key] = TRUE] /\ pair' = pair + 1
        BY <1>5, <3>2 DEF PushValue, More
      <4>2. left' \in Nat /\ (vals' = vals \/ vals' = << >>)
        BY <1>5, <3>2, <4>1 DEF PushValue
      <4>3. QED
        BY <4>1, <4>2
    <3>3. QED
      BY <1>5, <3>1, <3>2 DEF PushValue
  <2>5. QED
    BY <1>5, <2>2, <2>3, <2>4 DEF PushValue
<1>6. CASE UNCHANGED genVars
  BY <1>6 DEF genVars
<1>7. QED
  BY <1>1, <1>2, <1>3, <1>4, <1>5, <1>6 DEF BenchNext, Generate

LEMMA GenTypeAlways == BenchSpec => []GenType
BY InitGenType, NextGenType, PTL DEF BenchSpec

-------------------------------------------------------------------------------
(* Parity *)

Row == BlockLen + 1
OnesIn(s, lo, hi) == {i \in lo .. hi : s[i] = 1}

\* A bit more in a stream: what it does to the number of ones in its last part.
LEMMA OnesAppend ==
    ASSUME NEW s, NEW u, NEW n \in Nat, NEW b \in Bits, NEW lo \in 1 .. n + 1,
           \A i \in 1 .. n : u[i] = s[i], u[n + 1] = b
    PROVE  Cardinality(OnesIn(u, lo, n + 1)) % 2
             = ((Cardinality(OnesIn(s, lo, n)) % 2) + b) % 2
<1> DEFINE P == OnesIn(s, lo, n)
<1>1. IsFiniteSet(P) /\ n + 1 \notin P
  <2>1. P \subseteq lo .. n /\ IsFiniteSet(lo .. n)
    BY FS_Interval DEF OnesIn
  <2>2. n + 1 \notin lo .. n
    OBVIOUS
  <2> HIDE DEF P
  <2>3. QED
    BY <2>1, <2>2, FS_Subset
<1>2. Cardinality(P) \in Nat /\ Cardinality(P \cup {n + 1}) = Cardinality(P) + 1
  BY <1>1, FS_CardinalityType, FS_AddElement
<1>3. CASE b = 1
  <2>1. OnesIn(u, lo, n + 1) = P \cup {n + 1}
    BY <1>3 DEF OnesIn
  <2>2. \A c \in Nat : (c + 1) % 2 = ((c % 2) + 1) % 2
    OBVIOUS
  <2>3. QED
    BY <1>2, <1>3, <2>1, <2>2
<1>4. CASE b = 0
  <2>1. OnesIn(u, lo, n + 1) = P
    BY <1>4 DEF OnesIn
  <2>2. \A c \in Nat : c % 2 = ((c % 2) + 0) % 2
    OBVIOUS
  <2>3. QED
    BY <1>2, <1>4, <2>1, <2>2
<1>5. QED
  BY <1>3, <1>4 DEF Bits

\* The stream is whole blocks and the begun one; parity is that of the begun one.
ParityInv == task = "parity" =>
    /\ off \in 0 .. BlockLen
    /\ \E q \in Nat : Len(out) = q * Row + off
    /\ parity = Cardinality(OnesIn(out, Len(out) - off + 1, Len(out))) % 2
    /\ \A b \in Nat \ {0} : b * Row <= Len(out) =>
          Cardinality(OnesIn(out, b * Row - BlockLen, b * Row)) % 2 = 0

LEMMA InitParity == BenchInit => ParityInv
<1> SUFFICES ASSUME BenchInit, task = "parity" PROVE ParityInv
  BY DEF ParityInv
<1>1. out = << >> /\ off = 0 /\ parity = 0
  BY DEF BenchInit, GenInit
<1>2. Len(out) = 0
  BY <1>1
<1>3. OnesIn(out, 1, 0) = {}
  BY DEF OnesIn
<1>4. Cardinality({}) = 0
  BY FS_EmptySet
<1>5. Row \in Nat \ {0} /\ 0 * Row = 0
  BY TaskSizes DEF Row
<1>6. \A b \in Nat \ {0} : ~ (b * Row <= 0)
  BY <1>5, RowsGrow
<1>7. Len(out) - off + 1 = 1 /\ 0 % 2 = 0 /\ Len(out) = 0 * Row + off /\ off \in 0 .. BlockLen
  BY <1>1, <1>2, <1>5, TaskSizes
<1>8. QED
  BY <1>1, <1>2, <1>3, <1>4, <1>6, <1>7 DEF ParityInv

LEMMA NextParity ==
    GenType /\ ParityInv /\ [BenchNext]_<<genVars, benchVars>> => ParityInv'
<1> SUFFICES ASSUME GenType, ParityInv, [BenchNext]_<<genVars, benchVars>> PROVE ParityInv'
  OBVIOUS
<1> DEFINE n == Len(out)
           Even(s, b) == Cardinality(OnesIn(s, b * Row - BlockLen, b * Row)) % 2 = 0
<1>1. n \in Nat /\ Row \in Nat \ {0} /\ BlockLen \in Nat /\ Row = BlockLen + 1
  BY TaskSizes DEF GenType, Row
<1>2. ASSUME task = "parity", NEW b \in Bits, out' = Append(out, b)
      PROVE  /\ Len(out') = n + 1
             /\ \A c \in Nat \ {0} : c * Row <= n => Even(out', c)
             /\ Cardinality(OnesIn(out', n - off + 1, n + 1)) % 2 = (parity + b) % 2
  <2>1. /\ Len(out') = n + 1 /\ \A i \in 1 .. n : out'[i] = out[i]
        /\ out'[n + 1] = b
    <3>1. out \in Seq(Bytes) /\ b \in Bytes
      BY BytesHoldBits DEF GenType
    <3>2. QED
      BY <1>2, <3>1
  <2>2. ASSUME NEW c \in Nat \ {0}, c * Row <= n PROVE Even(out', c)
    <3>1. /\ c * Row \in 0 .. n /\ c * Row - BlockLen \in Nat \ {0}
      <4>1. 1 * Row <= c * Row /\ c * Row \in Nat
        BY <1>1, RowsGrow
      <4>2. QED
        BY <1>1, <2>2, <4>1
    <3>2. OnesIn(out', c * Row - BlockLen, c * Row) = OnesIn(out, c * Row - BlockLen, c * Row)
      <4> DEFINE lo == c * Row - BlockLen
                 hi == c * Row
      <4>1. lo \in Nat \ {0} /\ hi \in 0 .. n
        BY <3>1
      <4> HIDE DEF lo, hi, n
      <4>2. OnesIn(out', lo, hi) = OnesIn(out, lo, hi)
        <5>1. hi \in Nat /\ \A i \in 1 .. hi : out'[i] = out[i]
          BY <1>1, <2>1, <4>1
        <5>2. QED
          BY <4>1, <5>1 DEF OnesIn
      <4>3. QED
        BY <4>2 DEF lo, hi
    <3>3. Even(out, c)
      BY <1>2, <2>2 DEF ParityInv
    <3>4. QED
      BY <3>2, <3>3
  <2>3. n - off + 1 \in 1 .. n + 1
    <3>1. PICK q \in Nat : n = q * Row + off
      BY <1>2 DEF ParityInv
    <3>2. off \in 0 .. BlockLen /\ q * Row \in Nat
      BY <1>1, <1>2 DEF ParityInv
    <3>3. QED
      BY <1>1, <3>1, <3>2
  <2>4. Cardinality(OnesIn(out', n - off + 1, n + 1)) % 2
          = ((Cardinality(OnesIn(out, n - off + 1, n)) % 2) + b) % 2
    BY <1>1, <2>1, <2>3, OnesAppend
  <2>5. parity = Cardinality(OnesIn(out, n - off + 1, n)) % 2
    BY <1>2 DEF ParityInv
  <2>6. QED
    BY <2>1, <2>2, <2>4, <2>5
<1>3. CASE PushBit
  <2>1. PICK b \in Bits : out' = Append(out, b) /\ parity' = (parity + b) % 2
    BY <1>3 DEF PushBit
  <2>2. /\ task = "parity" /\ task' = "parity" /\ off < BlockLen /\ off' = off + 1
        /\ off \in 0 .. BlockLen
    BY <1>3 DEF PushBit, ParityInv
  <2>3. /\ Len(out') = n + 1
        /\ \A c \in Nat \ {0} : c * Row <= n => Even(out', c)
        /\ Cardinality(OnesIn(out', n - off + 1, n + 1)) % 2 = (parity + b) % 2
    BY <1>2, <2>1, <2>2
  <2>4. PICK q \in Nat : n = q * Row + off
    BY <2>2 DEF ParityInv
  <2>5. n + 1 = q * Row + (off + 1) /\ (n + 1) - (off + 1) + 1 = n - off + 1
    BY <1>1, <2>2, <2>4
  <2>6. \A c \in Nat \ {0} : c * Row <= n + 1 => c * Row <= n
    <3>1. SUFFICES ASSUME NEW c \in Nat \ {0}, c * Row <= n + 1 PROVE c * Row <= n
      OBVIOUS
    <3>2. c * Row < (q + 1) * Row /\ q * Row <= n /\ q * Row \in Nat /\ c * Row \in Nat
      BY <1>1, <2>2, <2>4, <3>1, RowsGrow
    <3>3. c * Row <= q * Row
      BY <1>1, <3>2, RowsGrow
    <3>4. QED
      BY <1>1, <3>2, <3>3
  <2>7. off' \in 0 .. BlockLen
    BY <1>1, <2>2
  <2> HIDE DEF n
  <2>8. QED
    BY <2>1, <2>2, <2>3, <2>5, <2>6, <2>7 DEF ParityInv
<1>4. CASE PushParity
  <2>1. /\ task = "parity" /\ task' = "parity" /\ off = BlockLen /\ off' = 0 /\ parity' = 0
        /\ out' = Append(out, parity) /\ parity \in Bits
    BY <1>4 DEF PushParity, NewParity, GenType
  <2>2. /\ Len(out') = n + 1
        /\ \A c \in Nat \ {0} : c * Row <= n => Even(out', c)
        /\ Cardinality(OnesIn(out', n - off + 1, n + 1)) % 2 = (parity + parity) % 2
    BY <1>2, <2>1
  <2>3. PICK q \in Nat : n = q * Row + off
    BY <2>1 DEF ParityInv
  <2>4. n + 1 = (q + 1) * Row + 0 /\ n + 1 = (q + 1) * Row
    BY <1>1, <2>1, <2>3, RowsGrow
  <2>5. Even(out', q + 1)
    <3>1. (parity + parity) % 2 = 0
      BY <2>1 DEF Bits
    <3>2. n - off + 1 = (q + 1) * Row - BlockLen
      BY <1>1, <2>1, <2>4
    <3>3. QED
      BY <2>2, <2>4, <3>1, <3>2
  <2>6. ASSUME NEW c \in Nat \ {0}, c * Row <= n + 1 PROVE Even(out', c)
    <3>1. CASE c * Row <= n
      BY <2>2, <3>1
    <3>2. CASE ~ (c * Row <= n)
      <4>1. c * Row = (q + 1) * Row
        BY <1>1, <2>4, <2>6, <3>2
      <4>2. c = q + 1
        BY <1>1, <4>1, RowsGrow
      <4>3. QED
        BY <2>5, <4>2
    <3>3. QED
      BY <3>1, <3>2
  <2>7. OnesIn(out', (n + 1) + 1, n + 1) = {}
    BY <1>1 DEF OnesIn
  <2>8. Cardinality({}) = 0 /\ 0 % 2 = 0
    BY FS_EmptySet
  <2>9. (n + 1) - 0 + 1 = (n + 1) + 1 /\ q + 1 \in Nat /\ 0 \in 0 .. BlockLen
    BY <1>1
  <2> HIDE DEF n
  <2>10. QED
    BY <2>1, <2>2, <2>4, <2>6, <2>7, <2>8, <2>9 DEF ParityInv
<1>5. CASE DrawMapping \/ PushKeyByte \/ PushValue
  BY <1>5 DEF DrawMapping, PushKeyByte, PushValue, ParityInv
<1>6. CASE UNCHANGED genVars
  BY <1>6 DEF genVars, ParityInv
<1>7. QED
  BY <1>3, <1>4, <1>5, <1>6 DEF BenchNext, Generate

LEMMA ParityAlways == BenchSpec => []ParityInv
BY InitParity, NextParity, GenTypeAlways, PTL DEF BenchSpec

\* Every block of a parity stream holds an even number of ones, for every length
\* of a block and of the stream or buffer.
THEOREM ParityBlocksAlways == BenchSpec => []ParityBlocks
<1>1. GenType /\ ParityInv => ParityBlocks
  <2> SUFFICES ASSUME GenType, ParityInv, task = "parity",
                      NEW b \in 1 .. Len(out) \div (BlockLen + 1)
               PROVE  Cardinality({i \in b * Row - BlockLen .. b * Row : out[i] = 1}) % 2 = 0
    BY DEF ParityBlocks, Row
  <2> DEFINE d == Len(out) \div Row
  <2>1. Len(out) \in Nat /\ Row \in Nat \ {0} /\ b \in 1 .. d
    BY TaskSizes DEF GenType, Row
  <2>2. d \in Nat /\ d * Row <= Len(out)
    <3> DEFINE r == Len(out) % Row
    <3>1. d \in Nat /\ r \in 0 .. Row - 1 /\ Len(out) = (d * Row) + r
      BY <2>1, QuotientFits
    <3>2. d * Row \in Nat
      BY <2>1, <3>1
    <3> HIDE DEF d, r
    <3>3. QED
      BY <2>1, <3>1, <3>2
  <2> HIDE DEF d
  <2>3. b * Row <= d * Row /\ b \in Nat \ {0}
    BY <2>1, <2>2, RowsGrow
  <2>4. b * Row <= Len(out)
    BY <2>1, <2>2, <2>3
  <2>5. QED
    BY <2>3, <2>4 DEF ParityInv, OnesIn
<1>2. QED
  BY <1>1, GenTypeAlways, ParityAlways, PTL

-------------------------------------------------------------------------------
(* Induction *)

KeyIn(s, p) == SubSeq(s, (p - 1) * Width + 1, (p - 1) * Width + KeyLen)

\* A sequence with a byte more.
LEMMA ByteAppended ==
    ASSUME NEW s \in Seq(Bytes), NEW b \in Bytes, NEW u, u = Append(s, b)
    PROVE  /\ u \in Seq(Bytes) /\ Len(s) \in Nat /\ Len(u) = Len(s) + 1
           /\ \A i \in 1 .. Len(s) : u[i] = s[i]
           /\ u[Len(s) + 1] = b
OBVIOUS

\* The places of pair p.
LEMMA PlacesOf ==
    ASSUME NEW p \in Nat \ {0}
    PROVE  /\ (p - 1) * Width \in Nat /\ p * Width = (p - 1) * Width + KeyLen + 1
           /\ p * Width \in Nat \ {0} /\ KeyLen \in Nat \ {0} /\ Width \in Nat \ {0}
<1>1. KeyLen \in Nat \ {0} /\ Width = KeyLen + 1
  BY TaskSizes DEF Width
<1>2. ((p - 1) + 1) * Width = (p - 1) * Width + Width /\ (p - 1) + 1 = p
  BY <1>1, RowsGrow
<1>3. (p - 1) * Width \in Nat
  BY <1>1
<1>4. QED
  BY <1>1, <1>2, <1>3

\* The key of a pair, byte by byte.
LEMMA KeyBytes ==
    ASSUME NEW s \in Seq(Bytes), NEW p \in Nat \ {0}, (p - 1) * Width + KeyLen <= Len(s)
    PROVE  /\ KeyIn(s, p) \in [1 .. KeyLen -> Bytes]
           /\ \A j \in 1 .. KeyLen : KeyIn(s, p)[j] = s[(p - 1) * Width + j]
<1> DEFINE m == (p - 1) * Width
           t == SubSeq(s, m + 1, m + KeyLen)
<1>1. m \in Nat /\ KeyLen \in Nat \ {0}
  BY PlacesOf
<1>2. m + KeyLen <= Len(s)
  OBVIOUS
<1> HIDE DEF m
<1>3. /\ t \in Seq(Bytes) /\ Len(t) = KeyLen
      /\ \A j \in 1 .. KeyLen : t[j] = s[m + j]
  <2>1. m + 1 \in 1 .. Len(s) + 1 /\ m + KeyLen \in m .. Len(s) /\ (m + KeyLen) - (m + 1) + 1 = KeyLen
    BY <1>1, <1>2
  <2>2. \A i \in m + 1 .. m + KeyLen : s[i] \in Bytes
    BY <1>1, <1>2
  <2>3. t \in Seq(Bytes) /\ Len(t) = KeyLen
    BY <1>1, <1>2, <2>1, <2>2
  <2>4. ASSUME NEW j \in 1 .. KeyLen PROVE t[j] = s[m + j]
    <3>1. j \in 1 .. (m + KeyLen) - (m + 1) + 1 /\ (m + 1) + j - 1 = m + j
      BY <1>1, <2>1
    <3>2. t[j] = s[(m + 1) + j - 1]
      BY <1>1, <1>2, <3>1
    <3>3. QED
      BY <3>1, <3>2
  <2>5. QED
    BY <2>3, <2>4
<1>4. KeyIn(s, p) = t
  BY DEF KeyIn, m
<1> HIDE DEF t
<1>5. t \in [1 .. KeyLen -> Bytes]
  BY <1>3
<1>6. QED
  BY <1>3, <1>4, <1>5 DEF m

LEMMA SameKey ==
    \A f, g \in [1 .. KeyLen -> Bytes] : (\A j \in 1 .. KeyLen : f[j] = g[j]) => f = g
<1> DEFINE D == 1 .. KeyLen
<1> HIDE DEF D
<1>1. \A f, g \in [D -> Bytes] : (\A j \in D : f[j] = g[j]) => f = g
  OBVIOUS
<1>2. QED
  BY <1>1 DEF D

\* What is appended leaves the pairs before it as they are.
LEMMA PairKept ==
    ASSUME NEW s \in Seq(Bytes), NEW u \in Seq(Bytes), Len(s) <= Len(u),
           \A i \in 1 .. Len(s) : u[i] = s[i],
           NEW p \in Nat \ {0}, p * Width <= Len(s)
    PROVE  KeyIn(u, p) = KeyIn(s, p) /\ u[p * Width] = s[p * Width]
<1> DEFINE m == (p - 1) * Width
<1>1. /\ m \in Nat /\ KeyLen \in Nat \ {0} /\ p * Width = m + KeyLen + 1
      /\ p * Width \in Nat \ {0}
  BY PlacesOf
<1>2. Len(s) \in Nat /\ Len(u) \in Nat
  OBVIOUS
<1>3. m + KeyLen <= Len(s) /\ m + KeyLen <= Len(u)
  <2> HIDE DEF m
  <2>1. QED
    BY <1>1, <1>2
<1>4. /\ KeyIn(s, p) \in [1 .. KeyLen -> Bytes] /\ KeyIn(u, p) \in [1 .. KeyLen -> Bytes]
      /\ \A j \in 1 .. KeyLen : KeyIn(s, p)[j] = s[m + j] /\ KeyIn(u, p)[j] = u[m + j]
  BY <1>3, KeyBytes
<1> HIDE DEF m
<1>5. \A j \in 1 .. KeyLen : m + j \in 1 .. Len(s)
  BY <1>1, <1>2, <1>3
<1>6. \A j \in 1 .. KeyLen : KeyIn(u, p)[j] = KeyIn(s, p)[j]
  BY <1>4, <1>5
<1>7. KeyIn(u, p) = KeyIn(s, p)
  BY <1>4, <1>6, SameKey
<1>8. u[p * Width] = s[p * Width]
  BY <1>1, <1>2
<1>9. QED
  BY <1>7, <1>8

LEMMA KeyIs ==
    ASSUME NEW s \in Seq(Bytes), NEW p \in Nat \ {0}, (p - 1) * Width + KeyLen <= Len(s),
           NEW k \in KeyIds, \A j \in 1 .. KeyLen : s[(p - 1) * Width + j] = Keys[k][j]
    PROVE  KeyIn(s, p) = Keys[k]
<1>1. /\ KeyIn(s, p) \in [1 .. KeyLen -> Bytes]
      /\ \A j \in 1 .. KeyLen : KeyIn(s, p)[j] = s[(p - 1) * Width + j]
  BY KeyBytes
<1>2. Keys[k] \in [1 .. KeyLen -> Bytes]
  BY KeysAre
<1>3. \A j \in 1 .. KeyLen : KeyIn(s, p)[j] = Keys[k][j]
  BY <1>1
<1>4. QED
  BY <1>1, <1>2, <1>3, SameKey

\* The complete pairs, and those of the sequence at hand that have a given key.
Done == Len(out) \div Width
InHand(p) == SameSequence(p, Done + 1)
Shown(k) == \E p \in 1 .. Done : InHand(p) /\ KeyIn(out, p) = Keys[k]

\* The stream is whole pairs and the begun one.
PairInv == task = "induction" =>
    /\ off \in 0 .. KeyLen /\ Len(out) = Done * Width + off
    /\ off > 0 => vals /= << >>
    /\ \A j \in 1 .. off : out[Done * Width + j] = Keys[key][j]
    /\ \A p \in 1 .. Done : \E k \in KeyIds : KeyIn(out, p) = Keys[k]

\* A made stream is whole sequences and the begun one; a fill draws one mapping.
SequenceInv == task = "induction" =>
    /\ kind = "make" => \E s \in Nat :
          /\ Done = s * PairsPerSeq + (IF vals = << >> THEN 0 ELSE pair)
          /\ vals /= << >> => pair < PairsPerSeq
    /\ kind = "fill" /\ vals = << >> => Done = 0

\* A key comes with the value that its sequence maps it to; seen says which
\* keys of the sequence at hand have come, and mark what a reader could know.
ValueInv == task = "induction" =>
    /\ vals /= << >> =>
          \A p \in 1 .. Done : \A k \in KeyIds :
             InHand(p) /\ KeyIn(out, p) = Keys[k] => out[p * Width] = vals[k]
    /\ \A p \in 1 .. Done : \A r \in 1 .. p - 1 :
          SameSequence(p, r) /\ KeyIn(out, r) = KeyIn(out, p) => out[r * Width] = out[p * Width]

SeenInv == task = "induction" /\ kind = "make" =>
    /\ vals /= << >> => \A k \in KeyIds : seen[k] = TRUE <=> Shown(k)
    /\ Len(mark) = Len(out)
    /\ \A i \in 1 .. Len(out) : mark[i] = "key" <=> i % Width /= 0
    /\ \A p \in 1 .. Done : mark[p * Width] = "recall"
          <=> \E r \in 1 .. p - 1 : SameSequence(p, r) /\ KeyIn(out, r) = KeyIn(out, p)

LEMMA DoneIs ==
    ASSUME GenType
    PROVE  /\ Len(out) \in Nat /\ Done \in Nat /\ Width \in Nat \ {0} /\ Width = KeyLen + 1
           /\ Done * Width <= Len(out)
           /\ \A p \in 1 .. Done : p \in Nat \ {0} /\ p * Width <= Done * Width
<1>1. Len(out) \in Nat /\ Width \in Nat \ {0} /\ Width = KeyLen + 1
  BY TaskSizes DEF GenType, Width
<1> DEFINE r == Len(out) % Width
<1>2. Done \in Nat /\ r \in 0 .. Width - 1 /\ Len(out) = (Done * Width) + r
  BY <1>1, QuotientFits DEF Done
<1> HIDE DEF r
<1>3. Done * Width \in Nat
  BY <1>1, <1>2
<1>4. Done * Width <= Len(out)
  BY <1>1, <1>2, <1>3
<1>5. \A p \in 1 .. Done : p * Width <= Done * Width
  BY <1>1, <1>2, RowsGrow
<1>6. QED
  BY <1>1, <1>2, <1>4, <1>5

LEMMA InitPairs == BenchInit => PairInv /\ SequenceInv /\ ValueInv /\ SeenInv
<1> SUFFICES ASSUME BenchInit, task = "induction"
             PROVE  PairInv /\ SequenceInv /\ ValueInv /\ SeenInv
  BY DEF PairInv, SequenceInv, ValueInv, SeenInv
<1>1. out = << >> /\ off = 0 /\ vals = << >> /\ mark = << >>
  BY DEF BenchInit, GenInit
<1>2. Len(out) = 0 /\ Len(mark) = 0
  BY <1>1
<1>3. Width \in Nat \ {0} /\ KeyLen \in Nat
  BY TaskSizes DEF Width
<1>4. 0 = 0 * Width + 0 /\ 0 \in 0 .. Width - 1
  BY <1>3
<1>5. Done = 0
  BY <1>2, <1>3, <1>4, QuotientIs DEF Done
<1>6. 0 \in 0 .. KeyLen /\ 0 = 0 * PairsPerSeq + 0
  BY <1>3, TaskSizes
<1>7. PairInv
  BY <1>1, <1>2, <1>4, <1>5, <1>6 DEF PairInv
<1>8. SequenceInv
  BY <1>1, <1>5, <1>6 DEF SequenceInv
<1>9. ValueInv
  BY <1>1, <1>5 DEF ValueInv
<1>10. SeenInv
  BY <1>1, <1>2, <1>5 DEF SeenInv
<1>11. QED
  BY <1>7, <1>8, <1>9, <1>10

\* What a byte more does to the pairs: a key byte begins or continues one, and
\* a value completes it.
LEMMA KeyByteAdds ==
    ASSUME GenType, PairInv, task = "induction", NEW b \in Bytes, out' = Append(out, b)
    PROVE  /\ out' \in Seq(Bytes) /\ Len(out') = Len(out) + 1
           /\ \A i \in 1 .. Len(out) : out'[i] = out[i]
           /\ out'[Len(out) + 1] = b
           /\ \A p \in 1 .. Done : KeyIn(out', p) = KeyIn(out, p) /\ out'[p * Width] = out[p * Width]
           /\ off < KeyLen => Done' = Done /\ Len(out') = Done * Width + off + 1
                              /\ Len(out') % Width /= 0
           /\ off = KeyLen => Done' = Done + 1 /\ Len(out') = (Done + 1) * Width
                              /\ Len(out') % Width = 0
<1>1. /\ out \in Seq(Bytes) /\ out' \in Seq(Bytes) /\ Len(out') = Len(out) + 1
      /\ \A i \in 1 .. Len(out) : out'[i] = out[i]
      /\ out'[Len(out) + 1] = b
  BY ByteAppended DEF GenType
<1>2. /\ Len(out) \in Nat /\ Done \in Nat /\ Width \in Nat \ {0} /\ Width = KeyLen + 1
      /\ Done * Width <= Len(out)
      /\ \A p \in 1 .. Done : p \in Nat \ {0} /\ p * Width <= Done * Width
  BY DoneIs
<1>3. off \in 0 .. KeyLen /\ Len(out) = Done * Width + off /\ KeyLen \in Nat \ {0}
  BY TaskSizes DEF PairInv
<1>4. ASSUME NEW p \in 1 .. Done
      PROVE  KeyIn(out', p) = KeyIn(out, p) /\ out'[p * Width] = out[p * Width]
  <2>1. p * Width <= Len(out) /\ p \in Nat \ {0}
    <3>1. p * Width \in Nat /\ Done * Width \in Nat
      BY <1>2
    <3>2. QED
      BY <1>2, <3>1
  <2>2. Len(out) <= Len(out')
    BY <1>1, <1>2
  <2>3. QED
    BY <1>1, <2>1, <2>2, PairKept
<1>5. ASSUME off < KeyLen
      PROVE  Done' = Done /\ Len(out') = Done * Width + off + 1 /\ Len(out') % Width /= 0
  <2>1. Len(out') = Done * Width + (off + 1) /\ off + 1 \in 0 .. Width - 1 /\ Len(out') \in Nat
    BY <1>1, <1>2, <1>3, <1>5
  <2>2. Len(out') \div Width = Done /\ Len(out') % Width = off + 1
    BY <1>2, <2>1, QuotientIs
  <2>3. Done' = Len(out') \div Width
    BY DEF Done, Width
  <2>4. QED
    BY <1>2, <1>3, <2>1, <2>2, <2>3
<1>6. ASSUME off = KeyLen
      PROVE  Done' = Done + 1 /\ Len(out') = (Done + 1) * Width /\ Len(out') % Width = 0
  <2>1. (Done + 1) * Width = Done * Width + Width
    BY <1>2, RowsGrow
  <2>2. Len(out') = (Done + 1) * Width + 0 /\ Len(out') = (Done + 1) * Width
        /\ 0 \in 0 .. Width - 1 /\ Len(out') \in Nat
    BY <1>1, <1>2, <1>3, <1>6, <2>1
  <2>3. Len(out') \div Width = Done + 1 /\ Len(out') % Width = 0
    <3> DEFINE d == Done + 1
               x == Len(out')
    <3>1. d \in Nat /\ x \in Nat /\ x = d * Width + 0 /\ 0 \in 0 .. Width - 1
      BY <1>2, <2>2
    <3> HIDE DEF d, x
    <3>2. x \div Width = d /\ x % Width = 0
      BY <1>2, <3>1, QuotientIs
    <3>3. QED
      BY <3>2 DEF d, x
  <2>4. Done' = Len(out') \div Width
    BY DEF Done, Width
  <2>5. QED
    BY <2>2, <2>3, <2>4
<1>7. QED
  BY <1>1, <1>4, <1>5, <1>6

\* Whose sequence the next pair belongs to.
LEMMA NoneInHand ==
    ASSUME GenType, SequenceInv, task = "induction", vals = << >>, kind \in {"make", "fill"}
    PROVE  \A p \in 1 .. Done : ~ InHand(p)
<1>1. CASE kind = "fill"
  BY <1>1 DEF SequenceInv
<1>2. CASE kind = "make"
  <2>1. PairsPerSeq \in Nat \ {0} /\ Done \in Nat
    BY TaskSizes, DoneIs
  <2>2. PICK s \in Nat : Done = s * PairsPerSeq + 0
    BY <1>2 DEF SequenceInv
  <2>3. 0 \in 0 .. PairsPerSeq - 1
    BY <2>1
  <2>4. Done \div PairsPerSeq = s
    BY <2>1, <2>2, <2>3, QuotientIs
  <2>5. ASSUME NEW p \in 1 .. Done, InHand(p) PROVE FALSE
    <3> DEFINE t == (p - 1) \div PairsPerSeq
               r == (p - 1) % PairsPerSeq
    <3>1. t = s
      <4>1. (Done + 1) - 1 = Done
        BY <2>1
      <4>2. t = ((Done + 1) - 1) \div PairsPerSeq
        BY <1>2, <2>5 DEF InHand, SameSequence
      <4>3. QED
        BY <2>4, <4>1, <4>2
    <3>2. p - 1 \in Nat
      BY <2>1
    <3>3. r \in 0 .. PairsPerSeq - 1 /\ p - 1 = (t * PairsPerSeq) + r
      BY <2>1, <3>2, QuotientFits
    <3> HIDE DEF t, r
    <3>4. s * PairsPerSeq \in Nat
      BY <2>1
    <3>5. QED
      BY <2>1, <2>2, <3>1, <3>3, <3>4
  <2>6. QED
    BY <2>5
<1>3. QED
  BY <1>1, <1>2

LEMMA NextInHand ==
    ASSUME GenType, SequenceInv, task = "induction", vals /= << >>,
           kind = "fill" \/ (kind = "make" /\ ~ LastPair)
    PROVE  \A p \in Nat : SameSequence(p, Done + 2) <=> InHand(p)
<1>1. CASE kind = "fill"
  BY <1>1 DEF SameSequence, InHand
<1>2. CASE kind = "make"
  <2>1. PairsPerSeq \in Nat \ {0} /\ Done \in Nat /\ pair \in Nat
    BY TaskSizes, DoneIs DEF GenType
  <2>2. PICK s \in Nat : Done = s * PairsPerSeq + pair /\ pair < PairsPerSeq
    BY <1>2 DEF SequenceInv
  <2>3. /\ pair \in 0 .. PairsPerSeq - 1 /\ pair + 1 \in 0 .. PairsPerSeq - 1
        /\ Done + 1 = s * PairsPerSeq + (pair + 1) /\ Done + 1 \in Nat
    <3>1. s * PairsPerSeq \in Nat
      BY <2>1
    <3>2. pair + 1 /= PairsPerSeq
      BY <1>2 DEF LastPair
    <3>3. QED
      BY <2>1, <2>2, <3>1, <3>2
  <2>4. Done \div PairsPerSeq = s /\ (Done + 1) \div PairsPerSeq = s
    BY <2>1, <2>2, <2>3, QuotientIs
  <2>5. (Done + 1) - 1 = Done /\ (Done + 2) - 1 = Done + 1
    BY <2>1
  <2>6. QED
    BY <1>2, <2>4, <2>5 DEF SameSequence, InHand
<1>3. QED
  BY <1>1, <1>2

\* The keys of a dictionary are told apart by their bytes.
LEMMA KeysDiffer == \A k, l \in KeyIds : Keys[k] = Keys[l] => k = l
BY KeysAreDistinct

LEMMA DrawPairs ==
    ASSUME GenType, PairInv, SequenceInv, ValueInv, SeenInv, task = "induction", DrawMapping
    PROVE  PairInv' /\ SequenceInv' /\ ValueInv' /\ SeenInv'
<1>1. /\ vals = << >> /\ vals' \in [KeyIds -> Bytes] /\ pair' = 0
      /\ seen' = [k \in KeyIds |-> FALSE]
      /\ kind' = kind /\ task' = task /\ out' = out /\ mark' = mark /\ off' = off /\ key' = key
      /\ kind \in {"make", "fill"}
  BY DEF DrawMapping, NoneSeen, More
<1>2. vals' /= << >>
  BY <1>1, KeysAre
<1>3. /\ Done' = Done /\ \A p : InHand(p)' = InHand(p)
      /\ \A p, r : SameSequence(p, r)' = SameSequence(p, r)
  BY <1>1 DEF Done, InHand, SameSequence, Width
<1>4. \A p \in 1 .. Done : ~ InHand(p)
  BY <1>1, NoneInHand
<1>5. PairInv'
  BY <1>1, <1>2, <1>3 DEF PairInv
<1>6. SequenceInv'
  <2>1. PairsPerSeq \in Nat \ {0}
    BY TaskSizes
  <2>2. ASSUME kind = "make"
        PROVE  \E s \in Nat : Done' = s * PairsPerSeq + pair' /\ pair' < PairsPerSeq
    <3>1. PICK s \in Nat : Done = s * PairsPerSeq + 0
      BY <1>1, <2>2 DEF SequenceInv
    <3>2. Done' = s * PairsPerSeq + pair' /\ pair' < PairsPerSeq
      BY <1>1, <1>3, <2>1, <3>1
    <3>3. QED
      BY <3>2
  <2>3. QED
    BY <1>1, <1>2, <2>2 DEF SequenceInv
<1>7. ValueInv'
  BY <1>1, <1>3, <1>4 DEF ValueInv
<1>8. \A k : Shown(k)' = FALSE
  BY <1>1, <1>3, <1>4 DEF Shown
<1>9. \A k \in KeyIds : seen'[k] = FALSE
  BY <1>1
<1>10. SeenInv'
  BY <1>1, <1>3, <1>8, <1>9 DEF SeenInv
<1>11. QED
  BY <1>5, <1>6, <1>7, <1>10

LEMMA KeyBytePairs ==
    ASSUME GenType, PairInv, SequenceInv, ValueInv, SeenInv, PushKeyByte
    PROVE  PairInv' /\ SequenceInv' /\ ValueInv' /\ SeenInv'
<1> DEFINE b == Keys[key'][off + 1]
<1>1. /\ task = "induction" /\ vals /= << >> /\ off < KeyLen /\ key' \in KeyIds
      /\ off > 0 => key' = key
      /\ out' = Append(out, b) /\ off' = off + 1
      /\ mark' = IF kind = "make" THEN Append(mark, "key") ELSE mark
      /\ kind' = kind /\ task' = task /\ vals' = vals /\ pair' = pair /\ seen' = seen
  BY DEF PushKeyByte, Marked, GenType
<1>2. off \in 0 .. KeyLen /\ Len(out) = Done * Width + off /\ KeyLen \in Nat \ {0}
  BY <1>1, TaskSizes DEF PairInv
<1>3. b \in Bytes
  BY <1>1, <1>2, KeysAre
<1> HIDE DEF b
<1>4. /\ out' \in Seq(Bytes) /\ Len(out') = Len(out) + 1
      /\ \A i \in 1 .. Len(out) : out'[i] = out[i]
      /\ out'[Len(out) + 1] = b
      /\ \A p \in 1 .. Done : KeyIn(out', p) = KeyIn(out, p) /\ out'[p * Width] = out[p * Width]
      /\ Done' = Done /\ Len(out') = Done * Width + off + 1 /\ Len(out') % Width /= 0
  BY <1>1, <1>3, KeyByteAdds
<1>5. /\ Len(out) \in Nat /\ Done \in Nat /\ Width \in Nat \ {0}
      /\ Done * Width <= Len(out) /\ Done * Width \in Nat
      /\ \A p \in 1 .. Done : p \in Nat \ {0} /\ p * Width <= Done * Width /\ p * Width \in Nat \ {0}
  BY DoneIs
<1>6. /\ \A p : InHand(p)' = InHand(p)
      /\ \A p, r : SameSequence(p, r)' = SameSequence(p, r)
  BY <1>1, <1>4 DEF InHand, SameSequence
<1>7. PairInv'
  <2>1. off' \in 0 .. KeyLen /\ Len(out') = Done' * Width + off'
    BY <1>1, <1>2, <1>4, <1>5
  <2>2. ASSUME NEW j \in 1 .. off + 1 PROVE out'[Done * Width + j] = Keys[key'][j]
    <3>1. CASE j = off + 1
      BY <1>2, <1>4, <1>5, <3>1 DEF b
    <3>2. CASE j \in 1 .. off
      <4>1. Done * Width + j \in 1 .. Len(out) /\ off > 0
        BY <1>2, <1>5, <3>2
      <4>2. out[Done * Width + j] = Keys[key][j]
        BY <1>1, <3>2 DEF PairInv
      <4>3. QED
        BY <1>1, <1>4, <4>1, <4>2
    <3>3. QED
      BY <1>2, <3>1, <3>2
  <2>3. \A p \in 1 .. Done : \E k \in KeyIds : KeyIn(out', p) = Keys[k]
    BY <1>1, <1>4 DEF PairInv
  <2>4. QED
    BY <1>1, <1>4, <2>1, <2>2, <2>3 DEF PairInv, Width
<1>8. SequenceInv'
  BY <1>1, <1>4 DEF SequenceInv
<1>9. ValueInv'
  <2>1. \A p \in 1 .. Done : \A k \in KeyIds :
           InHand(p) /\ KeyIn(out', p) = Keys[k] => out'[p * Width] = vals[k]
    BY <1>1, <1>4 DEF ValueInv
  <2>2. \A p \in 1 .. Done : \A r \in 1 .. p - 1 :
           SameSequence(p, r) /\ KeyIn(out', r) = KeyIn(out', p)
              => out'[r * Width] = out'[p * Width]
    <3>1. \A p \in 1 .. Done : \A r \in 1 .. p - 1 : r \in 1 .. Done
      BY <1>5
    <3>2. QED
      BY <1>1, <1>4, <3>1 DEF ValueInv
  <2>3. QED
    BY <1>1, <1>4, <1>6, <2>1, <2>2 DEF ValueInv, Width
<1>10. SeenInv'
  <2> SUFFICES ASSUME kind = "make" PROVE SeenInv'
    BY <1>1 DEF SeenInv
  <2>1. \A k : Shown(k)' <=> Shown(k)
    BY <1>4, <1>6 DEF Shown
  <2>2. \A k \in KeyIds : seen'[k] = TRUE <=> Shown(k)'
    BY <1>1, <2>1 DEF SeenInv
  <2>3. mark' = Append(mark, "key") /\ Len(mark) = Len(out)
    BY <1>1 DEF SeenInv
  <2>4. /\ Len(mark') = Len(out') /\ mark'[Len(out) + 1] = "key"
        /\ \A i \in 1 .. Len(out) : mark'[i] = mark[i]
    BY <1>4, <1>5, <2>3 DEF GenType
  <2>5. ASSUME NEW i \in 1 .. Len(out') PROVE mark'[i] = "key" <=> i % Width /= 0
    <3>1. CASE i = Len(out) + 1
      BY <1>4, <2>4, <3>1
    <3>2. CASE i \in 1 .. Len(out)
      BY <1>1, <2>4, <3>2 DEF SeenInv
    <3>3. QED
      BY <1>4, <1>5, <3>1, <3>2
  <2>6. ASSUME NEW p \in 1 .. Done
        PROVE  mark'[p * Width] = "recall"
                 <=> \E r \in 1 .. p - 1 : SameSequence(p, r) /\ KeyIn(out', r) = KeyIn(out', p)
    <3>1. p * Width \in 1 .. Len(out)
      BY <1>5
    <3>2. \A r \in 1 .. p - 1 : r \in 1 .. Done
      BY <1>5
    <3>3. mark[p * Width] = "recall"
            <=> \E r \in 1 .. p - 1 : SameSequence(p, r) /\ KeyIn(out, r) = KeyIn(out, p)
      BY <1>1 DEF SeenInv
    <3>4. QED
      BY <1>4, <2>4, <3>1, <3>2, <3>3
  <2>7. QED
    BY <1>1, <1>4, <1>6, <2>2, <2>4, <2>5, <2>6 DEF SeenInv, Width
<1>11. QED
  BY <1>7, <1>8, <1>9, <1>10

LEMMA ValuePairs ==
    ASSUME GenType, PairInv, SequenceInv, ValueInv, SeenInv, PushValue
    PROVE  PairInv' /\ SequenceInv' /\ ValueInv' /\ SeenInv'
<1> DEFINE b == vals[key]
           Goes == kind = "fill" \/ (kind = "make" /\ ~ LastPair)
<1>1. /\ task = "induction" /\ vals /= << >> /\ vals \in [KeyIds -> Bytes] /\ off = KeyLen
      /\ key \in KeyIds /\ out' = Append(out, b) /\ off' = 0 /\ key' = key
      /\ mark' = IF kind = "make" THEN Append(mark, IF seen[key] THEN "recall" ELSE "fresh")
                 ELSE mark
      /\ kind' = kind /\ task' = task /\ kind \in {"make", "fill"}
  BY DEF PushValue, Marked, GenType
<1>2. /\ Goes => vals' = vals
      /\ ~ Goes => kind = "make" /\ LastPair /\ vals' = << >>
      /\ kind = "make" => seen' = [seen EXCEPT ![key] = TRUE] /\ pair' = pair + 1
  <2>1. CASE kind = "fill"
    <3>1. vals' = vals
      BY <2>1 DEF PushValue
    <3>2. QED
      BY <2>1, <3>1
  <2>2. CASE kind = "make"
    <3>1. seen' = [seen EXCEPT ![key] = TRUE] /\ pair' = pair + 1
      BY <2>2 DEF PushValue
    <3>2. LastPair => vals' = << >>
      BY <2>2 DEF PushValue
    <3>3. ~ LastPair => vals' = vals
      BY <2>2 DEF PushValue
    <3>4. QED
      BY <2>2, <3>1, <3>2, <3>3
  <2>3. QED
    BY <1>1, <2>1, <2>2
<1>3. Len(out) = Done * Width + KeyLen /\ KeyLen \in Nat \ {0}
  BY <1>1, TaskSizes DEF PairInv
<1>4. b \in Bytes
  BY <1>1
<1> HIDE DEF b, Goes
<1>5. /\ out' \in Seq(Bytes) /\ Len(out') = Len(out) + 1
      /\ \A i \in 1 .. Len(out) : out'[i] = out[i]
      /\ out'[Len(out) + 1] = b
      /\ \A p \in 1 .. Done : KeyIn(out', p) = KeyIn(out, p) /\ out'[p * Width] = out[p * Width]
      /\ Done' = Done + 1 /\ Len(out') = (Done + 1) * Width /\ Len(out') % Width = 0
  BY <1>1, <1>4, KeyByteAdds
<1>6. /\ Len(out) \in Nat /\ Done \in Nat /\ Width \in Nat \ {0}
      /\ Done * Width <= Len(out) /\ Done * Width \in Nat
      /\ \A p \in 1 .. Done : p \in Nat \ {0} /\ p * Width <= Done * Width /\ p * Width \in Nat \ {0}
  BY DoneIs
<1>7. \A p, r : SameSequence(p, r)' = SameSequence(p, r)
  BY <1>1 DEF SameSequence
<1>8. /\ (Done + 1) - 1 = Done /\ (Done + 1) + 1 = Done + 2 /\ Done + 1 \in Nat \ {0}
      /\ \A p \in 1 .. Done + 1 : p \in 1 .. Done \/ p = Done + 1
      /\ \A p \in 1 .. Done + 1 : \A r \in 1 .. p - 1 : r \in 1 .. Done
      /\ 1 .. Done \subseteq 1 .. Done + 1 /\ Done + 1 \in 1 .. Done + 1
  BY <1>6
\* The pair just completed has the key at hand and its value.
<1>9. KeyIn(out', Done + 1) = Keys[key]
  <2> DEFINE p == Done + 1
  <2>1. p \in Nat \ {0} /\ p - 1 = Done
    BY <1>8
  <2> HIDE DEF p
  <2>2. (p - 1) * Width + KeyLen <= Len(out')
    BY <1>3, <1>5, <1>6, <2>1
  <2>3. ASSUME NEW j \in 1 .. KeyLen PROVE out'[(p - 1) * Width + j] = Keys[key][j]
    <3>1. Done * Width + j \in 1 .. Len(out)
      BY <1>3, <1>6
    <3>2. out[Done * Width + j] = Keys[key][j]
      BY <1>1 DEF PairInv
    <3>3. QED
      BY <1>5, <2>1, <3>1, <3>2
  <2>4. KeyIn(out', p) = Keys[key]
    <3> DEFINE u == out'
    <3>1. /\ u \in Seq(Bytes) /\ (p - 1) * Width + KeyLen <= Len(u)
          /\ \A j \in 1 .. KeyLen : u[(p - 1) * Width + j] = Keys[key][j]
      BY <1>5, <2>2, <2>3
    <3> HIDE DEF u
    <3>2. KeyIn(u, p) = Keys[key]
      BY <1>1, <2>1, <3>1, KeyIs
    <3>3. QED
      BY <3>2 DEF u
  <2>5. QED
    BY <2>4 DEF p
<1>10. out'[(Done + 1) * Width] = b
  BY <1>5
<1>11. PairInv'
  <2>1. 0 \in 0 .. KeyLen /\ Len(out') = (Done + 1) * Width + 0
    BY <1>3, <1>5, <1>6
  <2>2. ASSUME NEW p \in 1 .. Done + 1 PROVE \E k \in KeyIds : KeyIn(out', p) = Keys[k]
    <3>1. CASE p = Done + 1
      BY <1>1, <1>9, <3>1
    <3>2. CASE p \in 1 .. Done
      BY <1>1, <1>5, <3>2 DEF PairInv
    <3>3. QED
      BY <1>8, <3>1, <3>2
  <2>3. QED
    BY <1>1, <1>5, <2>1, <2>2 DEF PairInv, Width
<1>12. SequenceInv'
  <2>1. PairsPerSeq \in Nat \ {0} /\ pair \in Nat
    BY TaskSizes DEF GenType
  <2>2. CASE kind = "fill"
    BY <1>1, <1>2, <2>2 DEF SequenceInv, Goes
  <2>3. CASE kind = "make"
    <3>1. PICK s \in Nat : Done = s * PairsPerSeq + pair /\ pair < PairsPerSeq
      BY <1>1, <2>3 DEF SequenceInv
    <3>2. CASE LastPair
      <4>1. pair + 1 = PairsPerSeq
        BY <3>2 DEF LastPair
      <4>2. (s + 1) * PairsPerSeq = s * PairsPerSeq + PairsPerSeq
        BY <2>1, RowsGrow
      <4>3. Done + 1 = (s + 1) * PairsPerSeq + 0 /\ s + 1 \in Nat
        <5>1. s * PairsPerSeq \in Nat /\ (s + 1) * PairsPerSeq \in Nat
          BY <2>1
        <5>2. QED
          BY <2>1, <3>1, <4>1, <4>2, <5>1
      <4>4. vals' = << >>
        BY <1>2, <2>3, <3>2 DEF Goes
      <4>5. QED
        BY <1>1, <1>5, <2>3, <4>3, <4>4 DEF SequenceInv
    <3>3. CASE ~ LastPair
      <4>1. pair + 1 /= PairsPerSeq /\ vals' = vals /\ pair' = pair + 1
        BY <1>2, <2>3, <3>3 DEF LastPair, Goes
      <4>2. Done + 1 = s * PairsPerSeq + (pair + 1) /\ pair + 1 < PairsPerSeq
        <5>1. s * PairsPerSeq \in Nat
          BY <2>1
        <5>2. QED
          BY <2>1, <3>1, <4>1, <5>1
      <4>3. QED
        BY <1>1, <1>5, <2>3, <4>1, <4>2 DEF SequenceInv
    <3>4. QED
      BY <3>2, <3>3
  <2>4. QED
    BY <1>1, <2>2, <2>3
<1>13. /\ InHand(Done + 1)
       /\ Goes => \A p \in Nat : InHand(p)' <=> InHand(p)
  <2>1. InHand(Done + 1)
    BY DEF InHand, SameSequence
  <2>2. ASSUME Goes PROVE \A p \in Nat : SameSequence(p, Done + 2) <=> InHand(p)
    BY <1>1, <2>2, NextInHand DEF Goes
  <2>3. \A p : InHand(p)' <=> SameSequence(p, Done + 2)
    BY <1>1, <1>5, <1>8 DEF InHand, SameSequence
  <2>4. QED
    BY <2>1, <2>2, <2>3
<1>14. ASSUME NEW k \in KeyIds, KeyIn(out', Done + 1) = Keys[k] PROVE k = key
  BY <1>1, <1>9, <1>14, KeysDiffer
<1>15. ValueInv'
  <2>1. ASSUME vals' /= << >>, NEW p \in 1 .. Done + 1, NEW k \in KeyIds,
               InHand(p)', KeyIn(out', p) = Keys[k]
        PROVE  out'[p * Width] = vals'[k]
    <3>1. Goes /\ vals' = vals
      BY <1>2, <2>1
    <3>2. CASE p = Done + 1
      BY <1>10, <1>14, <2>1, <3>1, <3>2 DEF b
    <3>3. CASE p \in 1 .. Done
      <4>1. InHand(p)
        BY <1>6, <1>13, <2>1, <3>1, <3>3
      <4>2. KeyIn(out, p) = Keys[k] /\ out'[p * Width] = out[p * Width]
        BY <1>5, <2>1, <3>3
      <4>3. QED
        BY <1>1, <3>1, <3>3, <4>1, <4>2 DEF ValueInv
    <3>4. QED
      BY <1>8, <3>2, <3>3
  <2>2. ASSUME NEW p \in 1 .. Done + 1, NEW r \in 1 .. p - 1,
               SameSequence(p, r), KeyIn(out', r) = KeyIn(out', p)
        PROVE  out'[r * Width] = out'[p * Width]
    <3>1. r \in 1 .. Done
      BY <1>8
    <3>2. CASE p = Done + 1
      <4>1. InHand(r)
        BY <2>2, <3>2 DEF InHand, SameSequence
      <4>2. KeyIn(out, r) = Keys[key] /\ out'[r * Width] = out[r * Width]
        BY <1>5, <1>9, <2>2, <3>1, <3>2
      <4>3. out[r * Width] = vals[key]
        BY <1>1, <3>1, <4>1, <4>2 DEF ValueInv
      <4>4. QED
        BY <1>10, <3>2, <4>2, <4>3 DEF b
    <3>3. CASE p \in 1 .. Done
      <4>1. KeyIn(out, r) = KeyIn(out, p)
        BY <1>5, <2>2, <3>1, <3>3
      <4>2. out[r * Width] = out[p * Width]
        BY <1>1, <2>2, <3>3, <4>1 DEF ValueInv
      <4>3. QED
        BY <1>5, <3>1, <3>3, <4>2
    <3>4. QED
      BY <1>8, <3>2, <3>3
  <2>3. QED
    BY <1>1, <1>5, <1>7, <2>1, <2>2 DEF ValueInv, Width
<1>16. SeenInv'
  <2> SUFFICES ASSUME kind = "make" PROVE SeenInv'
    BY <1>1 DEF SeenInv
  <2> DEFINE m == IF seen[key] THEN "recall" ELSE "fresh"
  <2>1. seen \in [KeyIds -> BOOLEAN] /\ seen' = [seen EXCEPT ![key] = TRUE]
    BY <1>2 DEF GenType
  <2>2. seen'[key] = TRUE /\ \A k \in KeyIds : k /= key => seen'[k] = seen[k]
    BY <1>1, <2>1
  <2>3. ASSUME vals' /= << >>, NEW k \in KeyIds PROVE seen'[k] = TRUE <=> Shown(k)'
    <3>1. Goes
      BY <1>2, <2>3
    <3>2. Shown(k)' <=> \E p \in 1 .. Done + 1 : InHand(p) /\ KeyIn(out', p) = Keys[k]
      <4>1. Shown(k)' <=> \E p \in 1 .. Done + 1 : InHand(p)' /\ KeyIn(out', p) = Keys[k]
        BY <1>5 DEF Shown
      <4>2. \A p \in 1 .. Done + 1 : InHand(p)' <=> InHand(p)
        BY <1>6, <1>13, <3>1
      <4>3. QED
        BY <4>1, <4>2
    <3>3. CASE k = key
      BY <1>8, <1>9, <1>13, <2>2, <3>2, <3>3
    <3>4. CASE k /= key
      <4>1. Shown(k)' <=> Shown(k)
        BY <1>5, <1>8, <1>14, <3>2, <3>4 DEF Shown
      <4>2. QED
        BY <1>1, <2>2, <3>4, <4>1 DEF SeenInv
    <3>5. QED
      BY <3>3, <3>4
  <2>4. mark' = Append(mark, m) /\ Len(mark) = Len(out) /\ m \in {"recall", "fresh"}
    BY <1>1 DEF SeenInv
  <2> HIDE DEF m
  <2>5. /\ Len(mark') = Len(out') /\ mark'[Len(out) + 1] = m
        /\ \A i \in 1 .. Len(out) : mark'[i] = mark[i]
    BY <1>5, <1>6, <2>4 DEF GenType
  <2>6. ASSUME NEW i \in 1 .. Len(out') PROVE mark'[i] = "key" <=> i % Width /= 0
    <3>1. CASE i = Len(out) + 1
      BY <1>5, <2>4, <2>5, <3>1
    <3>2. CASE i \in 1 .. Len(out)
      BY <1>1, <2>5, <3>2 DEF SeenInv
    <3>3. QED
      BY <1>5, <1>6, <3>1, <3>2
  <2>7. ASSUME NEW p \in 1 .. Done + 1
        PROVE  mark'[p * Width] = "recall"
                 <=> \E r \in 1 .. p - 1 : SameSequence(p, r) /\ KeyIn(out', r) = KeyIn(out', p)
    <3>1. CASE p = Done + 1
      <4>1. mark'[p * Width] = m
        BY <1>5, <2>5, <3>1
      <4>2. m = "recall" <=> seen[key] = TRUE
        BY <1>1, <2>1 DEF m
      <4>3. seen[key] = TRUE <=> Shown(key)
        BY <1>1 DEF SeenInv
      <4>4. Shown(key) <=> \E r \in 1 .. p - 1 : SameSequence(p, r) /\ KeyIn(out', r) = KeyIn(out', p)
        <5>1. 1 .. p - 1 = 1 .. Done
          BY <1>8, <3>1
        <5>2. \A r \in 1 .. Done : KeyIn(out, r) = KeyIn(out', r)
          BY <1>5
        <5>3. \A r : InHand(r) <=> SameSequence(p, r)
          BY <3>1 DEF InHand, SameSequence
        <5>4. QED
          BY <1>9, <3>1, <5>1, <5>2, <5>3 DEF Shown
      <4>5. QED
        BY <4>1, <4>2, <4>3, <4>4
    <3>2. CASE p \in 1 .. Done
      <4>1. p * Width \in 1 .. Len(out)
        BY <1>6, <3>2
      <4>2. mark[p * Width] = "recall"
              <=> \E r \in 1 .. p - 1 : SameSequence(p, r) /\ KeyIn(out, r) = KeyIn(out, p)
        BY <1>1, <3>2 DEF SeenInv
      <4>3. QED
        BY <1>5, <1>8, <2>5, <3>2, <4>1, <4>2
    <3>3. QED
      BY <1>8, <3>1, <3>2
  <2>8. QED
    BY <1>1, <1>5, <1>7, <2>3, <2>5, <2>6, <2>7 DEF SeenInv, Width
<1>17. QED
  BY <1>11, <1>12, <1>15, <1>16

LEMMA NextPairs ==
    GenType /\ PairInv /\ SequenceInv /\ ValueInv /\ SeenInv /\ [BenchNext]_<<genVars, benchVars>>
      => PairInv' /\ SequenceInv' /\ ValueInv' /\ SeenInv'
<1> SUFFICES ASSUME GenType, PairInv, SequenceInv, ValueInv, SeenInv,
                    [BenchNext]_<<genVars, benchVars>>
             PROVE  PairInv' /\ SequenceInv' /\ ValueInv' /\ SeenInv'
  OBVIOUS
<1>1. CASE PushBit \/ PushParity
  BY <1>1 DEF PushBit, PushParity, PairInv, SequenceInv, ValueInv, SeenInv
<1>2. CASE DrawMapping
  BY <1>2, DrawPairs DEF DrawMapping
<1>3. CASE PushKeyByte
  BY <1>3, KeyBytePairs
<1>4. CASE PushValue
  BY <1>4, ValuePairs
<1>5. CASE UNCHANGED genVars
  BY <1>5 DEF genVars, PairInv, SequenceInv, ValueInv, SeenInv, Done, Shown, InHand, SameSequence
<1>6. QED
  BY <1>1, <1>2, <1>3, <1>4, <1>5 DEF BenchNext, Generate

LEMMA PairsAlways == BenchSpec => [](PairInv /\ SequenceInv /\ ValueInv /\ SeenInv)
BY InitPairs, NextPairs, GenTypeAlways, PTL DEF BenchSpec

\* The pairs that the properties speak of are the complete ones.
LEMMA PairsAre ==
    /\ Pairs = 1 .. Done
    /\ \A p : KeyOf(p) = KeyIn(out, p) /\ ValueOf(p) = out[p * Width]
BY DEF Pairs, Done, KeyOf, KeyIn, ValueOf

\* An induction stream is a run of pairs of a dictionary key and a value, and
\* within a sequence a key always comes with the same value: for every
\* dictionary, width of a key, and length of a sequence and of the stream.
THEOREM InductionPairsAlways == BenchSpec => []InductionPairs
<1>1. GenType /\ PairInv /\ ValueInv => InductionPairs
  <2> SUFFICES ASSUME GenType, PairInv, ValueInv, task = "induction", NEW p \in Pairs
               PROVE  /\ KeyOf(p) \in Range(Keys)
                      /\ \A q \in ShownBefore(p) : ValueOf(q) = ValueOf(p)
    BY DEF InductionPairs
  <2>1. p \in 1 .. Done /\ Done \in Nat
    BY PairsAre, DoneIs
  <2>2. KeyOf(p) \in Range(Keys)
    <3>1. PICK k \in KeyIds : KeyIn(out, p) = Keys[k]
      BY <2>1 DEF PairInv
    <3>2. QED
      BY <3>1, PairsAre DEF Range, KeyIds
  <2>3. ASSUME NEW q \in ShownBefore(p) PROVE ValueOf(q) = ValueOf(p)
    <3>1. q \in 1 .. p - 1 /\ SameSequence(p, q) /\ KeyIn(out, q) = KeyIn(out, p)
      BY <2>3, PairsAre DEF ShownBefore
    <3>2. out[q * Width] = out[p * Width]
      BY <2>1, <3>1 DEF ValueInv
    <3>3. QED
      BY <3>2, PairsAre
  <2>4. QED
    BY <2>2, <2>3
<1>2. QED
  BY <1>1, GenTypeAlways, PairsAlways, PTL

\* A value is free at the floor exactly when its key stands earlier in the same
\* sequence: of every made induction stream.
THEOREM RecallIsKnowableAlways == BenchSpec => []RecallIsKnowable
<1>1. SeenInv => RecallIsKnowable
  <2> SUFFICES ASSUME SeenInv, kind = "make", task = "induction", NEW p \in Pairs
               PROVE  (mark[p * Width] = "recall") = (ShownBefore(p) /= {})
    BY DEF RecallIsKnowable
  <2>1. mark[p * Width] = "recall"
          <=> \E r \in 1 .. p - 1 : SameSequence(p, r) /\ KeyIn(out, r) = KeyIn(out, p)
    BY PairsAre DEF SeenInv
  <2>2. ShownBefore(p) /= {}
          <=> \E r \in 1 .. p - 1 : SameSequence(p, r) /\ KeyIn(out, r) = KeyIn(out, p)
    BY PairsAre DEF ShownBefore
  <2>3. QED
    BY <2>1, <2>2
<1>2. QED
  BY <1>1, PairsAlways, PTL

-------------------------------------------------------------------------------
(* The loops that score a stream *)

Weights == [Bytes -> Nat]
Costs == {Cost(w, b) : w \in Weights, b \in Bytes}

BenchType ==
    /\ knobs \in Seq(Int) /\ scoring \in BOOLEAN /\ pos \in Nat \ {0}
    /\ \A c \in DOMAIN table : table[c] \in Weights
    /\ ledger \in Seq(Costs) /\ points \in Seq([order : 0 .. MaxOrder, costs : Seq(Costs)])

\* A model is driven over a stream that is complete, and a filled buffer over none.
SettledInv ==
    /\ scoring => knobs /= << >> /\ pos <= Len(out) + 1
    /\ scoring = TRUE \/ points /= << >> => ~ More
    /\ kind = "fill" => knobs = << >>
    /\ task /= "induction" => mark = << >>

LEMMA CountsType ==
    ASSUME BenchType, NEW b \in Bytes
    PROVE  /\ Predicted \in Weights
           /\ \A d \in DOMAIN Observed(table, ctx, b) : Observed(table, ctx, b)[d] \in Weights
<1> DEFINE w == CountsOf(table, ctx)
           o == Observed(table, ctx, b)
<1>1. w \in Weights
  BY DEF CountsOf, NoCounts, Weights, BenchType
<1> HIDE DEF w
<1>2. Predicted \in Weights
  <2>1. Predicted = [c \in Bytes |-> w[c] + 1]
    BY DEF Predicted, Predict, w
  <2>2. QED
    BY <1>1, <2>1 DEF Weights
<1>3. [w EXCEPT ![b] = (@ + 1) % CountLimit] \in Weights
  <2>1. (w[b] + 1) % CountLimit \in Nat
    <3>1. w[b] + 1 \in Nat
      BY <1>1 DEF Weights
    <3>2. QED
      BY <3>1, ModelSizes
  <2>2. QED
    BY <1>1, <2>1 DEF Weights
<1>4. ASSUME NEW d \in DOMAIN o PROVE o[d] \in Weights
  <2>1. /\ DOMAIN o = DOMAIN table \cup {ctx}
        /\ d = ctx => o[d] = [w EXCEPT ![b] = (@ + 1) % CountLimit]
        /\ d /= ctx => o[d] = table[d]
    BY <1>4 DEF Observed, w
  <2> HIDE DEF o
  <2>2. QED
    BY <1>3, <1>4, <2>1 DEF BenchType
<1>5. QED
  BY <1>2, <1>4

LEMMA InitBench == BenchInit => BenchType /\ SettledInv
<1> SUFFICES ASSUME BenchInit PROVE BenchType /\ SettledInv
  OBVIOUS
<1>1. scoring = FALSE /\ pos = 1 /\ table = NoTable /\ ledger = << >> /\ points = << >>
  BY DEF BenchInit
<1>2. knobs \in Seq(Int) /\ (kind = "fill" => knobs = << >>) /\ mark = << >>
  <2>1. CASE GenInit /\ knobs \in IF kind = "make" THEN {<<k>> : k \in Knobs} ELSE {<< >>}
    <3>1. CASE kind = "make"
      <4>1. PICK k \in Knobs : knobs = <<k>>
        BY <2>1, <3>1
      <4>2. k \in Int
        BY <4>1, OrdersAreInts
      <4>3. QED
        BY <2>1, <3>1, <4>1, <4>2 DEF GenInit
    <3>2. CASE kind /= "make"
      <4>1. knobs = << >>
        BY <2>1, <3>2
      <4>2. QED
        BY <2>1, <4>1 DEF GenInit
    <3>3. QED
      BY <3>1, <3>2
  <2>2. CASE kind = "corpus" /\ knobs \in Sweeps /\ mark = << >>
    BY <2>2, OrdersAreInts
  <2>3. QED
    BY <2>1, <2>2 DEF BenchInit
<1>3. \A c \in DOMAIN table : table[c] \in Weights
  BY <1>1 DEF NoTable
<1>4. BenchType
  <2>1. ledger \in Seq(Costs) /\ points \in Seq([order : 0 .. MaxOrder, costs : Seq(Costs)])
    BY <1>1
  <2>2. scoring \in BOOLEAN /\ pos \in Nat \ {0}
    <3>1. scoring \in BOOLEAN
      BY <1>1, Zenon
    <3>2. pos \in Nat \ {0}
      BY <1>1
    <3>3. QED
      BY <3>1, <3>2
  <2>3. knobs \in Seq(Int)
    BY <1>2
  <2>4. QED
    BY <1>3, <2>1, <2>2, <2>3, Zenon DEF BenchType
<1>5. SettledInv
  BY <1>1, <1>2 DEF SettledInv
<1>6. QED
  BY <1>4, <1>5

LEMMA NextBenchType ==
    GenType /\ BenchType /\ SettledInv /\ [BenchNext]_<<genVars, benchVars>> => BenchType'
<1> SUFFICES ASSUME GenType, BenchType, SettledInv, [BenchNext]_<<genVars, benchVars>>
             PROVE  BenchType'
  OBVIOUS
<1>1. CASE UNCHANGED benchVars
  BY <1>1 DEF benchVars, BenchType
<1>2. CASE NewModel
  <2>1. \A c \in DOMAIN table' : table'[c] \in Weights
    BY <1>2 DEF NewModel, NewTable, NoTable
  <2>2. QED
    BY <1>2, <2>1 DEF NewModel, BenchType
<1>3. CASE ScoreByte
  <2> DEFINE b == out[pos]
  <2>1. b \in Bytes /\ pos' \in Nat \ {0}
    BY <1>3 DEF ScoreByte, GenType, BenchType
  <2>2. Cost(Predicted, b) \in Costs
    BY <2>1, CountsType DEF Costs
  <2>3. ledger' \in Seq(Costs)
    BY <1>3, <2>2 DEF ScoreByte, BenchType
  <2>4. table' = Observed(table, ctx, b)
    BY <1>3 DEF ScoreByte
  <2>5. \A c \in DOMAIN table' : table'[c] \in Weights
    BY <2>1, <2>4, CountsType
  <2>6. QED
    BY <1>3, <2>1, <2>3, <2>5 DEF ScoreByte, BenchType
<1>4. CASE PushPoint
  <2>1. Head(knobs) \in Int /\ Tail(knobs) \in Seq(Int)
    BY <1>4 DEF PushPoint, BenchType, SettledInv
  <2>2. Order \in 0 .. MaxOrder
    BY <2>1, ModelSizes DEF Order, Clamped
  <2>3. points' \in Seq([order : 0 .. MaxOrder, costs : Seq(Costs)])
    BY <1>4, <2>2 DEF PushPoint, BenchType
  <2>4. QED
    BY <1>4, <2>1, <2>3 DEF PushPoint, BenchType
<1>5. QED
  BY <1>1, <1>2, <1>3, <1>4 DEF BenchNext

\* Once a model has been driven the stream stays as it is.
LEMMA Settles ==
    ASSUME SettledInv, [BenchNext]_<<genVars, benchVars>>, scoring = TRUE \/ points /= << >>
    PROVE  UNCHANGED genVars
<1>1. ~ More
  BY DEF SettledInv
<1>2. ~ Generate
  BY <1>1 DEF Generate, PushBit, PushParity, DrawMapping, PushKeyByte, PushValue
<1>3. QED
  BY <1>2 DEF BenchNext

LEMMA NextSettled ==
    GenType /\ BenchType /\ SettledInv /\ [BenchNext]_<<genVars, benchVars>> => SettledInv'
<1> SUFFICES ASSUME GenType, BenchType, SettledInv, [BenchNext]_<<genVars, benchVars>>
             PROVE  SettledInv'
  OBVIOUS
<1>1. CASE Generate /\ UNCHANGED benchVars
  <2>1. scoring = FALSE /\ points = << >>
    BY <1>1 DEF Generate, PushBit, PushParity, DrawMapping, PushKeyByte, PushValue,
                SettledInv, BenchType
  <2>2. kind' = kind /\ task' = task /\ (task /= "induction" => mark' = mark)
    BY <1>1 DEF Generate, PushBit, PushParity, DrawMapping, PushKeyByte, PushValue
  <2>3. QED
    BY <1>1, <2>1, <2>2 DEF benchVars, SettledInv
<1>2. ASSUME UNCHANGED genVars PROVE More' = More
  BY <1>2 DEF genVars, More
<1>3. CASE NewModel /\ UNCHANGED genVars
  BY <1>2, <1>3 DEF NewModel, genVars, SettledInv, GenType
<1>4. CASE ScoreByte /\ UNCHANGED genVars
  <2>1. scoring = TRUE /\ scoring' = TRUE /\ pos' <= Len(out') + 1
    BY <1>4 DEF ScoreByte, genVars, BenchType, GenType
  <2>2. QED
    BY <1>2, <1>4, <2>1 DEF ScoreByte, genVars, SettledInv
<1>5. CASE PushPoint /\ UNCHANGED genVars
  <2>1. scoring = TRUE /\ scoring' = FALSE /\ kind /= "fill"
    BY <1>5 DEF PushPoint, BenchType, SettledInv
  <2>2. QED
    BY <1>2, <1>5, <2>1 DEF PushPoint, genVars, SettledInv
<1>6. CASE UNCHANGED <<genVars, benchVars>>
  BY <1>2, <1>6 DEF genVars, benchVars, SettledInv
<1>7. QED
  BY <1>1, <1>3, <1>4, <1>5, <1>6 DEF BenchNext

LEMMA BenchAlways == BenchSpec => [](GenType /\ BenchType /\ SettledInv)
BY InitGenType, NextGenType, InitBench, NextBenchType, NextSettled, PTL DEF BenchSpec

\* The number of whole rows in one number more.
LEMMA NextRow ==
    ASSUME NEW n \in Nat, NEW B \in Nat \ {0}
    PROVE  (n + 1) \div B = IF (n + 1) % B = 0 THEN (n \div B) + 1 ELSE n \div B
<1> DEFINE q == n \div B
           r == n % B
<1>1. q \in Nat /\ r \in 0 .. B - 1 /\ n = (q * B) + r
  BY QuotientFits
<1> HIDE DEF q, r
<1>2. CASE r + 1 = B
  <2>1. n + 1 = (q + 1) * B + 0 /\ q + 1 \in Nat /\ 0 \in 0 .. B - 1 /\ n + 1 \in Nat
    <3>1. (q + 1) * B = q * B + B /\ q * B \in Nat
      BY <1>1, RowsGrow
    <3>2. QED
      BY <1>1, <1>2, <3>1
  <2> DEFINE m == n + 1
             d == q + 1
  <2> HIDE DEF m, d
  <2>2. m \in Nat /\ d \in Nat /\ m = d * B + 0 /\ 0 \in 0 .. B - 1
    BY <2>1 DEF m, d
  <2>3. m \div B = d /\ m % B = 0
    BY <2>2, QuotientIs
  <2>4. QED
    BY <2>3 DEF m, d, q
<1>3. CASE r + 1 /= B
  <2>1. n + 1 = q * B + (r + 1) /\ r + 1 \in 0 .. B - 1 /\ n + 1 \in Nat /\ r + 1 /= 0
    <3>1. q * B \in Nat
      BY <1>1
    <3>2. QED
      BY <1>1, <1>3, <3>1
  <2> DEFINE m == n + 1
             t == r + 1
  <2> HIDE DEF m, t
  <2>2. m \in Nat /\ t \in 0 .. B - 1 /\ m = q * B + t /\ t /= 0
    BY <2>1 DEF m, t
  <2>3. m \div B = q /\ m % B = t
    BY <1>1, <2>2, QuotientIs
  <2>4. QED
    BY <2>2, <2>3 DEF m, q
<1>4. QED
  BY <1>2, <1>3

\* Which byte of a task stream is scored.
LEMMA ScoredByte ==
    ASSUME GenType, BenchType, SettledInv, SeenInv, ScoreByte
    PROVE  /\ task /= "induction" => Scored(pos)
           /\ task = "induction" =>
                /\ Scored(pos) <=> pos % Width = 0
                /\ pos \div Width = IF pos % Width = 0 THEN ((pos - 1) \div Width) + 1
                                    ELSE (pos - 1) \div Width
<1>1. pos \in 1 .. Len(out) /\ pos - 1 \in Nat /\ (pos - 1) + 1 = pos /\ Width \in Nat \ {0}
  BY TaskSizes DEF ScoreByte, BenchType, GenType, Width
<1>2. CASE task = "induction"
  <2>1. kind = "make"
    <3>1. kind /= "corpus" /\ kind /= "fill"
      BY <1>2 DEF ScoreByte, SettledInv, GenType
    <3>2. QED
      BY <3>1 DEF GenType
  <2>2. Scored(pos) <=> pos % Width = 0
    <3>1. Len(mark) = Len(out) /\ (mark[pos] = "key" <=> pos % Width /= 0)
      BY <1>1, <1>2, <2>1 DEF SeenInv
    <3>2. mark /= << >>
      BY <1>1, <3>1
    <3>3. QED
      BY <3>1, <3>2 DEF Scored
  <2>3. pos \div Width = IF pos % Width = 0 THEN ((pos - 1) \div Width) + 1
                         ELSE (pos - 1) \div Width
    <3> DEFINE n == pos - 1
    <3>1. n \in Nat /\ n + 1 = pos
      BY <1>1
    <3> HIDE DEF n
    <3>2. (n + 1) \div Width = IF (n + 1) % Width = 0 THEN (n \div Width) + 1 ELSE n \div Width
      BY <1>1, <3>1, NextRow
    <3>3. QED
      BY <3>1, <3>2 DEF n
  <2>4. QED
    BY <1>2, <2>2, <2>3
<1>3. CASE task /= "induction"
  BY <1>3 DEF Scored, SettledInv
<1>4. QED
  BY <1>2, <1>3

LEMMA NextScored ==
    GenType /\ BenchType /\ SettledInv /\ SeenInv /\ OnlyValuesScored
      /\ [BenchNext]_<<genVars, benchVars>> => OnlyValuesScored'
<1> SUFFICES ASSUME GenType, BenchType, SettledInv, SeenInv, OnlyValuesScored,
                    [BenchNext]_<<genVars, benchVars>>, scoring'
             PROVE  OnlyValuesScored'
  BY DEF OnlyValuesScored
<1> DEFINE Rows(n) == IF task = "induction" THEN n \div Width ELSE n
<1>1. Width \in Nat \ {0}
  BY TaskSizes DEF Width
<1>2. CASE UNCHANGED benchVars
  <2>1. scoring = TRUE
    BY <1>2 DEF benchVars, BenchType
  <2>2. UNCHANGED genVars
    BY <2>1, Settles
  <2>3. QED
    BY <1>2, <2>2 DEF benchVars, genVars, OnlyValuesScored, Width
<1>3. CASE NewModel /\ UNCHANGED genVars
  <2>1. Len(ledger') = 0 /\ pos' - 1 = 0
    BY <1>3 DEF NewModel
  <2>2. 0 \div Width = 0
    <3>1. 0 = 0 * Width + 0 /\ 0 \in 0 .. Width - 1
      BY <1>1
    <3>2. QED
      BY <1>1, <3>1, QuotientIs
  <2>3. QED
    BY <2>1, <2>2 DEF OnlyValuesScored, Width
<1>4. CASE ScoreByte /\ UNCHANGED genVars
  <2>1. /\ pos \in 1 .. Len(out) /\ pos' - 1 = pos /\ pos - 1 \in Nat /\ (pos - 1) + 1 = pos
        /\ Len(ledger) = Rows(pos - 1) /\ task' = task
    BY <1>4 DEF ScoreByte, BenchType, GenType, OnlyValuesScored, genVars
  <2>2. Len(ledger') = IF Scored(pos) THEN Len(ledger) + 1 ELSE Len(ledger)
    BY <1>4 DEF ScoreByte, BenchType
  <2>3. CASE task = "induction"
    <3>1. Len(ledger') = pos \div Width
      BY <1>4, <2>1, <2>2, <2>3, ScoredByte
    <3>2. QED
      BY <2>1, <2>3, <3>1 DEF OnlyValuesScored, Width
  <2>4. CASE task /= "induction"
    <3>1. Scored(pos)
      BY <1>4, <2>4, ScoredByte
    <3>2. QED
      BY <2>1, <2>2, <2>4, <3>1 DEF OnlyValuesScored
  <2>5. QED
    BY <2>3, <2>4
<1>5. CASE PushPoint
  BY <1>5 DEF PushPoint
<1>6. QED
  BY <1>2, <1>3, <1>4, <1>5 DEF BenchNext

\* Of an induction stream the values are scored, each once, and no key byte, and
\* of the others every byte: for every stream, order and width of a key.
THEOREM OnlyValuesScoredAlways == BenchSpec => []OnlyValuesScored
<1>1. BenchInit => OnlyValuesScored
  BY DEF BenchInit, OnlyValuesScored
<1>2. QED
  BY <1>1, NextScored, BenchAlways, PairsAlways, PTL DEF BenchSpec

-------------------------------------------------------------------------------
(* A model driven over a stream, as a function of its order alone *)

AfterByte(o, b, counted, m) ==
    [ctx |-> (((m.ctx * Base) % Word) + b) % Power[o],
     table |-> Observed(m.table, m.ctx, b),
     ledger |-> IF counted THEN Append(m.ledger, Cost(Predict(m.table, m.ctx), b))
                ELSE m.ledger]

NoBytes == [ctx |-> 0, table |-> NoTable, ledger |-> << >>]

\* f holds what a model of order o is after every one of the first n bytes of s.
Drives(f, o, n, s, marks) ==
    /\ f[0] = NoBytes
    /\ \A i \in 1 .. n :
          f[i] = AfterByte(o, s[i], marks = << >> \/ marks[i] /= "key", f[i - 1])

LEMMA DrivesAlike ==
    ASSUME NEW o, NEW n \in Nat, NEW s, NEW marks, NEW f, NEW g,
           Drives(f, o, n, s, marks), Drives(g, o, n, s, marks)
    PROVE  f[n] = g[n]
<1> DEFINE S == {i \in 0 .. n : f[i] = g[i]}
<1>1. 0 \in S
  BY DEF Drives
<1>2. ASSUME NEW i \in 0 .. n - 1, i \in S PROVE i + 1 \in S
  <2> DEFINE j == i + 1
  <2>1. j \in 1 .. n /\ j - 1 = i /\ f[i] = g[i]
    BY <1>2
  <2> HIDE DEF j
  <2>2. f[j] = g[j]
    BY <2>1 DEF Drives
  <2>3. j \in S
    BY <2>1, <2>2
  <2>4. QED
    BY <2>3 DEF j
<1> HIDE DEF S
<1>3. 0 .. n \subseteq S
  BY <1>1, <1>2, BoundedInduction
<1>4. QED
  BY <1>3 DEF S

LEMMA DrivesOn ==
    ASSUME NEW o, NEW n \in Nat \ {0}, NEW s, NEW marks, NEW f, Drives(f, o, n - 1, s, marks)
    PROVE  \E g : /\ Drives(g, o, n, s, marks)
                  /\ g[n] = AfterByte(o, s[n], marks = << >> \/ marks[n] /= "key", f[n - 1])
<1> DEFINE w == AfterByte(o, s[n], marks = << >> \/ marks[n] /= "key", f[n - 1])
           g == [i \in 0 .. n |-> IF i = n THEN w ELSE f[i]]
<1> HIDE DEF w
<1>1. g[n] = w /\ \A i \in 0 .. n - 1 : g[i] = f[i]
  OBVIOUS
<1> HIDE DEF g
<1>2. g[0] = NoBytes
  BY <1>1 DEF Drives
<1>3. ASSUME NEW i \in 1 .. n
      PROVE  g[i] = AfterByte(o, s[i], marks = << >> \/ marks[i] /= "key", g[i - 1])
  <2>1. g[i - 1] = f[i - 1]
    BY <1>1
  <2>2. CASE i = n
    BY <1>1, <2>1, <2>2 DEF w
  <2>3. CASE i \in 1 .. n - 1
    BY <1>1, <2>1, <2>3 DEF Drives
  <2>4. QED
    BY <2>2, <2>3
<1>4. Drives(g, o, n, s, marks)
  BY <1>2, <1>3 DEF Drives
<1>5. QED
  BY <1>1, <1>4 DEF w

\* The model at hand and those of the points scored are where their orders take
\* them: nothing is left over from the model before.
DrivenInv ==
    /\ scoring => \E f : /\ Drives(f, Order, pos - 1, out, mark)
                         /\ f[pos - 1] = [ctx |-> ctx, table |-> table, ledger |-> ledger]
    /\ \A i \in DOMAIN points :
          \E f : /\ Drives(f, points[i].order, Len(out), out, mark)
                 /\ points[i].costs = f[Len(out)].ledger

LEMMA NextDriven ==
    GenType /\ BenchType /\ SettledInv /\ DrivenInv /\ [BenchNext]_<<genVars, benchVars>>
      => DrivenInv'
<1> SUFFICES ASSUME GenType, BenchType, SettledInv, DrivenInv,
                    [BenchNext]_<<genVars, benchVars>>
             PROVE  DrivenInv'
  OBVIOUS
<1>1. CASE UNCHANGED benchVars
  <2>1. CASE scoring = TRUE \/ points /= << >>
    <3>1. UNCHANGED genVars
      BY <2>1, Settles
    <3>2. Order' = Order
      BY <1>1 DEF benchVars, Order
    <3>3. QED
      BY <1>1, <3>1, <3>2 DEF genVars, benchVars, DrivenInv
  <2>2. CASE scoring = FALSE /\ points = << >>
    <3>1. scoring' = FALSE /\ DOMAIN points' = {}
      BY <1>1, <2>2 DEF benchVars
    <3>2. QED
      BY <3>1 DEF DrivenInv
  <2>3. QED
    BY <2>1, <2>2 DEF BenchType
<1>2. CASE NewModel /\ UNCHANGED genVars
  <2>1. /\ pos' = 1 /\ ctx' = 0 /\ table' = NoTable /\ ledger' = << >> /\ points' = points
        /\ out' = out /\ mark' = mark
    BY <1>2 DEF NewModel, NewTable, genVars
  <2>2. \E f : /\ Drives(f, Order', 0, out, mark)
               /\ f[0] = [ctx |-> 0, table |-> NoTable, ledger |-> << >>]
    <3> DEFINE f == [i \in {0} |-> NoBytes]
    <3>1. f[0] = NoBytes /\ 1 .. 0 = {}
      OBVIOUS
    <3> HIDE DEF f
    <3>2. Drives(f, Order', 0, out, mark)
      BY <3>1 DEF Drives
    <3>3. QED
      BY <3>1, <3>2 DEF NoBytes
  <2>3. 1 - 1 = 0
    OBVIOUS
  <2>4. QED
    BY <2>1, <2>2, <2>3 DEF DrivenInv
<1>3. CASE ScoreByte /\ UNCHANGED genVars
  <2>1. /\ scoring = TRUE /\ pos \in Nat \ {0} /\ pos' = pos + 1 /\ (pos + 1) - 1 = pos
        /\ points' = points /\ out' = out /\ mark' = mark /\ Order' = Order
        /\ table' = Observed(table, ctx, out[pos]) /\ ctx' = Shifted(ctx, out[pos])
        /\ ledger' = IF Scored(pos) THEN Append(ledger, Cost(Predicted, out[pos])) ELSE ledger
    BY <1>3 DEF ScoreByte, genVars, Order, BenchType
  <2> DEFINE counted == mark = << >> \/ mark[pos] /= "key"
             m == [ctx |-> ctx, table |-> table, ledger |-> ledger]
  <2>2. PICK f : Drives(f, Order, pos - 1, out, mark) /\ f[pos - 1] = m
    BY <2>1 DEF DrivenInv
  <2>3. PICK g : Drives(g, Order, pos, out, mark)
                   /\ g[pos] = AfterByte(Order, out[pos], counted, f[pos - 1])
    BY <2>1, <2>2, DrivesOn
  <2>4. AfterByte(Order, out[pos], counted, m)
           = [ctx |-> ctx', table |-> table', ledger |-> ledger']
    <3>1. m.ctx = ctx /\ m.table = table /\ m.ledger = ledger
      OBVIOUS
    <3>2. ctx' = (((ctx * Base) % Word) + out[pos]) % Power[Order]
      BY <2>1 DEF Shifted
    <3>3. ledger' = IF counted THEN Append(ledger, Cost(Predict(table, ctx), out[pos])) ELSE ledger
      BY <2>1 DEF Scored, Predicted
    <3> HIDE DEF counted, m
    <3>4. QED
      BY <2>1, <3>1, <3>2, <3>3 DEF AfterByte
  <2> HIDE DEF counted, m
  <2>5. Drives(g, Order', pos' - 1, out', mark')
          /\ g[pos' - 1] = [ctx |-> ctx', table |-> table', ledger |-> ledger']
    BY <2>1, <2>2, <2>3, <2>4
  <2>6. QED
    BY <2>1, <2>5 DEF DrivenInv
<1>4. CASE PushPoint /\ UNCHANGED genVars
  <2> DEFINE p == [order |-> Order, costs |-> ledger]
             n == Len(points)
  <2>1. /\ scoring = TRUE /\ scoring' = FALSE /\ points' = Append(points, p)
        /\ out' = out /\ mark' = mark
        /\ pos - 1 = Len(out)
    BY <1>4 DEF PushPoint, SettledInv, BenchType, GenType, genVars
  <2>2. PICK f : Drives(f, Order, Len(out), out, mark)
                   /\ f[Len(out)] = [ctx |-> ctx, table |-> table, ledger |-> ledger]
    BY <2>1 DEF DrivenInv
  <2>3. Drives(f, p.order, Len(out), out, mark) /\ p.costs = f[Len(out)].ledger
    BY <2>2
  <2>4. /\ n \in Nat /\ DOMAIN points = 1 .. n /\ DOMAIN points' = 1 .. n + 1
        /\ points'[n + 1] = p /\ \A i \in 1 .. n : points'[i] = points[i]
    BY <2>1 DEF BenchType
  <2> HIDE DEF p, n
  <2>5. ASSUME NEW i \in DOMAIN points'
        PROVE  \E h : /\ Drives(h, points'[i].order, Len(out), out, mark)
                      /\ points'[i].costs = h[Len(out)].ledger
    <3>1. CASE i = n + 1
      BY <2>3, <2>4, <3>1
    <3>2. CASE i \in 1 .. n
      BY <2>4, <3>2 DEF DrivenInv
    <3>3. QED
      BY <2>4, <3>1, <3>2
  <2>6. QED
    BY <2>1, <2>5 DEF DrivenInv
<1>5. QED
  BY <1>1, <1>2, <1>3, <1>4 DEF BenchNext

\* A point of a sweep depends on its order only, and not on its place in the
\* list: for every list of orders, corpus and number of counts.
THEOREM SweepIsFairAlways == BenchSpec => []SweepIsFair
<1>1. GenType /\ BenchType /\ DrivenInv => SweepIsFair
  <2> SUFFICES ASSUME GenType, BenchType, DrivenInv, NEW i \in DOMAIN points,
                      NEW j \in DOMAIN points, points[i].order = points[j].order
               PROVE  points[i] = points[j]
    BY DEF SweepIsFair
  <2>1. PICK f : /\ Drives(f, points[i].order, Len(out), out, mark)
                 /\ points[i].costs = f[Len(out)].ledger
    BY DEF DrivenInv
  <2>2. PICK g : /\ Drives(g, points[j].order, Len(out), out, mark)
                 /\ points[j].costs = g[Len(out)].ledger
    BY DEF DrivenInv
  <2>3. f[Len(out)] = g[Len(out)]
    <3> DEFINE o == points[i].order
               n == Len(out)
    <3>1. n \in Nat /\ Drives(f, o, n, out, mark) /\ Drives(g, o, n, out, mark)
      BY <2>1, <2>2 DEF GenType
    <3> HIDE DEF o, n
    <3>2. f[n] = g[n]
      BY <3>1, DrivesAlike
    <3>3. QED
      BY <3>2 DEF n
  <2>4. points[i].costs = points[j].costs
    BY <2>1, <2>2, <2>3
  <2> DEFINE S == [order : 0 .. MaxOrder, costs : Seq(Costs)]
  <2>5. \A p, q \in S : p.order = q.order /\ p.costs = q.costs => p = q
    OBVIOUS
  <2>6. points \in Seq(S)
    BY DEF BenchType
  <2> HIDE DEF S
  <2>7. points[i] \in S /\ points[j] \in S
    BY <2>6
  <2>8. QED
    BY <2>4, <2>5, <2>7
<1>2. BenchInit => DrivenInv
  <2> SUFFICES ASSUME BenchInit PROVE DrivenInv
    OBVIOUS
  <2>1. scoring = FALSE /\ points = << >>
    BY DEF BenchInit
  <2>2. DOMAIN points = {}
    BY <2>1
  <2>3. QED
    BY <2>1, <2>2 DEF DrivenInv
<1>3. QED
  BY <1>1, <1>2, NextDriven, BenchAlways, PTL DEF BenchSpec

-------------------------------------------------------------------------------
(* Counts, packed contexts and n-grams *)

\* Powers multiply step by step.
LEMMA PowerIs ==
    /\ Power[0] = 1
    /\ \A n \in 1 .. MaxOrder : Power[n] = Power[n - 1] * Base
    /\ \A n \in 0 .. MaxOrder : Power[n] \in Nat
<1> DEFINE N == MaxOrder
           Rec(f) == f = [n \in 0 .. N |-> IF n = 0 THEN 1 ELSE f[n - 1] * Base]
           G == [t \in (1 .. N) \X Nat |-> t[2] * Base]
<1>1. N \in Nat /\ Base \in Nat
  BY ModelSizes, BytesHoldBits
<1>2. G \in [(1 .. N) \X Nat -> Nat] /\ 1 \in Nat
  BY <1>1
<1>3. PICK f : Unfolds(f, N, Nat, 1, G)
  BY <1>1, <1>2, RecursionExists
<1>4. /\ f \in [0 .. N -> Nat] /\ f[0] = 1
      /\ \A i \in 1 .. N : f[i] = f[i - 1] * Base
  <2>1. \A i \in 1 .. N : f[i - 1] \in Nat /\ G[<<i, f[i - 1]>>] = f[i - 1] * Base
    BY <1>1, <1>3 DEF Unfolds
  <2>2. QED
    BY <1>3, <2>1 DEF Unfolds
<1>5. Rec(f)
  BY <1>1, <1>4
<1>6. Rec(Power)
  <2>1. Power = CHOOSE g : Rec(g)
    BY DEF Power
  <2> HIDE DEF Rec
  <2>2. QED
    BY <1>5, <2>1
<1>7. Power[0] = 1 /\ \A n \in 1 .. N : Power[n] = Power[n - 1] * Base
  BY <1>1, <1>6
<1>8. \A n \in 0 .. N : Power[n] \in Nat
  <2> DEFINE S == {n \in 0 .. N : Power[n] \in Nat}
  <2>1. 0 \in S
    BY <1>1, <1>7
  <2>2. \A n \in 0 .. N - 1 : n \in S => n + 1 \in S
    <3>1. \A n \in 0 .. N - 1 : n + 1 \in 1 .. N /\ (n + 1) - 1 = n
      BY <1>1
    <3>2. \A n \in 0 .. N - 1 : Power[n + 1] = Power[n] * Base
      BY <1>7, <3>1
    <3>3. QED
      BY <1>1, <3>1, <3>2
  <2> HIDE DEF S
  <2>3. 0 .. N \subseteq S
    BY <1>1, <2>1, <2>2, BoundedInduction
  <2>4. QED
    BY <2>3 DEF S
<1>9. QED
  BY <1>7, <1>8

Sums(f, w) ==
    /\ f[0] = 0 /\ DOMAIN f = 0 .. Base
    /\ \A b \in 1 .. Base : f[b] = f[b - 1] + w[b - 1]

LEMMA TotalIs ==
    ASSUME NEW w \in [Bytes -> Nat]
    PROVE  \E f : Total(w) = f[Base] /\ Sums(f, w)
<1> DEFINE Rec(f) == f = [b \in 0 .. Base |-> IF b = 0 THEN 0 ELSE f[b - 1] + w[b - 1]]
           G == [t \in (1 .. Base) \X Nat |-> t[2] + w[t[1] - 1]]
<1>1. Base \in Nat
  BY BytesHoldBits
<1>2. G \in [(1 .. Base) \X Nat -> Nat] /\ 0 \in Nat
  <2>1. \A t \in (1 .. Base) \X Nat : t[2] + w[t[1] - 1] \in Nat
    <3>1. TAKE t \in (1 .. Base) \X Nat
    <3>2. t[2] \in Nat /\ t[1] - 1 \in Bytes
      BY <1>1 DEF Bytes
    <3>3. w[t[1] - 1] \in Nat
      BY <3>2
    <3>4. QED
      BY <3>2, <3>3
  <2>2. QED
    BY <2>1
<1>3. PICK f : Unfolds(f, Base, Nat, 0, G)
  BY <1>1, <1>2, RecursionExists
<1>4. /\ f \in [0 .. Base -> Nat] /\ f[0] = 0
      /\ \A i \in 1 .. Base : f[i] = f[i - 1] + w[i - 1]
  <2>1. \A i \in 1 .. Base : f[i - 1] \in Nat /\ G[<<i, f[i - 1]>>] = f[i - 1] + w[i - 1]
    BY <1>1, <1>3 DEF Unfolds
  <2>2. QED
    BY <1>3, <2>1 DEF Unfolds
<1>5. Rec(f)
  BY <1>1, <1>4
<1>6. PICK g : Rec(g) /\ Total(w) = g[Base]
  <2> DEFINE g == CHOOSE g : Rec(g)
  <2>1. Total(w) = g[Base]
    BY DEF Total
  <2>2. Rec(g)
    <3> HIDE DEF Rec
    <3>1. QED
      BY <1>5
  <2> HIDE DEF Rec, g
  <2>3. QED
    BY <2>1, <2>2
<1>7. Sums(g, w)
  BY <1>1, <1>6 DEF Sums
<1>8. QED
  BY <1>6, <1>7

\* The sum of the counts of a set of bytes, one added for every value of a byte.
LEMMA TotalCounts ==
    ASSUME NEW A, IsFiniteSet(A), NEW s, \A j \in A : s[j] \in Bytes,
           NEW w \in [Bytes -> Nat],
           \A b \in Bytes : w[b] = Cardinality({j \in A : s[j] = b}) + 1
    PROVE  Total(w) = Cardinality(A) + Base
<1> DEFINE Under(b) == {j \in A : s[j] < b}
           S(f) == {b \in 0 .. Base : f[b] = Cardinality(Under(b)) + b}
<1>1. Base \in Nat
  BY BytesHoldBits
<1>2. PICK f : Total(w) = f[Base] /\ Sums(f, w)
  BY TotalIs
<1>3. 0 \in S(f)
  <2>1. Under(0) = {}
    BY <1>1 DEF Bytes
  <2>2. Cardinality({}) = 0
    BY FS_EmptySet
  <2> HIDE DEF Under
  <2>3. QED
    BY <1>1, <1>2, <2>1, <2>2 DEF Sums
<1>4. ASSUME NEW b \in 0 .. Base - 1, b \in S(f) PROVE b + 1 \in S(f)
  <2> DEFINE U == Under(b)
             E == {j \in A : s[j] = b}
  <2>1. b \in Bytes /\ b + 1 \in 1 .. Base /\ (b + 1) - 1 = b /\ b \in Nat
    BY <1>1 DEF Bytes
  <2>2. Under(b + 1) = U \cup E /\ U \cap E = {}
    BY <1>1 DEF Bytes
  <2>3. IsFiniteSet(U) /\ IsFiniteSet(E)
    BY FS_Subset
  <2> HIDE DEF U, E
  <2>4. Cardinality(U \cup E) = Cardinality(U) + Cardinality(E) - Cardinality(U \cap E)
    BY <2>3, FS_Union
  <2>5. Cardinality(U) \in Nat /\ Cardinality(E) \in Nat /\ Cardinality({}) = 0
    BY <2>3, FS_CardinalityType, FS_EmptySet
  <2>6. Cardinality(Under(b + 1)) = Cardinality(U) + Cardinality(E)
    <3>1. Cardinality(U \cap E) = 0
      BY <2>2, <2>5
    <3>2. Cardinality(Under(b + 1)) = Cardinality(U \cup E)
      BY <2>2
    <3> HIDE DEF Under
    <3>3. QED
      BY <2>4, <2>5, <3>1, <3>2
  <2>7. f[b + 1] = f[b] + w[b] /\ w[b] = Cardinality(E) + 1
    BY <1>2, <2>1 DEF Sums, E
  <2>8. f[b] = Cardinality(U) + b
    BY <1>4 DEF U
  <2> HIDE DEF Under
  <2>9. f[b + 1] = Cardinality(Under(b + 1)) + (b + 1)
    BY <2>1, <2>5, <2>6, <2>7, <2>8
  <2>10. QED
    BY <1>1, <2>1, <2>9
<1>5. 0 .. Base \subseteq S(f)
  <2> HIDE DEF S
  <2>1. QED
    BY <1>1, <1>3, <1>4, BoundedInduction
<1>6. Under(Base) = A
  BY <1>1 DEF Bytes
<1> HIDE DEF Under
<1>7. f[Base] = Cardinality(Under(Base)) + Base
  BY <1>1, <1>5
<1>8. QED
  BY <1>2, <1>6, <1>7

LEMMA PowerIsPositive == Base \in Nat \ {0} /\ \A n \in 0 .. MaxOrder : Power[n] \in Nat \ {0}
<1> DEFINE S == {n \in 0 .. MaxOrder : Power[n] \in Nat \ {0}}
<1>1. Base \in Nat \ {0}
  BY BytesHoldBits DEF Bits, Bytes
<1>2. MaxOrder \in Nat
  BY ModelSizes
<1>3. 0 \in S
  BY <1>2, PowerIs
<1>4. \A n \in 0 .. MaxOrder - 1 : n \in S => n + 1 \in S
  <2> TAKE n \in 0 .. MaxOrder - 1
  <2> HAVE n \in S
  <2>1. n + 1 \in 1 .. MaxOrder /\ (n + 1) - 1 = n /\ Power[n] \in Nat \ {0}
    BY <1>2
  <2>2. Power[n + 1] = Power[n] * Base
    BY <2>1, PowerIs
  <2>3. Power[n] * Base \in Nat \ {0}
    BY <1>1, <2>1
  <2>4. QED
    BY <2>1, <2>2, <2>3
<1> HIDE DEF S
<1>5. 0 .. MaxOrder \subseteq S
  BY <1>2, <1>3, <1>4, BoundedInduction
<1>6. QED
  BY <1>1, <1>5 DEF S

LEMMA PowerDivides ==
    ASSUME NEW n \in 0 .. MaxOrder
    PROVE  \A k \in n .. MaxOrder : \E e \in Nat \ {0} : Power[k] = e * Power[n]
<1> DEFINE D == MaxOrder - n
           S == {i \in 0 .. D : \E e \in Nat \ {0} : Power[n + i] = e * Power[n]}
<1>1. MaxOrder \in Nat /\ D \in Nat
  BY ModelSizes
<1>2. 0 \in S
  <2>1. n + 0 = n /\ Power[n] = 1 * Power[n] /\ 1 \in Nat \ {0}
    BY <1>1, PowerIsPositive
  <2>2. \E e \in Nat \ {0} : Power[n + 0] = e * Power[n]
    BY <2>1
  <2>3. QED
    BY <1>1, <2>2
<1>3. ASSUME NEW i \in 0 .. D - 1, i \in S PROVE i + 1 \in S
  <2>1. PICK e \in Nat \ {0} : Power[n + i] = e * Power[n]
    BY <1>3
  <2>2. n + (i + 1) \in 1 .. MaxOrder /\ (n + (i + 1)) - 1 = n + i /\ i + 1 \in 0 .. D
    BY <1>1
  <2>3. Power[n + (i + 1)] = Power[n + i] * Base
    BY <2>2, PowerIs
  <2>4. (e * Power[n]) * Base = (e * Base) * Power[n] /\ e * Base \in Nat \ {0}
    <3> DEFINE P == Power[n]
    <3>1. P \in Nat /\ Base \in Nat \ {0}
      BY PowerIsPositive
    <3> HIDE DEF P
    <3>2. (e * P) * Base = (e * Base) * P /\ e * Base \in Nat \ {0}
      BY <3>1
    <3>3. QED
      BY <3>2 DEF P
  <2>5. \E c \in Nat \ {0} : Power[n + (i + 1)] = c * Power[n]
    BY <2>1, <2>3, <2>4
  <2>6. QED
    BY <2>2, <2>5
<1> HIDE DEF S
<1>4. 0 .. D \subseteq S
  BY <1>1, <1>2, <1>3, BoundedInduction
<1>5. ASSUME NEW k \in n .. MaxOrder PROVE \E e \in Nat \ {0} : Power[k] = e * Power[n]
  <2>1. k - n \in 0 .. D /\ n + (k - n) = k
    BY <1>1
  <2>2. k - n \in S
    BY <1>4, <2>1
  <2>3. QED
    BY <2>1, <2>2 DEF S
<1>6. QED
  BY <1>5

ShiftedBy(o, c, b) == (((c * Base) % Word) + b) % Power[o]

\* The last n + 1 bytes of a context are the last n of the one before and the new.
LEMMA LastBytes ==
    ASSUME NEW o \in 0 .. MaxOrder, NEW n \in 0 .. o - 1, NEW c \in Nat, NEW b \in Bytes
    PROVE  /\ ShiftedBy(o, c, b) \in 0 .. Power[o] - 1
           /\ ShiftedBy(o, c, b) % Power[n + 1] = ((c % Power[n]) * Base) + b
<1> DEFINE P == Power[n]
           R == Power[n + 1]
           M == Power[o]
           x == (c * Base) % Word
           q == c \div P
           r == c % P
<1>1. MaxOrder \in Nat /\ n + 1 \in 0 .. MaxOrder /\ n \in 0 .. MaxOrder /\ n + 1 \in 1 .. MaxOrder
      /\ o \in n + 1 .. MaxOrder /\ MaxOrder \in n + 1 .. MaxOrder /\ (n + 1) - 1 = n
      /\ MaxOrder \in 0 .. MaxOrder
  BY ModelSizes
<1>2. /\ P \in Nat \ {0} /\ R \in Nat \ {0} /\ M \in Nat \ {0} /\ Word \in Nat \ {0}
      /\ Base \in Nat \ {0} /\ R = P * Base
  BY <1>1, PowerIsPositive, PowerIs DEF Word
<1>3. PICK d \in Nat \ {0} : M = d * R
  BY <1>1, PowerDivides
<1>4. PICK e \in Nat \ {0} : Word = e * R
  BY <1>1, PowerDivides DEF Word
<1>5. b \in 0 .. Base - 1
  BY DEF Bytes
<1>6. q \in Nat /\ r \in 0 .. P - 1 /\ c = (q * P) + r
  <2> HIDE DEF P
  <2>1. QED
    BY <1>2, QuotientFits
<1> HIDE DEF P, R, M, q, r
<1>7. c * Base = (q * R) + (r * Base) /\ r * Base + b \in 0 .. R - 1 /\ r * Base \in 0 .. R - 1
  <2>1. ((q * P) + r) * Base = (q * (P * Base)) + (r * Base)
    BY <1>2, <1>6
  <2>2. r * Base + Base <= P * Base
    <3>1. (r + 1) * Base <= P * Base /\ (r + 1) * Base = r * Base + Base
      BY <1>2, <1>6, RowsGrow
    <3>2. QED
      BY <3>1
  <2>3. r * Base \in Nat /\ P * Base \in Nat
    BY <1>2, <1>6
  <2>4. QED
    BY <1>2, <1>5, <1>6, <2>1, <2>2, <2>3
<1>8. x \in Nat /\ x % R = r * Base
  <2> DEFINE y == c * Base
             t == r * Base
  <2>1. y \in Nat
    BY <1>2
  <2>2. y = (q * R) + t /\ t \in 0 .. R - 1
    BY <1>7
  <2> HIDE DEF y, t
  <2>3. y % R = t
    BY <1>2, <1>6, <2>1, <2>2, QuotientIs
  <2>4. (y % Word) % R = y % R
    <3>1. (y % (e * R)) % R = y % R
      BY <1>2, <2>1, RowsOfRows
    <3>2. QED
      BY <1>4, <3>1
  <2>5. y % Word \in Nat
    BY <1>2, <2>1
  <2>6. QED
    BY <2>3, <2>4, <2>5 DEF y, t
<1> HIDE DEF x
<1> DEFINE z == x + b
           t == r * Base + b
<1>9. z \in Nat /\ z % R = t
  <2> DEFINE p == x \div R
  <2>1. p \in Nat /\ x = (p * R) + (r * Base)
    <3>1. x \div R \in Nat /\ x = ((x \div R) * R) + (x % R)
      BY <1>2, <1>8, QuotientFits
    <3>2. QED
      BY <1>8, <3>1
  <2> HIDE DEF p
  <2>2. z = (p * R) + t /\ z \in Nat /\ t \in 0 .. R - 1
    <3>1. p * R \in Nat /\ r * Base \in Nat
      BY <1>2, <1>7, <2>1
    <3>2. QED
      BY <1>5, <1>7, <1>8, <2>1, <3>1
  <2> HIDE DEF z, t
  <2>3. QED
    BY <1>2, <2>1, <2>2, QuotientIs
<1> HIDE DEF z, t
<1>10. (z % M) % R = t /\ z % M \in 0 .. M - 1
  <2>1. (z % (d * R)) % R = z % R
    BY <1>2, <1>9, RowsOfRows
  <2>2. z % M \in 0 .. M - 1
    BY <1>2, <1>9
  <2>3. QED
    BY <1>3, <1>9, <2>1, <2>2
<1>11. QED
  BY <1>10 DEF ShiftedBy, z, t, x, M, R, r, P

LEMMA ShiftFits ==
    ASSUME NEW o \in 0 .. MaxOrder, NEW c \in Nat, NEW b \in Bytes
    PROVE  ShiftedBy(o, c, b) \in 0 .. Power[o] - 1
<1> DEFINE M == Power[o]
           x == (c * Base) % Word
<1>1. M \in Nat \ {0} /\ Word \in Nat \ {0} /\ Base \in Nat
  BY ModelSizes, PowerIsPositive DEF Word
<1>2. b \in Nat
  BY <1>1 DEF Bytes
<1>3. x \in Nat
  <2> DEFINE y == c * Base
  <2>1. y \in Nat
    BY <1>1
  <2> HIDE DEF y
  <2>2. QED
    BY <1>1, <2>1
<1> HIDE DEF x, M
<1>4. (x + b) % M \in 0 .. M - 1
  BY <1>1, <1>2, <1>3
<1>5. QED
  BY <1>4 DEF ShiftedBy, x, M

\* The contexts of a model of order o over the first n bytes of s, and the byte
\* at a position, where zeros come before the first.
Contexts(h, o, n, s) == h[0] = 0 /\ \A i \in 1 .. n : h[i] = ShiftedBy(o, h[i - 1], s[i])
At(s, i) == IF i > 0 THEN s[i] ELSE 0

LEMMA ContextsFit ==
    ASSUME NEW o \in 0 .. MaxOrder, NEW s \in Seq(Bytes), NEW n \in 0 .. Len(s), NEW h,
           Contexts(h, o, n, s)
    PROVE  \A i \in 0 .. n : h[i] \in 0 .. Power[o] - 1
<1> DEFINE S == {i \in 0 .. n : h[i] \in 0 .. Power[o] - 1}
<1>1. n \in Nat /\ Power[o] \in Nat \ {0}
  BY ModelSizes, PowerIsPositive
<1>2. 0 \in S
  BY <1>1 DEF Contexts
<1>3. ASSUME NEW i \in 0 .. n - 1, i \in S PROVE i + 1 \in S
  <2> DEFINE j == i + 1
  <2>1. j \in 1 .. n /\ j - 1 = i /\ h[i] \in Nat /\ s[j] \in Bytes
    BY <1>1, <1>3
  <2> HIDE DEF j
  <2>2. h[j] = ShiftedBy(o, h[i], s[j])
    BY <2>1 DEF Contexts
  <2>3. ShiftedBy(o, h[i], s[j]) \in 0 .. Power[o] - 1
    BY <2>1, ShiftFits
  <2>4. j \in S
    BY <2>1, <2>2, <2>3
  <2>5. QED
    BY <2>4 DEF j
<1> HIDE DEF S
<1>4. 0 .. n \subseteq S
  BY <1>1, <1>2, <1>3, BoundedInduction
<1>5. QED
  BY <1>4 DEF S

LEMMA ContextSplits ==
    ASSUME NEW o \in 0 .. MaxOrder, NEW s \in Seq(Bytes), NEW n \in 0 .. Len(s), NEW h,
           Contexts(h, o, n, s), NEW k \in 0 .. o - 1, NEW i \in 0 .. n
    PROVE  h[i] % Power[k + 1] = ((h[IF i > 0 THEN i - 1 ELSE 0] % Power[k]) * Base) + At(s, i)
<1>1. /\ MaxOrder \in Nat /\ k \in 0 .. MaxOrder /\ k + 1 \in 0 .. MaxOrder
      /\ n \in Nat /\ Base \in Nat
  BY ModelSizes, BytesHoldBits
<1>2. Power[k] \in Nat \ {0} /\ Power[k + 1] \in Nat \ {0}
  BY <1>1, PowerIsPositive
<1>3. CASE i = 0
  <2>1. h[0] = 0 /\ At(s, i) = 0
    BY <1>3 DEF Contexts, At
  <2>2. \A B \in Nat \ {0} : 0 % B = 0
    OBVIOUS
  <2>3. 0 % Power[k] = 0 /\ 0 % Power[k + 1] = 0
    BY <1>2, <2>2
  <2>4. QED
    BY <1>1, <1>3, <2>1, <2>3
<1>4. CASE i \in 1 .. n
  <2>1. i - 1 \in 0 .. n /\ s[i] \in Bytes /\ At(s, i) = s[i]
    BY <1>1, <1>4 DEF At
  <2>2. h[i - 1] \in Nat
    <3>1. h[i - 1] \in 0 .. Power[o] - 1
      BY <2>1, ContextsFit
    <3>2. QED
      BY <3>1
  <2>3. h[i] = ShiftedBy(o, h[i - 1], s[i])
    BY <1>4 DEF Contexts
  <2> DEFINE c == h[i - 1]
             b == s[i]
  <2> HIDE DEF c, b
  <2>4. ShiftedBy(o, c, b) % Power[k + 1] = ((c % Power[k]) * Base) + b
    BY <2>1, <2>2, LastBytes DEF c, b
  <2>5. QED
    BY <1>4, <2>1, <2>3, <2>4 DEF c, b
<1>5. QED
  BY <1>1, <1>3, <1>4

\* A packed context is the window: equal numbers are equal bytes.
TellsWindows(h, o, n, s) == \A i, j \in 0 .. n :
    h[i] = h[j] <=> \A d \in 0 .. o - 1 : At(s, i - d) = At(s, j - d)

LEMMA ContextIsWindow ==
    ASSUME NEW o \in 0 .. MaxOrder, NEW s \in Seq(Bytes), NEW n \in 0 .. Len(s), NEW h,
           Contexts(h, o, n, s)
    PROVE  TellsWindows(h, o, n, s)
<1> DEFINE Same(k, i, j) == \A d \in 0 .. k - 1 : At(s, i - d) = At(s, j - d)
           S == {k \in 0 .. o : \A i, j \in 0 .. n :
                    h[i] % Power[k] = h[j] % Power[k] <=> Same(k, i, j)}
           Before(i) == IF i > 0 THEN i - 1 ELSE 0
<1>1. /\ o \in Nat /\ MaxOrder \in Nat /\ n \in Nat /\ Base \in Nat \ {0}
      /\ \A i \in 0 .. n : h[i] \in Nat /\ h[i] < Power[o]
  <2>1. o \in Nat /\ MaxOrder \in Nat /\ n \in Nat /\ Base \in Nat \ {0} /\ Power[o] \in Nat
    BY ModelSizes, PowerIsPositive
  <2>2. \A i \in 0 .. n : h[i] \in 0 .. Power[o] - 1
    BY ContextsFit
  <2>3. QED
    BY <2>1, <2>2
<1>2. 0 \in S
  <2>1. Power[0] = 1 /\ \A x \in Nat : x % 1 = 0
    BY PowerIs
  <2>2. \A i, j \in 0 .. n : h[i] % Power[0] = h[j] % Power[0]
    BY <1>1, <2>1
  <2>3. \A i, j : Same(0, i, j)
    OBVIOUS
  <2>4. QED
    BY <1>1, <2>2, <2>3
<1>3. ASSUME NEW k \in 0 .. o - 1, k \in S PROVE k + 1 \in S
  <2> SUFFICES ASSUME NEW i \in 0 .. n, NEW j \in 0 .. n
               PROVE  h[i] % Power[k + 1] = h[j] % Power[k + 1] <=> Same(k + 1, i, j)
    BY <1>1
  <2> DEFINE u == h[Before(i)] % Power[k]
             v == h[Before(j)] % Power[k]
             a == At(s, i)
             b == At(s, j)
  <2>1. Before(i) \in 0 .. n /\ Before(j) \in 0 .. n
    BY <1>1
  <2>2. h[i] % Power[k + 1] = (u * Base) + a /\ h[j] % Power[k + 1] = (v * Base) + b
    BY ContextSplits
  <2>3. u \in Nat /\ v \in Nat
    <3>1. \A x \in Nat : x % Power[k] \in Nat
      BY <1>1, PowerIsPositive
    <3>2. QED
      BY <1>1, <2>1, <3>1
  <2>4. a \in 0 .. Base - 1 /\ b \in 0 .. Base - 1
    BY <1>1 DEF At, Bytes
  <2>5. u = v <=> Same(k, Before(i), Before(j))
    <3>1. \A x, y \in 0 .. n : h[x] % Power[k] = h[y] % Power[k] <=> Same(k, x, y)
      BY <1>3
    <3> HIDE DEF Same, Before, S
    <3>2. QED
      BY <2>1, <3>1
  <2> HIDE DEF u, v, a, b
  <2>6. (u * Base) + a = (v * Base) + b <=> u = v /\ a = b
    <3> SUFFICES ASSUME (u * Base) + a = (v * Base) + b PROVE u = v /\ a = b
      OBVIOUS
    <3> DEFINE x == (u * Base) + a
    <3>1. x = u * Base + a /\ x = v * Base + b /\ x \in Nat
      BY <1>1, <2>3, <2>4
    <3> HIDE DEF x
    <3>2. \A q \in Nat : \A r \in 0 .. Base - 1 :
             x = q * Base + r => x \div Base = q /\ x % Base = r
      BY <1>1, <3>1, QuotientIs
    <3>3. x \div Base = u /\ x % Base = a
      BY <2>3, <2>4, <3>1, <3>2
    <3>4. x \div Base = v /\ x % Base = b
      BY <2>3, <2>4, <3>1, <3>2
    <3>5. QED
      BY <3>3, <3>4
  <2>7. \A y \in 0 .. n : \A d \in 0 .. k - 1 : At(s, Before(y) - d) = At(s, y - (d + 1))
    BY <1>1 DEF At
  <2>8. Same(k + 1, i, j) <=> a = b /\ \A d \in 0 .. k - 1 : At(s, i - (d + 1)) = At(s, j - (d + 1))
    <3>1. k \in Nat /\ (k + 1) - 1 = k
      BY <1>1
    <3>2. ASSUME Same(k + 1, i, j)
          PROVE  a = b /\ \A d \in 0 .. k - 1 : At(s, i - (d + 1)) = At(s, j - (d + 1))
      <4>1. i - 0 = i /\ j - 0 = j /\ 0 \in 0 .. k
        BY <1>1, <3>1
      <4>2. At(s, i - 0) = At(s, j - 0)
        BY <3>1, <3>2, <4>1
      <4>3. \A d \in 0 .. k - 1 : d + 1 \in 0 .. k
        BY <3>1
      <4>4. \A d \in 0 .. k - 1 : At(s, i - (d + 1)) = At(s, j - (d + 1))
        BY <3>1, <3>2, <4>3
      <4>5. QED
        BY <4>1, <4>2, <4>4 DEF a, b
    <3>3. ASSUME a = b, \A d \in 0 .. k - 1 : At(s, i - (d + 1)) = At(s, j - (d + 1)),
                 NEW d \in 0 .. (k + 1) - 1
          PROVE  At(s, i - d) = At(s, j - d)
      <4>1. CASE d = 0
        <5>1. i - d = i /\ j - d = j
          BY <1>1, <4>1
        <5>2. QED
          BY <3>3, <5>1 DEF a, b
      <4>2. CASE d /= 0
        <5>1. d - 1 \in 0 .. k - 1 /\ (d - 1) + 1 = d
          BY <3>1, <4>2
        <5>2. QED
          BY <3>3, <5>1
      <4>3. QED
        BY <4>1, <4>2
    <3>4. QED
      BY <3>2, <3>3
  <2>9. Same(k, Before(i), Before(j))
          <=> \A d \in 0 .. k - 1 : At(s, i - (d + 1)) = At(s, j - (d + 1))
    <3> HIDE DEF Before
    <3>1. QED
      BY <2>7
  <2> HIDE DEF Same, Before
  <2>10. QED
    BY <2>2, <2>5, <2>6, <2>8, <2>9
<1> HIDE DEF S
<1>4. o \in S
  <2>1. 0 .. o \subseteq S
    BY <1>1, <1>2, <1>3, BoundedInduction
  <2>2. QED
    BY <1>1, <2>1
<1>5. \A i \in 0 .. n : h[i] % Power[o] = h[i]
  <2>1. \A B \in Nat \ {0} : \A x \in Nat : x < B => x % B = x
    OBVIOUS
  <2>2. Power[o] \in Nat \ {0}
    BY PowerIsPositive
  <2>3. QED
    BY <1>1, <2>1, <2>2
<1>6. QED
  BY <1>4, <1>5 DEF S, TellsWindows

LEMMA WindowIs ==
    ASSUME NEW o \in Nat, NEW i \in Nat, NEW j \in Nat
    PROVE  Window(i + 1, o) = Window(j + 1, o)
             <=> \A d \in 0 .. o - 1 : At(out, i - d) = At(out, j - d)
<1> DEFINE D == 1 .. o
<1>1. ASSUME NEW n \in Nat
      PROVE  Window(n + 1, o) = [m \in D |-> At(out, n - (o - m))]
  <2>1. ASSUME NEW m \in D
        PROVE  (IF (n + 1) - o - 1 + m > 0 THEN out[(n + 1) - o - 1 + m] ELSE 0) = At(out, n - (o - m))
    <3>1. (n + 1) - o - 1 + m = n - (o - m)
      OBVIOUS
    <3>2. QED
      BY <3>1 DEF At
  <2>2. QED
    BY <2>1 DEF Window
<1>2. ASSUME NEW d \in 0 .. o - 1 PROVE o - d \in D /\ o - (o - d) = d
  OBVIOUS
<1>3. ASSUME NEW m \in D PROVE o - m \in 0 .. o - 1
  OBVIOUS
<1> DEFINE a(n) == [m \in D |-> At(out, n - (o - m))]
<1>4. ASSUME a(i) = a(j), NEW d \in 0 .. o - 1 PROVE At(out, i - d) = At(out, j - d)
  <2>1. a(i)[o - d] = a(j)[o - d]
    BY <1>4
  <2>2. a(i)[o - d] = At(out, i - (o - (o - d))) /\ a(j)[o - d] = At(out, j - (o - (o - d)))
    BY <1>2
  <2>3. QED
    BY <1>2, <2>1, <2>2
<1>5. ASSUME \A d \in 0 .. o - 1 : At(out, i - d) = At(out, j - d) PROVE a(i) = a(j)
  BY <1>3, <1>5
<1>6. QED
  BY <1>1, <1>4, <1>5

\* Where among the first n bytes of s byte b follows context c.
Met(h, n, s, c, b) == {j \in 1 .. n : h[j - 1] = c /\ s[j] = b}

\* The context is that of the bytes read, and the table counts what followed it.
CountInv == scoring => \E h :
    /\ Contexts(h, Order, pos - 1, out) /\ ctx = h[pos - 1]
    /\ \A c : \A b \in Bytes :
          CountsOf(table, c)[b] = Cardinality(Met(h, pos - 1, out, c, b)) % CountLimit

LEMMA OrderIs ==
    ASSUME BenchType, SettledInv, scoring = TRUE
    PROVE  Order \in 0 .. MaxOrder
<1>1. Head(knobs) \in Int
  BY DEF BenchType, SettledInv
<1>2. QED
  BY <1>1, ModelSizes DEF Order, Clamped

LEMMA MetIsFinite ==
    ASSUME NEW h, NEW n \in Nat, NEW s, NEW c, NEW b
    PROVE  IsFiniteSet(Met(h, n, s, c, b)) /\ Cardinality(Met(h, n, s, c, b)) \in 0 .. n
<1>1. IsFiniteSet(1 .. n) /\ Cardinality(1 .. n) = n
  BY FS_Interval
<1>2. Met(h, n, s, c, b) \subseteq 1 .. n
  BY DEF Met
<1>3. IsFiniteSet(Met(h, n, s, c, b)) /\ Cardinality(Met(h, n, s, c, b)) <= n
  BY <1>1, <1>2, FS_Subset
<1>4. Cardinality(Met(h, n, s, c, b)) \in Nat
  BY <1>3, FS_CardinalityType
<1>5. QED
  BY <1>3, <1>4

LEMMA CountByte ==
    ASSUME BenchType, NEW b \in Bytes, NEW c, NEW d \in Bytes
    PROVE  CountsOf(Observed(table, ctx, b), c)[d]
             = IF c = ctx /\ d = b THEN (CountsOf(table, c)[d] + 1) % CountLimit
               ELSE CountsOf(table, c)[d]
<1> DEFINE w == CountsOf(table, ctx)
           o == Observed(table, ctx, b)
<1>1. w \in Weights
  BY DEF CountsOf, NoCounts, Weights, BenchType
<1>2. /\ DOMAIN o = DOMAIN table \cup {ctx}
      /\ o[ctx] = [w EXCEPT ![b] = (@ + 1) % CountLimit]
      /\ \A e \in DOMAIN table : e /= ctx => o[e] = table[e]
  BY DEF Observed
<1> HIDE DEF w, o
<1>3. CASE c = ctx
  <2>1. CountsOf(o, c) = [w EXCEPT ![b] = (@ + 1) % CountLimit]
    BY <1>2, <1>3 DEF CountsOf
  <2>2. CountsOf(o, c)[d] = IF d = b THEN (w[d] + 1) % CountLimit ELSE w[d]
    BY <1>1, <2>1 DEF Weights
  <2>3. QED
    BY <1>3, <2>2 DEF w, o
<1>4. CASE c /= ctx
  <2>1. CountsOf(o, c) = CountsOf(table, c)
    BY <1>2, <1>4 DEF CountsOf
  <2>2. QED
    BY <1>4, <2>1 DEF o
<1>5. QED
  BY <1>3, <1>4

LEMMA ScoreCounts ==
    ASSUME GenType, BenchType, SettledInv, CountInv, ScoreByte, UNCHANGED genVars
    PROVE  CountInv'
<1>1. /\ scoring = TRUE /\ pos \in 1 .. Len(out) /\ pos' = pos + 1 /\ (pos + 1) - 1 = pos
      /\ out' = out /\ Order' = Order
      /\ table' = Observed(table, ctx, out[pos]) /\ ctx' = Shifted(ctx, out[pos])
      /\ pos \in Nat \ {0} /\ out[pos] \in Bytes /\ pos - 1 \in Nat
  BY DEF ScoreByte, genVars, Order, BenchType, GenType
<1>2. PICK h : /\ Contexts(h, Order, pos - 1, out) /\ ctx = h[pos - 1]
               /\ \A c : \A b \in Bytes :
                     CountsOf(table, c)[b] = Cardinality(Met(h, pos - 1, out, c, b)) % CountLimit
  BY <1>1 DEF CountInv
<1> DEFINE g == [i \in 0 .. pos |-> IF i = pos THEN ctx' ELSE h[i]]
<1>3. g[pos] = ctx' /\ \A i \in 0 .. pos - 1 : g[i] = h[i]
  BY <1>1
<1> HIDE DEF g
<1>4. Contexts(g, Order, pos, out)
  <2>1. g[0] = 0
    BY <1>1, <1>2, <1>3 DEF Contexts
  <2>2. ASSUME NEW i \in 1 .. pos PROVE g[i] = ShiftedBy(Order, g[i - 1], out[i])
    <3>1. g[i - 1] = h[i - 1]
      BY <1>1, <1>3
    <3>2. CASE i = pos
      BY <1>1, <1>2, <1>3, <3>1, <3>2 DEF Shifted, ShiftedBy
    <3>3. CASE i \in 1 .. pos - 1
      BY <1>2, <1>3, <3>1, <3>3 DEF Contexts
    <3>4. QED
      BY <1>1, <3>2, <3>3
  <2>3. QED
    BY <2>1, <2>2 DEF Contexts
<1>5. ASSUME NEW c, NEW b \in Bytes
      PROVE  CountsOf(table', c)[b] = Cardinality(Met(g, pos, out, c, b)) % CountLimit
  <2> DEFINE M == Met(h, pos - 1, out, c, b)
             x == Cardinality(M)
             y == CountsOf(table, c)[b]
  <2>1. IsFiniteSet(M) /\ x \in Nat /\ pos \notin M
    <3>1. pos \notin M
      BY <1>1 DEF Met
    <3>2. QED
      BY <1>1, <3>1, MetIsFinite
  <2>2. y = x % CountLimit
    BY <1>2
  <2>3. CASE c = ctx /\ out[pos] = b
    <3>1. Met(g, pos, out, c, b) = M \cup {pos}
      BY <1>1, <1>2, <1>3, <2>3 DEF Met
    <3>2. Cardinality(M \cup {pos}) = x + 1
      BY <2>1, FS_AddElement
    <3>3. CountsOf(table', c)[b] = (y + 1) % CountLimit
      BY <1>1, <2>3, CountByte
    <3> HIDE DEF M, x, y
    <3>4. ((x % CountLimit) + 1) % CountLimit = (x + 1) % CountLimit
      BY <2>1, ModelSizes, RowsAddOne
    <3>5. QED
      BY <2>2, <3>1, <3>2, <3>3, <3>4
  <2>4. CASE ~ (c = ctx /\ out[pos] = b)
    <3>1. Met(g, pos, out, c, b) = M
      BY <1>1, <1>2, <1>3, <2>4 DEF Met
    <3>2. CountsOf(table', c)[b] = y
      BY <1>1, <2>4, CountByte
    <3>3. QED
      BY <2>2, <3>1, <3>2
  <2>5. QED
    BY <2>3, <2>4
<1>6. /\ Contexts(g, Order', pos' - 1, out') /\ ctx' = g[pos' - 1]
      /\ \A c : \A b \in Bytes :
            CountsOf(table', c)[b] = Cardinality(Met(g, pos' - 1, out', c, b)) % CountLimit
  BY <1>1, <1>3, <1>4, <1>5
<1>7. QED
  BY <1>6 DEF CountInv

LEMMA NextCounts ==
    GenType /\ BenchType /\ SettledInv /\ CountInv /\ [BenchNext]_<<genVars, benchVars>>
      => CountInv'
<1> SUFFICES ASSUME GenType, BenchType, SettledInv, CountInv,
                    [BenchNext]_<<genVars, benchVars>>, scoring' = TRUE
             PROVE  CountInv'
  BY NextBenchType DEF CountInv, BenchType
<1>1. CASE UNCHANGED benchVars
  <2>1. scoring = TRUE
    BY <1>1 DEF benchVars
  <2>2. UNCHANGED genVars
    BY <2>1, Settles
  <2>3. Order' = Order
    BY <1>1 DEF benchVars, Order
  <2>4. QED
    BY <1>1, <2>2, <2>3 DEF genVars, benchVars, CountInv
<1>2. CASE NewModel /\ UNCHANGED genVars
  <2>1. pos' = 1 /\ ctx' = 0 /\ table' = NoTable /\ out' = out /\ 1 - 1 = 0
    BY <1>2 DEF NewModel, NewTable, genVars
  <2> DEFINE h == [i \in {0} |-> 0]
  <2>2. h[0] = 0 /\ 1 .. 0 = {}
    OBVIOUS
  <2> HIDE DEF h
  <2>3. Contexts(h, Order', 0, out)
    BY <2>2 DEF Contexts
  <2>4. ASSUME NEW c, NEW b \in Bytes
        PROVE  CountsOf(NoTable, c)[b] = Cardinality(Met(h, 0, out, c, b)) % CountLimit
    <3>1. CountsOf(NoTable, c)[b] = 0
      BY DEF CountsOf, NoTable, NoCounts
    <3>2. Met(h, 0, out, c, b) = {}
      BY <2>2 DEF Met
    <3>3. Cardinality({}) = 0 /\ 0 % CountLimit = 0
      BY FS_EmptySet, ModelSizes
    <3>4. QED
      BY <3>1, <3>2, <3>3
  <2>5. QED
    BY <2>1, <2>2, <2>3, <2>4 DEF CountInv
<1>3. CASE ScoreByte /\ UNCHANGED genVars
  BY <1>3, ScoreCounts
<1>4. CASE PushPoint
  BY <1>4 DEF PushPoint
<1>5. QED
  BY <1>1, <1>2, <1>3, <1>4 DEF BenchNext

\* Before the counts wrap, what a byte costs is what an n-gram model says.
LEMMA NgramOf ==
    ASSUME GenType, BenchType, SettledInv, CountInv, scoring = TRUE, pos <= Len(out),
           Len(out) < CountLimit
    PROVE  Cost(Predicted, out[pos]) = NgramCost(pos)
<1>1. /\ pos \in 1 .. Len(out) /\ out[pos] \in Bytes /\ pos - 1 \in Nat /\ (pos - 1) + 1 = pos
      /\ Order \in 0 .. MaxOrder /\ Order \in Nat /\ pos - 1 \in 0 .. Len(out)
  BY OrderIs, ModelSizes DEF GenType, BenchType
<1>2. PICK h : /\ Contexts(h, Order, pos - 1, out) /\ ctx = h[pos - 1]
               /\ \A c : \A b \in Bytes :
                     CountsOf(table, c)[b] = Cardinality(Met(h, pos - 1, out, c, b)) % CountLimit
  BY DEF CountInv
<1> DEFINE A == SameWindow(pos)
           w == Predicted
<1>3. ASSUME NEW j \in 1 .. pos - 1 PROVE Window(j, Order) = Window(pos, Order) <=> h[j - 1] = ctx
  <2>1. j - 1 \in 0 .. pos - 1 /\ j - 1 \in Nat /\ (j - 1) + 1 = j /\ pos - 1 \in 0 .. pos - 1
    BY <1>1
  <2>2. h[j - 1] = h[pos - 1]
          <=> \A d \in 0 .. Order - 1 : At(out, (j - 1) - d) = At(out, (pos - 1) - d)
    <3>1. \A x, y \in 0 .. pos - 1 :
             h[x] = h[y] <=> \A d \in 0 .. Order - 1 : At(out, x - d) = At(out, y - d)
      <4> DEFINE o == Order
                 n == pos - 1
                 s == out
      <4>1. /\ o \in 0 .. MaxOrder /\ s \in Seq(Bytes) /\ n \in 0 .. Len(s)
            /\ Contexts(h, o, n, s)
        BY <1>1, <1>2 DEF GenType
      <4> HIDE DEF o, n, s
      <4>2. TellsWindows(h, o, n, s)
        BY <4>1, ContextIsWindow
      <4>3. QED
        BY <4>2 DEF o, n, s, TellsWindows
    <3>2. QED
      BY <2>1, <3>1
  <2>3. Window((j - 1) + 1, Order) = Window((pos - 1) + 1, Order)
          <=> \A d \in 0 .. Order - 1 : At(out, (j - 1) - d) = At(out, (pos - 1) - d)
    BY <1>1, <2>1, WindowIs
  <2>4. QED
    BY <1>1, <1>2, <2>1, <2>2, <2>3
<1>4. A = {j \in 1 .. pos - 1 : h[j - 1] = ctx}
  BY <1>3 DEF SameWindow
<1>5. IsFiniteSet(A) /\ \A j \in A : out[j] \in Bytes
  <2>1. IsFiniteSet(1 .. pos - 1) /\ A \subseteq 1 .. pos - 1
    <3>1. IsFiniteSet(1 .. pos - 1)
      BY <1>1, FS_Interval
    <3>2. A \subseteq 1 .. pos - 1
      BY DEF SameWindow
    <3>3. QED
      BY <3>1, <3>2
  <2>2. \A j \in 1 .. pos - 1 : out[j] \in Bytes
    BY <1>1 DEF GenType
  <2> HIDE DEF A
  <2>3. QED
    BY <2>1, <2>2, FS_Subset
<1>6. ASSUME NEW b \in Bytes PROVE w[b] = Cardinality({j \in A : out[j] = b}) + 1
  <2> DEFINE x == Cardinality(Met(h, pos - 1, out, ctx, b))
  <2>1. x \in 0 .. pos - 1
    BY <1>1, MetIsFinite
  <2>2. w[b] = CountsOf(table, ctx)[b] + 1
    BY DEF Predicted, Predict
  <2>3. CountsOf(table, ctx)[b] = x % CountLimit
    BY <1>2
  <2>4. x < CountLimit /\ x \in Nat
    <3> HIDE DEF x
    <3>1. QED
      BY <1>1, <2>1, ModelSizes
  <2>5. x % CountLimit = x
    <3> HIDE DEF x
    <3>1. QED
      BY <2>4, ModelSizes
  <2>6. Met(h, pos - 1, out, ctx, b) = {j \in A : out[j] = b}
    BY <1>4 DEF Met
  <2> HIDE DEF w, A
  <2>7. QED
    BY <2>2, <2>3, <2>5, <2>6
<1>7. w \in [Bytes -> Nat]
  BY <1>1, CountsType DEF Weights
<1>8. Total(w) = Cardinality(A) + Base
  <2> HIDE DEF w, A
  <2>1. QED
    BY <1>5, <1>6, <1>7, TotalCounts
<1>9. w[out[pos]] = Cardinality({j \in A : out[j] = out[pos]}) + 1
  BY <1>1, <1>6
<1>10. QED
  BY <1>8, <1>9 DEF Cost, NgramCost

\* The byte whose cost came last.
LastScored == IF task = "induction" THEN Width * ((pos - 1) \div Width) ELSE pos - 1

NgramInv == scoring /\ pos > 1 /\ ledger /= << >> /\ Len(out) < CountLimit =>
    \A i : i = LastScored => ledger[Len(ledger)] = NgramCost(i)

LEMMA ScoreNgram ==
    ASSUME GenType, BenchType, SettledInv, SeenInv, OnlyValuesScored, CountInv, NgramInv,
           ScoreByte, UNCHANGED genVars
    PROVE  NgramInv'
<1>1. /\ scoring = TRUE /\ pos \in 1 .. Len(out) /\ pos' = pos + 1 /\ pos' - 1 = pos
      /\ out' = out /\ task' = task /\ Order' = Order /\ pos - 1 \in Nat /\ out[pos] \in Bytes
      /\ ledger \in Seq(Costs)
  BY DEF ScoreByte, genVars, Order, BenchType, GenType
<1>2. ASSUME NEW i PROVE NgramCost(i)' = NgramCost(i)
  BY <1>1 DEF NgramCost, SameWindow, Window
<1>3. Width \in Nat \ {0}
  BY TaskSizes DEF Width
<1> SUFFICES ASSUME Len(out) < CountLimit, ledger' /= << >>, NEW i, i = LastScored'
             PROVE  ledger'[Len(ledger')] = NgramCost(i)
  BY <1>1, <1>2 DEF NgramInv
<1>4. i = IF task = "induction" THEN Width * (pos \div Width) ELSE pos
  BY <1>1 DEF LastScored, Width
<1>5. CASE Scored(pos)
  <2>1. ledger' = Append(ledger, Cost(Predicted, out[pos]))
    BY <1>5 DEF ScoreByte
  <2>2. ledger'[Len(ledger')] = Cost(Predicted, out[pos])
    BY <1>1, <2>1
  <2>3. i = pos
    <3>1. CASE task = "induction"
      <4>1. pos % Width = 0
        BY <1>5, <3>1, ScoredByte
      <4> DEFINE d == pos \div Width
      <4> DEFINE r == pos % Width
      <4>2. d \in Nat /\ pos = (d * Width) + r
        <5>1. pos \in Nat
          BY <1>1
        <5>2. QED
          BY <1>3, <5>1, QuotientFits
      <4> HIDE DEF d
      <4>3. d * Width \in Nat /\ d * Width = Width * d
        BY <1>3, <4>2
      <4>4. pos = Width * d
        BY <4>1, <4>2, <4>3
      <4>5. QED
        BY <1>4, <3>1, <4>4 DEF d
    <3>2. QED
      BY <1>4, <3>1
  <2>4. Cost(Predicted, out[pos]) = NgramCost(pos)
    BY <1>1, NgramOf
  <2>5. QED
    BY <2>2, <2>3, <2>4
<1>6. CASE ~ Scored(pos)
  <2>1. ledger' = ledger
    BY <1>6 DEF ScoreByte
  <2>2. task = "induction" /\ pos \div Width = (pos - 1) \div Width
    BY <1>6, ScoredByte
  <2>3. i = LastScored
    BY <1>4, <2>2 DEF LastScored
  <2>4. pos > 1
    <3> SUFFICES ASSUME pos = 1 PROVE FALSE
      BY <1>1
    <3>1. 0 \div Width = 0
      <4>1. 0 = 0 * Width + 0 /\ 0 \in 0 .. Width - 1
        BY <1>3
      <4>2. QED
        BY <1>3, <4>1, QuotientIs
    <3>2. Len(ledger) = 0
      BY <1>1, <2>2, <3>1 DEF OnlyValuesScored
    <3>3. QED
      BY <1>1, <2>1, <3>2
  <2>5. QED
    BY <1>1, <2>1, <2>3, <2>4 DEF NgramInv
<1>7. QED
  BY <1>5, <1>6

LEMMA NextNgram ==
    GenType /\ BenchType /\ SettledInv /\ SeenInv /\ OnlyValuesScored /\ CountInv /\ NgramInv
      /\ [BenchNext]_<<genVars, benchVars>> => NgramInv'
<1> SUFFICES ASSUME GenType, BenchType, SettledInv, SeenInv, OnlyValuesScored, CountInv,
                    NgramInv, [BenchNext]_<<genVars, benchVars>>
             PROVE  NgramInv'
  OBVIOUS
<1>1. CASE UNCHANGED benchVars
  <2>1. CASE scoring = TRUE
    <3>1. UNCHANGED genVars
      BY <2>1, Settles
    <3>2. LastScored' = LastScored /\ \A i : NgramCost(i)' = NgramCost(i)
      BY <1>1, <3>1 DEF benchVars, genVars, LastScored, Width,
                         NgramCost, SameWindow, Window, Order
    <3>3. QED
      BY <1>1, <3>1, <3>2 DEF benchVars, genVars, NgramInv
  <2>2. CASE scoring = FALSE
    BY <1>1, <2>2 DEF benchVars, NgramInv
  <2>3. QED
    BY <2>1, <2>2 DEF BenchType
<1>2. CASE NewModel
  BY <1>2 DEF NewModel, NgramInv
<1>3. CASE ScoreByte /\ UNCHANGED genVars
  BY <1>3, ScoreNgram
<1>4. CASE PushPoint
  BY <1>4 DEF PushPoint, NgramInv
<1>5. QED
  BY <1>1, <1>2, <1>3, <1>4 DEF BenchNext

\* What a byte costs is what an n-gram model of the bytes before it says: the
\* packed context is the window, for every order up to a full word, and no
\* prediction sees what it predicts.  It holds of every stream that is too short
\* for the 32-bit counts to wrap.
THEOREM ScoresAreNgramsAlways == BenchSpec => [](Len(out) < CountLimit => ScoresAreNgrams)
<1>1. NgramInv => (Len(out) < CountLimit => ScoresAreNgrams)
  BY DEF NgramInv, ScoresAreNgrams, LastScored
<1>2. BenchInit => CountInv /\ NgramInv
  BY DEF BenchInit, CountInv, NgramInv
<1>3. QED
  BY <1>1, <1>2, NextCounts, NextNgram, BenchAlways, PairsAlways, OnlyValuesScoredAlways, PTL
     DEF BenchSpec

-------------------------------------------------------------------------------
(* What a made stream can tell apart *)

\* A made stream ends with a block or a sequence.
LeftInv == kind = "make" /\ left = 0 =>
    (task = "parity" => off = 0) /\ (task = "induction" => vals = << >>)

LEMMA NextLeft == GenType /\ LeftInv /\ [BenchNext]_<<genVars, benchVars>> => LeftInv'
<1> SUFFICES ASSUME GenType, LeftInv, [BenchNext]_<<genVars, benchVars>>,
                    kind' = "make", left' = 0
             PROVE  (task' = "parity" => off' = 0) /\ (task' = "induction" => vals' = << >>)
  BY DEF LeftInv
<1>1. CASE PushBit \/ DrawMapping \/ PushKeyByte
  BY <1>1 DEF PushBit, DrawMapping, PushKeyByte, More
<1>2. CASE PushParity
  BY <1>2 DEF PushParity
<1>3. CASE PushValue
  <2>1. kind = "make" /\ left > 0 /\ task' = "induction"
    BY <1>3 DEF PushValue, More
  <2>2. ~ LastPair => left' = left
    BY <1>3, <2>1 DEF PushValue
  <2>3. LastPair => vals' = << >>
    BY <1>3, <2>1 DEF PushValue
  <2>4. QED
    BY <2>1, <2>2, <2>3
<1>4. CASE UNCHANGED genVars
  BY <1>4 DEF genVars, LeftInv
<1>5. QED
  BY <1>1, <1>2, <1>3, <1>4 DEF BenchNext, Generate

\* Of more pairs than keys two have the same key.
LEMMA KeysRepeat ==
    ASSUME PairInv, task = "induction", PairsPerSeq <= Done, Done \in Nat,
           PairsPerSeq > Cardinality(KeyIds)
    PROVE  \E p \in 1 .. PairsPerSeq : \E r \in 1 .. p - 1 : KeyIn(out, r) = KeyIn(out, p)
<1> DEFINE N == 1 .. PairsPerSeq
           f == [p \in N |-> CHOOSE k \in KeyIds : KeyIn(out, p) = Keys[k]]
<1>1. PairsPerSeq \in Nat \ {0}
  BY TaskSizes
<1>2. IsFiniteSet(N) /\ Cardinality(N) = PairsPerSeq
  BY <1>1, FS_Interval
<1>3. IsFiniteSet(KeyIds) /\ Cardinality(KeyIds) \in Nat
  <2>1. KeyIds = 1 .. Len(Keys) /\ Len(Keys) \in Nat
    BY KeysAre, KeysAreDistinct
  <2>2. IsFiniteSet(KeyIds)
    BY <2>1, FS_Interval
  <2>3. QED
    BY <2>2, FS_CardinalityType
<1>4. ASSUME NEW p \in N PROVE f[p] \in KeyIds /\ KeyIn(out, p) = Keys[f[p]]
  <2>1. p \in 1 .. Done
    BY <1>1
  <2>2. \E k \in KeyIds : KeyIn(out, p) = Keys[k]
    BY <2>1 DEF PairInv
  <2>3. f[p] = CHOOSE k \in KeyIds : KeyIn(out, p) = Keys[k]
    OBVIOUS
  <2> HIDE DEF f
  <2>4. QED
    BY <2>2, <2>3
<1>5. f \in [N -> KeyIds]
  BY <1>4
<1> HIDE DEF f, N
<1>6. PICK x, y \in N : x /= y /\ f[x] = f[y]
  BY <1>2, <1>3, <1>5, FS_PigeonHole
<1>7. KeyIn(out, x) = KeyIn(out, y)
  BY <1>4, <1>6
<1>8. x \in 1 .. PairsPerSeq /\ y \in 1 .. PairsPerSeq /\ (x \in 1 .. y - 1 \/ y \in 1 .. x - 1)
  BY <1>1, <1>6 DEF N
<1>9. QED
  BY <1>7, <1>8

\* Every complete stream of more pairs than keys can tell models apart: some
\* value is free at the floor and costs bits before it.
THEOREM StreamsTellModelsAlways == BenchSpec => []StreamsTellModels
<1>1. GenType /\ SettledInv /\ ParityInv /\ PairInv /\ SequenceInv /\ SeenInv /\ LeftInv
         => StreamsTellModels
  <2> SUFFICES ASSUME GenType, SettledInv, ParityInv, PairInv, SequenceInv, SeenInv, LeftInv,
                      kind = "make", ~ More, Cardinality(Range(out)) > 1,
                      task = "induction" => PairsPerSeq > Cardinality(KeyIds)
               PROVE  HasGap
    BY DEF StreamsTellModels
  <2>1. left = 0 /\ task \in {"parity", "induction"}
    BY DEF More, GenType
  <2>2. Len(out) \in Nat \ {0} /\ DOMAIN out = 1 .. Len(out)
    <3>1. out /= << >>
      <4> SUFFICES ASSUME out = << >> PROVE FALSE
        OBVIOUS
      <4>1. Range(out) = {}
        BY DEF Range
      <4>2. Cardinality({}) = 0
        BY FS_EmptySet
      <4>3. Cardinality(Range(out)) = 0 /\ Cardinality(Range(out)) > 1
        BY <4>1, <4>2
      <4> DEFINE c == Cardinality(Range(out))
      <4> HIDE DEF c
      <4>4. c = 0 /\ c > 1
        BY <4>3 DEF c
      <4>5. QED
        BY <4>4
    <3>2. QED
      BY <3>1 DEF GenType
  <2>3. CASE task = "parity"
    <3>1. Row \in Nat \ {0} /\ Row = BlockLen + 1
      BY TaskSizes DEF Row
    <3>2. PICK q \in Nat : Len(out) = q * Row + 0
      BY <2>1, <2>3 DEF ParityInv, LeftInv
    <3>3. 1 * Row <= q * Row
      <4>1. q /= 0
        BY <2>2, <3>1, <3>2
      <4>2. 1 <= q
        BY <4>1
      <4>3. QED
        BY <3>1, <4>2, RowsGrow
    <3>4. Row \in DOMAIN out
      <4>1. q * Row \in Nat /\ 1 * Row = Row
        BY <3>1
      <4>2. QED
        BY <2>2, <3>1, <3>2, <3>3, <4>1
    <3>5. Row % Row = 0
      BY <3>1
    <3>6. Scored(Row) /\ FloorCost(Row) = Free /\ NaiveCost(Row) = Coin
      BY <2>3, <3>1, <3>5 DEF Scored, SettledInv, FloorCost, GivenAway, NaiveCost
    <3>7. Free /= Coin
      <4>1. Free.of = 1 /\ Coin.of = 2
        BY DEF Free, Coin
      <4>2. QED
        BY <4>1
    <3>8. QED
      BY <3>4, <3>6, <3>7 DEF HasGap
  <2>4. CASE task = "induction"
    <3>1. /\ vals = << >> /\ off = 0 /\ Done \in Nat /\ Len(out) = Done * Width + 0
          /\ Width \in Nat \ {0} /\ Width = KeyLen + 1 /\ KeyLen \in Nat \ {0}
      <4>1. vals = << >>
        BY <2>1, <2>4 DEF LeftInv
      <4>2. off = 0
        BY <2>4, <4>1, TaskSizes DEF PairInv
      <4>3. QED
        BY <2>4, <4>1, <4>2, DoneIs, TaskSizes DEF PairInv
    <3>2. PairsPerSeq \in Nat \ {0} /\ PairsPerSeq <= Done
      <4>1. PICK s \in Nat : Done = s * PairsPerSeq + 0
        BY <2>4, <3>1 DEF SequenceInv
      <4>2. Done /= 0 /\ PairsPerSeq \in Nat \ {0}
        BY <2>2, <3>1, TaskSizes
      <4>3. s /= 0
        BY <4>1, <4>2
      <4>4. 1 * PairsPerSeq <= s * PairsPerSeq
        BY <4>2, <4>3, RowsGrow
      <4>5. QED
        <5>1. s * PairsPerSeq \in Nat /\ 1 * PairsPerSeq = PairsPerSeq
          BY <4>2
        <5>2. QED
          BY <4>1, <4>2, <4>4, <5>1
    <3>3. PICK p \in 1 .. PairsPerSeq : \E r \in 1 .. p - 1 : KeyIn(out, r) = KeyIn(out, p)
      BY <2>4, <3>1, <3>2, KeysRepeat
    <3>4. PICK r \in 1 .. p - 1 : KeyIn(out, r) = KeyIn(out, p)
      BY <3>3
    <3>5. SameSequence(p, r)
      <4>1. p - 1 \in 0 .. PairsPerSeq - 1 /\ r - 1 \in 0 .. PairsPerSeq - 1
        BY <3>2
      <4>2. p - 1 = 0 * PairsPerSeq + (p - 1) /\ r - 1 = 0 * PairsPerSeq + (r - 1)
        BY <3>2, <4>1
      <4>3. (p - 1) \div PairsPerSeq = 0 /\ (r - 1) \div PairsPerSeq = 0
        BY <3>2, <4>1
      <4>4. QED
        BY <4>3 DEF SameSequence
    <3>6. p \in 1 .. Done
      BY <3>1, <3>2
    <3> DEFINE i == p * Width
    <3>7. mark[i] = "recall"
      BY <2>4, <3>4, <3>5, <3>6 DEF SeenInv
    <3>8. i \in DOMAIN out /\ Len(out) > 1
      <4>1. p \in Nat \ {0} /\ i <= Done * Width /\ i \in Nat \ {0} /\ i >= 2
        <5>1. p \in Nat \ {0} /\ i <= Done * Width
          BY <3>6, DoneIs
        <5>2. i = (p - 1) * Width + KeyLen + 1 /\ (p - 1) * Width \in Nat
          BY <5>1, PlacesOf
        <5> HIDE DEF i
        <5>3. i \in Nat \ {0} /\ i >= 2
          BY <3>1, <5>2
        <5>4. QED
          BY <5>1, <5>3
      <4> HIDE DEF i
      <4>2. Done * Width \in Nat
        BY <3>1
      <4>3. QED
        BY <2>2, <3>1, <4>1, <4>2
    <3> HIDE DEF i
    <3>9. Scored(i) /\ FloorCost(i) = Free
      BY <2>4, <3>7 DEF Scored, FloorCost, GivenAway
    <3>10. NaiveCost(i) /= Free
      <4>1. NaiveCost(i).of = Len(out) /\ Free.of = 1
        BY <2>4 DEF NaiveCost, Marginal, Free
      <4>2. QED
        BY <3>8, <4>1
    <3>11. QED
      BY <3>8, <3>9, <3>10 DEF HasGap
  <2>5. QED
    BY <2>1, <2>3, <2>4
<1>2. BenchInit => LeftInv
  BY DEF BenchInit, GenInit, LeftInv
<1>3. QED
  BY <1>1, <1>2, NextLeft, BenchAlways, ParityAlways, PairsAlways, PTL DEF BenchSpec

-------------------------------------------------------------------------------
(* What a fill writes *)

\* A fill stays inside its buffer, of whatever length: the first half of
\* FillsExactly.
FillsInside == kind = "fill" => Len(out) <= T

THEOREM FillsInsideAlways == BenchSpec => []FillsInside
<1>1. BenchInit => FillsInside
  <2> SUFFICES ASSUME BenchInit, kind = "fill" PROVE Len(out) <= T
    BY DEF FillsInside
  <2>1. out = << >> /\ T \in Nat
    BY TaskSizes DEF BenchInit, GenInit
  <2>2. QED
    BY <2>1
<1>2. GenType /\ FillsInside /\ [BenchNext]_<<genVars, benchVars>> => FillsInside'
  <2> SUFFICES ASSUME GenType, FillsInside, [BenchNext]_<<genVars, benchVars>>, kind' = "fill"
               PROVE  Len(out') <= T'
    BY DEF FillsInside
  <2>1. CASE PushBit \/ PushParity \/ PushKeyByte \/ PushValue
    <3>1. kind = "fill" /\ Len(out) < T /\ T' = T
      BY <2>1 DEF PushBit, PushParity, PushKeyByte, PushValue, More
    <3>2. PICK b : out' = Append(out, b)
      BY <2>1 DEF PushBit, PushParity, PushKeyByte, PushValue
    <3>3. Len(out') = Len(out) + 1 /\ Len(out) \in Nat /\ T \in Nat
      BY <3>2 DEF GenType
    <3>4. QED
      BY <3>1, <3>3
  <2>2. CASE DrawMapping
    BY <2>2 DEF DrawMapping, FillsInside
  <2>3. CASE UNCHANGED genVars
    BY <2>3 DEF genVars, FillsInside
  <2>4. QED
    BY <2>1, <2>2, <2>3 DEF BenchNext, Generate
<1>3. QED
  BY <1>1, <1>2, GenTypeAlways, PTL DEF BenchSpec

\* What of the second half can be said without ENABLED: short of its end, one
\* of the steps that write a fill has its guard, and something to choose.
FillGoesOn == kind = "fill" /\ Len(out) < T =>
    /\ More
    /\ \/ task = "parity" /\ (off < BlockLen \/ off = BlockLen)
       \/ /\ task = "induction"
          /\ \/ vals = << >> /\ [KeyIds -> Bytes] /= {}
             \/ vals /= << >> /\ off < KeyLen /\ KeyIds /= {}
             \/ vals /= << >> /\ off = KeyLen

THEOREM FillGoesOnAlways == BenchSpec => []FillGoesOn
<1>1. ASSUME GenType, ParityInv, PairInv, kind = "fill", Len(out) < T PROVE FillGoesOn
  <2>1. More
    BY <1>1 DEF More
  <2>2. CASE task = "parity"
    <3>1. off \in 0 .. BlockLen /\ BlockLen \in Nat
      BY <1>1, <2>2, TaskSizes DEF ParityInv
    <3>2. off < BlockLen \/ off = BlockLen
      BY <3>1
    <3>3. QED
      BY <2>1, <2>2, <3>2 DEF FillGoesOn
  <2>3. CASE task = "induction"
    <3>1. off \in 0 .. KeyLen /\ KeyLen \in Nat
      BY <1>1, <2>3, TaskSizes DEF PairInv
    <3>2. off < KeyLen \/ off = KeyLen
      BY <3>1
    <3>3. [k \in KeyIds |-> 0] \in [KeyIds -> Bytes] /\ KeyIds /= {}
      BY KeysAre, BytesHoldBits DEF Bits
    <3>4. QED
      BY <2>1, <2>3, <3>2, <3>3 DEF FillGoesOn
  <2>4. QED
    BY <1>1, <2>2, <2>3 DEF GenType
<1>2. GenType /\ ParityInv /\ PairInv => FillGoesOn
  BY <1>1 DEF FillGoesOn
<1>3. QED
  BY <1>2, GenTypeAlways, ParityAlways, PairsAlways, PTL
================================================================================
