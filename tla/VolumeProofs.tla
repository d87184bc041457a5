---------------------------- MODULE VolumeProofs ----------------------------
(* What the volume does to a sample, for every volume and sample.          *)
EXTENDS Volume, TLAPS

(* The values of an int16_t.                                               *)
Sample == {x \in Int : -32768 <= x /\ x <= 32767}
Level == 0 .. MaxVolume

LEMMA SampleFacts ==
    ASSUME NEW s
    PROVE  s \in Sample <=> s \in Int /\ s >= -32768 /\ s <= 32767
  BY DEF Sample

(* Whatever is asked for is set within the range of the volume.            *)
LEMMA SetVolumeInRange ==
    ASSUME NEW v \in Int
    PROVE  SetVolume(v) \in Level
  BY DEF SetVolume, Level, MaxVolume

(* A product with a volume lies between 0 and a hundred times the factor,  *)
(* and keeps the order of two factors.                                     *)
LEMMA ProductBound ==
    ASSUME NEW a \in Nat, NEW v \in Level
    PROVE  a * v \in 0 .. a * 100
<1>1. v \in Nat /\ 100 - v \in Nat
  BY DEF Level, MaxVolume
<1>2. \A n \in Nat : a * n \in Nat
  BY SMT
<1>3. a * v \in Nat /\ a * (100 - v) \in Nat
  BY <1>1, <1>2
<1>4. a * (100 - v) = a * 100 - a * v
  BY <1>1, SMT
<1>5. QED
  BY <1>3, <1>4

LEMMA ProductOrder ==
    ASSUME NEW a \in Int, NEW b \in Int, a <= b, NEW v \in Level
    PROVE  a * v <= b * v
<1>1. v \in Nat /\ b - a \in Nat
  BY DEF Level, MaxVolume
<1>2. \A n \in Nat : n * v \in Nat
  BY <1>1, SMT
<1>3. (b - a) * v \in Nat
  BY <1>1, <1>2
<1>4. (b - a) * v = b * v - a * v
  BY <1>1, SMT
<1>5. a * v \in Int /\ b * v \in Int
  BY <1>1, SMT
<1>6. QED
  BY <1>3, <1>4, <1>5

(* 16 bits hold a sample as it is.                                         *)
LEMMA Int16Identity ==
    ASSUME NEW x \in Sample
    PROVE  Int16(x) = x
<1>1. x + 32768 \in Nat /\ x + 32768 < 65536 /\ x \in Int
  BY SampleFacts
<1>2. \A n \in Nat : n < 65536 => n % 65536 = n
  OBVIOUS
<1>3. (x + 32768) % 65536 = x + 32768
  BY <1>1, <1>2
<1>4. QED
  BY <1>1, <1>3 DEF Int16

(* Division towards 0 keeps the sign, the bound and the order.             *)
LEMMA QuotientFacts ==
    ASSUME NEW x \in Int, NEW y \in Int, x <= y
    PROVE  /\ Quotient(x, 100) \in Int
           /\ Quotient(x, 100) <= Quotient(y, 100)
  BY DEF Quotient

LEMMA QuotientBound ==
    ASSUME NEW x \in Int, NEW n \in Nat
    PROVE  /\ x \in 0 .. n * 100 => Quotient(x, 100) \in 0 .. n
           /\ x \in -(n * 100) .. 0 => Quotient(x, 100) \in -n .. 0
  BY DEF Quotient

(* A scaled sample lies between 0 and what it was.                         *)
LEMMA ScaledBound ==
    ASSUME NEW s \in Sample, NEW v \in Level
    PROVE  /\ s >= 0 => Quotient(s * v, 100) \in 0 .. s
           /\ s <= 0 => Quotient(s * v, 100) \in s .. 0
<1>1. s \in Int /\ v \in Int /\ s * v \in Int
  BY SMT DEF Sample, Level, MaxVolume
<1>2. ASSUME s >= 0 PROVE Quotient(s * v, 100) \in 0 .. s
  <2>1. s \in Nat /\ s * v \in 0 .. s * 100
    BY <1>1, <1>2, ProductBound
  <2>2. QED
    BY <1>1, <2>1, QuotientBound
<1>3. ASSUME s <= 0 PROVE Quotient(s * v, 100) \in s .. 0
  <2>1. -s \in Nat /\ (-s) * v \in 0 .. (-s) * 100
    BY <1>1, <1>3, ProductBound
  <2>2. (-s) * v = -(s * v)
    BY <1>1, SMT
  <2>3. s * v \in -((-s) * 100) .. 0
    BY <1>1, <2>1, <2>2
  <2>4. Quotient(s * v, 100) \in -(-s) .. 0
    BY <1>1, <2>1, <2>3, QuotientBound
  <2>5. QED
    BY <1>1, <2>4
<1>4. QED
  BY <1>2, <1>3

(* Over silence the sum is not clipped and the two bytes are those of the  *)
(* scaled sample.                                                          *)
LEMMA MixIdentity ==
    ASSUME NEW x \in Sample
    PROVE  Int16(((x \div 256) % 256) * 256 + (x % 256)) = x
<1>1. x \in Int /\ x >= -32768 /\ x <= 32767
  BY DEF Sample
<1>2. x = (x \div 256) * 256 + (x % 256) /\ x % 256 \in 0 .. 255
      /\ x \div 256 \in -128 .. 127
  BY <1>1
<1>3. CASE x >= 0
  <2>1. (x \div 256) % 256 = x \div 256
    BY <1>2, <1>3, <1>1
  <2>2. QED
    BY <2>1, <1>2, <1>1 DEF Int16
<1>4. CASE x < 0
  <2>1. (x \div 256) % 256 = x \div 256 + 256
    BY <1>2, <1>4, <1>1
  <2>2. ((x \div 256) % 256) * 256 + (x % 256) = x + 65536
    BY <2>1, <1>2, <1>1
  <2>3. (x + 65536 + 32768) % 65536 = x + 32768
    BY <1>1, <1>4
  <2>4. QED
    BY <2>2, <2>3, <1>1 DEF Int16
<1>5. QED
  BY <1>1, <1>3, <1>4

LEMMA HeardIsScaled ==
    ASSUME NEW s \in Sample, NEW v \in Level
    PROVE  Heard(s, v) = Quotient(s * v, 100)
<1>1. s \in Int /\ v \in Int /\ s * v \in Int
  BY SMT DEF Sample, Level, MaxVolume
<1> DEFINE x == Quotient(s * v, 100)
<1>2. x \in Sample
  <2>1. \/ s >= 0 /\ x \in 0 .. s
        \/ s <= 0 /\ x \in s .. 0
    BY <1>1, ScaledBound
  <2> HIDE DEF x
  <2>2. QED
    BY <1>1, <2>1, SampleFacts
<1>3. CASE v = MaxVolume
  <2>1. s * v = s * 100
    BY <1>3 DEF MaxVolume
  <2>2. Quotient(s * 100, 100) = s
    BY <1>1 DEF Quotient
  <2>3. QED
    BY <1>3, <2>1, <2>2 DEF Heard
<1>4. CASE v # MaxVolume
  <2>1. Adjust(s, v) = x
    BY <1>2, Int16Identity DEF Adjust, MaxVolume
  <2> HIDE DEF x
  <2>2. x + 0 = x /\ ~(x > 32767) /\ ~(x < -32768)
    BY <1>2, SampleFacts
  <2>3. MixAudioVolume(s, 0, v) = Int16(((x \div 256) % 256) * 256 + (x % 256))
    BY <2>1, <2>2 DEF MixAudioVolume
  <2>4. MixAudioVolume(s, 0, v) = x
    BY <1>2, <2>3, MixIdentity
  <2>5. QED
    BY <1>4, <2>4 DEF Heard, x
<1>5. QED
  BY <1>3, <1>4

(* A sample is scaled and never bent, for every sample of 16 bits and      *)
(* every volume: it keeps its sign, is not louder than it was, and the     *)
(* higher of two stays the higher (BasicAudioRender::MixAudioVolume).      *)
THEOREM HeardCorrect ==
    ASSUME NEW s \in Sample, NEW t \in Sample, s <= t, NEW v \in Level
    PROVE  /\ s >= 0 => Heard(s, v) \in 0 .. s
           /\ s <= 0 => Heard(s, v) \in s .. 0
           /\ Heard(s, v) <= Heard(t, v)
<1>1. s * v \in Int /\ t * v \in Int /\ s * v <= t * v
  <2>1. s \in Int /\ t \in Int /\ v \in Int
    BY SampleFacts DEF Level, MaxVolume
  <2>2. QED
    BY <2>1, ProductOrder, SMT
<1>2. Heard(s, v) = Quotient(s * v, 100) /\ Heard(t, v) = Quotient(t * v, 100)
  BY HeardIsScaled
<1>3. QED
  BY <1>1, <1>2, ScaledBound, QuotientFacts
=============================================================================
