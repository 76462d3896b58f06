---------------------------- MODULE DeviceProofs ----------------------------
(***************************************************************************)
(* drivers/devices, the sensor and then the indicator.                      *)
(*                                                                          *)
(* Of DS18B20: the presence check of a measurement, whatever edges the      *)
(* capture unit of TIM1 delivers and whatever earlier measurements left in  *)
(* the union; the decoder, which compresses 72 pulses into 9 of their own   *)
(* bytes; the types of its state and of what it reports; that a reading     *)
(* passes the CRC and is reported as the temperature that it means.         *)
(* Of HT1621: the types of the RAM and of the glass, the icons, and that a  *)
(* temperature can be read off the glass in one way only.                   *)
(***************************************************************************)
EXTENDS MCDS18B20, MCHT1621, WellFoundedInduction, TLAPS

(* From the start of a measurement to the test of its presence pulse: the  *)
(* second edge still is the 0xFFFF that fill_union wrote, or the reset     *)
(* slot is over and has captured whatever there was.                       *)
AwaitsReset ==
    /\ ~uif /\ running = "reset"
    /\ union[2] = 255 /\ union[3] = 255
ResetIsOver ==
    /\ uif /\ running = "none"
    /\ CheckPresence(union) => answered
PresenceInv == fsm = "CONVERT" => AwaitsReset \/ ResetIsOver

(* An edge that was never captured is not where a sensor puts its own.     *)
LEMMA NoEdge ==
    ASSUME NEW m, m[2] = 255, m[3] = 255
    PROVE  ~CheckPresence(m)
  BY DEF CheckPresence, Edge

(* The two bytes of an edge give the edge.                                 *)
LEMMA EdgeBytes ==
    ASSUME NEW t \in Nat, t < 65536
    PROVE  (t % 256) + 256 * ((t \div 256) % 256) = t
  <1> DEFINE high == t \div 256
  <1>1. high \in Nat /\ high < 256 /\ (t % 256) + 256 * high = t
    BY SMT
  <1> HIDE DEF high
  <1>2. high % 256 = high
    BY <1>1, SMT
  <1> QED
    BY <1>1, <1>2 DEF high

(* A captured second edge is read as it was captured.                      *)
LEMMA SecondEdge ==
    ASSUME NEW m, NEW s, NEW t \in Nat, t < 65536
    PROVE  Edge(PutEdge(PutEdge(m, 0, s), 1, t), 1) = t
  <1> DEFINE p == PutEdge(PutEdge(m, 0, s), 1, t)
  <1>1. p[2] = t % 256 /\ p[3] = (t \div 256) % 256
    BY DEF PutEdge, Bytes72
  <1>2. Edge(p, 1) = p[2] + 256 * p[3]
    <2> HIDE DEF p
    <2> QED
      BY DEF Edge
  <1>3. Edge(p, 1) = (t % 256) + 256 * ((t \div 256) % 256)
    BY <1>1, <1>2
  <1> QED
    BY <1>3, EdgeBytes

(* A reset slot that passes the check has captured two edges, the second   *)
(* of them a sensor's.                                                     *)
LEMMA CapturedAnswer ==
    ASSUME NEW es \in Edges, NEW m, m[2] = 255, m[3] = 255,
           CheckPresence(Captured(m, es))
    PROVE  IsAnswer(es)
  <1>1. /\ es \in Seq(Nat) /\ Len(es) \in Nat /\ Len(es) <= 2
        /\ \A i \in 1..Len(es) : es[i] \in Nat /\ es[i] < 65536
    BY SensorAssumption
  <1>2. CASE Len(es) = 0
    BY <1>2, NoEdge DEF Captured
  <1>3. CASE Len(es) = 1
    <2>1. Captured(m, es) = PutEdge(m, 0, es[1])
      BY <1>3 DEF Captured
    <2>2. Captured(m, es)[2] = 255 /\ Captured(m, es)[3] = 255
      BY <2>1 DEF PutEdge, Bytes72
    <2> QED
      BY <2>2, NoEdge
  <1>4. CASE Len(es) = 2
    <2>1. es[2] \in Nat /\ es[2] < 65536
      BY <1>1, <1>4
    <2>2. Captured(m, es) = PutEdge(PutEdge(m, 0, es[1]), 1, es[2])
      BY <1>4 DEF Captured
    <2>3. Edge(Captured(m, es), 1) = es[2]
      BY <2>1, <2>2, SecondEdge
    <2> QED
      BY <1>4, <2>3 DEF CheckPresence, IsAnswer
  <1>5. Len(es) = 0 \/ Len(es) = 1 \/ Len(es) = 2
    <2>1. Len(es) \in Nat /\ Len(es) <= 2
      BY <1>1
    <2>2. \A n \in Nat : n <= 2 => n = 0 \/ n = 1 \/ n = 2
      OBVIOUS
    <2> QED
      BY <2>1, <2>2
  <1> QED
    BY <1>2, <1>3, <1>4, <1>5

LEMMA PresenceNext == PresenceInv /\ [HNext]_hvars => PresenceInv'
  <1> SUFFICES ASSUME PresenceInv, [HNext]_hvars PROVE PresenceInv'
    OBVIOUS
  <1>1. CASE Start
    <2>1. ~uif' /\ running' = "reset" /\ union' = FillUnion(union)
      BY <1>1 DEF Start, Row
    <2>2. union'[2] = 255 /\ union'[3] = 255
      BY <2>1 DEF FillUnion, Bytes72
    <2> QED
      BY <2>1, <2>2 DEF PresenceInv, AwaitsReset
  <1>2. CASE Poll /\ ~Start
    <2>1. fsm' # "CONVERT"
      BY <1>2 DEF Poll, ConvertOk, ConvertFail, Wait, Continue, RequestOk,
           RequestFail, Read, Decode, Row
    <2> QED
      BY <2>1 DEF PresenceInv
  <1>3. ASSUME NEW es \in Edges, HReset(es) PROVE PresenceInv'
    <2>1. /\ running = "reset" /\ running' = "none" /\ uif' = TRUE /\ fsm' = fsm
          /\ union' = Captured(union, es) /\ answered' = IsAnswer(es)
      BY <1>3 DEF HReset, ResetEnds, Ends
    <2>2. ASSUME fsm' = "CONVERT", CheckPresence(union') PROVE answered'
      <3>1. AwaitsReset
        BY <2>1, <2>2 DEF PresenceInv, ResetIsOver
      <3> QED
        BY <2>1, <2>2, <3>1, CapturedAnswer DEF AwaitsReset
    <2> QED
      BY <2>1, <2>2 DEF PresenceInv, ResetIsOver
  <1>4. ASSUME running \notin {"reset", "none"}, fsm' = fsm PROVE PresenceInv'
    BY <1>4 DEF PresenceInv, AwaitsReset, ResetIsOver
  <1>5. CASE HTimer
    BY <1>4, <1>5 DEF HTimer, TimerEnds, Ends
  <1>6. CASE \E r \in Readings : HRead(r)
    BY <1>4, <1>6 DEF HRead, ReadEnds, Ends
  <1>7. CASE \E r \in Readings, k \in Cuts : HCut(r, k)
    BY <1>4, <1>7 DEF HCut, ReadEnds, Ends
  <1>8. CASE \E r \in Readings, k \in Stalls : HStall(r, k)
    BY <1>4, <1>8 DEF HStall, ReadEnds, Ends
  <1>9. CASE UNCHANGED hvars
    BY <1>9 DEF hvars, dvars, PresenceInv, AwaitsReset, ResetIsOver, CheckPresence, Edge
  <1> QED
    BY <1>1, <1>2, <1>3, <1>5, <1>6, <1>7, <1>8, <1>9 DEF HNext, HPoll, HHardware

(* A conversion is only commanded after a presence pulse in its own reset  *)
(* slot: no byte that an earlier measurement left in the union passes for  *)
(* one, for any edges that may be captured.                                *)
THEOREM ConversionHasSensor == HSpec => ConvertNeedsPresence
  <1>1. HInit => PresenceInv
    BY DEF HInit, DInit, PresenceInv
  <1>2. PresenceInv /\ [HNext]_hvars
          => [fsm = "CONVERT" /\ fsm' = "WAIT" => answered]_hvars
    <2> SUFFICES ASSUME PresenceInv, HNext, fsm = "CONVERT", fsm' = "WAIT"
                 PROVE  answered
      OBVIOUS
    <2>1. ConvertOk
      BY DEF HNext, HPoll, HHardware, Poll, Start, ConvertFail, Wait, Continue,
           RequestOk, RequestFail, Read, Decode, Row, HTimer, TimerEnds, HReset,
           ResetEnds, HRead, HCut, HStall, ReadEnds
    <2> QED
      BY <2>1 DEF ConvertOk, Row, PresenceInv, AwaitsReset, ResetIsOver
  <1> QED
    BY <1>1, <1>2, PresenceNext, PTL DEF HSpec, ConvertNeedsPresence
-----------------------------------------------------------------------------
(* A set of numbers that holds 0, and the successor of each number it      *)
(* holds, holds every number: its complement has no least element.         *)
LEMMA LessIsWellFounded == IsWellFoundedOn({p \in Nat \X Nat : p[1] < p[2]}, Nat)
  BY NatLessThanWellFounded DEF OpToRel

LEMMA SetInduction ==
    ASSUME NEW T, 0 \in T, \A n \in Nat : n \in T => n + 1 \in T
    PROVE  \A n \in Nat : n \in T
  <1> DEFINE R == {p \in Nat \X Nat : p[1] < p[2]}
             U == Nat \ T
  <1>1. SUFFICES ASSUME U # {} PROVE FALSE
    OBVIOUS
  <1>2. IsWellFoundedOn(R, Nat) /\ U \subseteq Nat
    BY LessIsWellFounded
  <1>3. PICK x \in U : \A y \in U : ~(<<y, x>> \in R)
    <2> HIDE DEF R, U
    <2> QED
      BY <1>1, <1>2, WFMin
  <1>4. x - 1 \in Nat
    BY <1>3
  <1>5. x - 1 \in U
    BY <1>3, <1>4
  <1>6. <<x - 1, x>> \in R
    BY <1>3, <1>4
  <1> QED
    BY <1>3, <1>5, <1>6
-----------------------------------------------------------------------------
(* The weight of a bit in its byte, and a byte without that bit.           *)
Weights == {1, 2, 4, 8, 16, 32, 64, 128}
Without(b, w) == b - w * ((b \div w) % 2)

LEMMA Powers ==
    ASSUME NEW k
    PROVE  /\ k = 0 => 2^k = 1
           /\ k = 1 => 2^k = 2
           /\ k = 2 => 2^k = 4
           /\ k = 3 => 2^k = 8
           /\ k = 4 => 2^k = 16
           /\ k = 5 => 2^k = 32
           /\ k = 6 => 2^k = 64
           /\ k = 7 => 2^k = 128
  <1>1. /\ 2^0 = 1 /\ 2^1 = 2 /\ 2^2 = 4 /\ 2^3 = 8
        /\ 2^4 = 16 /\ 2^5 = 32 /\ 2^6 = 64 /\ 2^7 = 128
    OBVIOUS
  <1> QED
    BY <1>1, Zenon

LEMMA BitWeight ==
    ASSUME NEW n \in Nat
    PROVE  2^(n % 8) \in Weights
  <1> DEFINE k == n % 8
  <1>1. k \in 0..7
    OBVIOUS
  <1> HIDE DEF k
  <1>2. 2^k \in Weights
    BY <1>1, Powers DEF Weights
  <1> QED
    BY <1>2 DEF k

(* Two bits of the same byte have different weights.                       *)
LEMMA BitWeights ==
    ASSUME NEW n \in Nat, NEW i \in Nat, n \div 8 = i \div 8, n # i
    PROVE  2^(n % 8) # 2^(i % 8)
  <1> DEFINE k == n % 8
             l == i % 8
  <1>1. k \in 0..7 /\ l \in 0..7 /\ k # l
    OBVIOUS
  <1> DEFINE v == 2^k
             w == 2^l
  <1> HIDE DEF k, l
  <1>2. /\ k = 0 => v = 1
        /\ k = 1 => v = 2
        /\ k = 2 => v = 4
        /\ k = 3 => v = 8
        /\ k = 4 => v = 16
        /\ k = 5 => v = 32
        /\ k = 6 => v = 64
        /\ k = 7 => v = 128
    BY Powers
  <1>3. /\ l = 0 => w = 1
        /\ l = 1 => w = 2
        /\ l = 2 => w = 4
        /\ l = 3 => w = 8
        /\ l = 4 => w = 16
        /\ l = 5 => w = 32
        /\ l = 6 => w = 64
        /\ l = 7 => w = 128
    BY Powers
  <1> HIDE DEF v, w
  <1>4. v # w
    BY <1>1, <1>2, <1>3
  <1> QED
    BY <1>4 DEF k, l, v, w

(* Taking a bit out of a byte and putting it back leave a byte, in which   *)
(* the bit is as it should be.                                             *)
LEMMA OwnBit ==
    ASSUME NEW w \in Weights, NEW b \in Byte
    PROVE  /\ Without(b, w) \in Byte /\ Without(b, w) + w \in Byte
           /\ ((Without(b, w) + w) \div w) % 2 = 1
           /\ (Without(b, w) \div w) % 2 = 0
  BY SMTT(30) DEF Weights, Without, Byte

(* They leave the other bits alone.                                        *)
LEMMA OtherBits ==
    ASSUME NEW w \in Weights, NEW v \in Weights, v # w, NEW b \in Byte
    PROVE  /\ ((Without(b, w) + w) \div v) % 2 = (b \div v) % 2
           /\ (Without(b, w) \div v) % 2 = (b \div v) % 2
  <1>1. CASE w = 1
    BY <1>1, SMTT(60) DEF Weights, Without, Byte
  <1>2. CASE w = 2
    BY <1>2, SMTT(60) DEF Weights, Without, Byte
  <1>3. CASE w = 4
    BY <1>3, SMTT(60) DEF Weights, Without, Byte
  <1>4. CASE w = 8
    BY <1>4, SMTT(60) DEF Weights, Without, Byte
  <1>5. CASE w = 16
    BY <1>5, SMTT(60) DEF Weights, Without, Byte
  <1>6. CASE w = 32
    BY <1>6, SMTT(60) DEF Weights, Without, Byte
  <1>7. CASE w = 64
    BY <1>7, SMTT(60) DEF Weights, Without, Byte
  <1>8. CASE w = 128
    BY <1>8, SMTT(60) DEF Weights, Without, Byte
  <1> QED
    BY <1>1, <1>2, <1>3, <1>4, <1>5, <1>6, <1>7, <1>8 DEF Weights
-----------------------------------------------------------------------------
Union72 == [Bytes72 -> Byte]
Pulse(m, i) == IF m[i] <= 10 THEN 1 ELSE 0

(* After n rounds over the pulses of m the union is u: the first n pulses  *)
(* are bits, and a byte is as it was until the first of its own bits is    *)
(* decoded.  Byte n of the pulses is read in round n, before its round     *)
(* 8 * n: no pulse is lost to the bits that are written over it.           *)
Decoded(m, u, n) ==
    /\ u \in Union72
    /\ \A j \in Bytes72 : 8 * j >= n => u[j] = m[j]
    /\ \A i \in Bytes72 : i < n => Bit(u, i) = Pulse(m, i)

LEMMA DecodeRound ==
    ASSUME NEW m \in Union72, NEW u, NEW n \in Bytes72, Decoded(m, u, n)
    PROVE  Decoded(m, DecodeBit(u, n), n + 1)
  <1> DEFINE w    == 2^(n % 8)
             byte == u[n \div 8]
             new  == IF u[n] <= 10 THEN Without(byte, w) + w ELSE Without(byte, w)
  <1>1. /\ n \in Nat /\ n <= 71 /\ n \div 8 \in Bytes72 /\ 8 * (n \div 8) <= n
    BY DEF Bytes72
  <1>2. u \in Union72 /\ byte \in Byte /\ w \in Weights
    BY <1>1, BitWeight DEF Decoded, Union72
  <1>3. u[n] = m[n]
    BY <1>1 DEF Decoded
  <1>4. DecodeBit(u, n) = [u EXCEPT ![n \div 8] = new]
    BY DEF DecodeBit, Without
  <1> HIDE DEF w, byte
  <1>5. new \in Byte
    BY <1>2, OwnBit
  <1>6. (new \div w) % 2 = Pulse(m, n)
    BY <1>2, <1>3, OwnBit DEF Pulse
  <1>7. ASSUME NEW v \in Weights, v # w
        PROVE  (new \div v) % 2 = (byte \div v) % 2
    BY <1>2, <1>7, OtherBits
  <1> DEFINE x == DecodeBit(u, n)
  <1> HIDE DEF new, x
  <1>8. /\ x \in Union72 /\ x[n \div 8] = new
        /\ \A j \in Bytes72 : j # n \div 8 => x[j] = u[j]
    BY <1>1, <1>2, <1>4, <1>5 DEF Union72, x
  <1>9. ASSUME NEW j \in Bytes72, 8 * j >= n + 1
        PROVE  x[j] = m[j]
    <2>1. j # n \div 8 /\ 8 * j >= n
      BY <1>1, <1>9 DEF Bytes72
    <2> QED
      BY <1>8, <2>1 DEF Decoded
  <1>10. ASSUME NEW i \in Bytes72, i < n + 1
         PROVE  Bit(x, i) = Pulse(m, i)
    <2>1. i \in Nat /\ i \div 8 \in Bytes72
      BY DEF Bytes72
    <2>2. CASE i = n
      BY <1>6, <1>8, <2>2 DEF Bit, w
    <2>3. CASE i # n /\ i \div 8 = n \div 8
      <3>1. 2^(i % 8) # w /\ 2^(i % 8) \in Weights
        BY <1>1, <2>1, <2>3, BitWeight, BitWeights DEF w
      <3>2. Bit(x, i) = (new \div 2^(i % 8)) % 2
        BY <1>8, <2>3 DEF Bit
      <3>3. Bit(u, i) = (byte \div 2^(i % 8)) % 2
        BY <2>3 DEF Bit, byte
      <3>4. Bit(x, i) = Bit(u, i)
        BY <1>7, <3>1, <3>2, <3>3
      <3>5. i < n
        BY <1>1, <1>10, <2>1, <2>3
      <3> QED
        BY <3>4, <3>5 DEF Decoded
    <2>4. CASE i # n /\ i \div 8 # n \div 8
      <3>1. x[i \div 8] = u[i \div 8]
        BY <1>8, <2>1, <2>4
      <3>2. Bit(x, i) = Bit(u, i)
        BY <3>1 DEF Bit
      <3>3. i < n
        BY <1>1, <1>10, <2>1, <2>4
      <3> QED
        BY <3>2, <3>3 DEF Decoded
    <2> QED
      BY <2>2, <2>3, <2>4
  <1> QED
    BY <1>8, <1>9, <1>10 DEF Decoded, x

(* The rounds of the decoder, as a function; there is one for any number   *)
(* of them, so the recursive definition of DecodeScratchpad defines one.   *)
Rounds(m, k, d) ==
    d = [n \in 0..k |-> IF n = 0 THEN m ELSE DecodeBit(d[n - 1], n - 1)]

LEMMA RoundsExist ==
    ASSUME NEW m
    PROVE  \A k \in Nat : \E d : Rounds(m, k, d)
  <1> DEFINE T == {k \in Nat : \E d : Rounds(m, k, d)}
  <1>1. 0 \in T
    <2> DEFINE d == [n \in 0..0 |-> m]
    <2>1. Rounds(m, 0, d)
      BY DEF Rounds
    <2> QED
      BY <2>1
  <1>2. ASSUME NEW k \in Nat, k \in T
        PROVE  k + 1 \in T
    <2>1. PICK d : Rounds(m, k, d)
      BY <1>2
    <2> DEFINE e == [n \in 0..(k + 1) |-> IF n = k + 1 THEN DecodeBit(d[k], k) ELSE d[n]]
    <2>2. d = [n \in 0..k |-> IF n = 0 THEN m ELSE DecodeBit(d[n - 1], n - 1)]
      BY <2>1 DEF Rounds
    <2>3. ASSUME NEW n \in 0..(k + 1)
          PROVE  e[n] = IF n = 0 THEN m ELSE DecodeBit(e[n - 1], n - 1)
      <3>1. CASE n = k + 1
        <4>1. n # 0 /\ n - 1 = k /\ k \in 0..(k + 1) /\ k # k + 1
          BY <3>1
        <4>2. e[n] = DecodeBit(d[k], k) /\ e[n - 1] = d[k]
          BY <3>1, <4>1
        <4> HIDE DEF e
        <4> QED
          BY <4>1, <4>2
      <3>2. CASE n # k + 1
        <4>1. n \in 0..k
          BY <3>2
        <4>2. e[n] = d[n]
          BY <3>2
        <4>3. d[n] = IF n = 0 THEN m ELSE DecodeBit(d[n - 1], n - 1)
          BY <2>2, <4>1
        <4>4. n # 0 => e[n - 1] = d[n - 1]
          BY <4>1
        <4> HIDE DEF e
        <4> QED
          BY <4>2, <4>3, <4>4
      <3> QED
        BY <3>1, <3>2
    <2>4. Rounds(m, k + 1, e)
      <3>1. DOMAIN e = 0..(k + 1) /\ e = [n \in 0..(k + 1) |-> e[n]]
        OBVIOUS
      <3> HIDE DEF e
      <3> QED
        BY <2>3, <3>1 DEF Rounds
    <2> HIDE DEF e
    <2> QED
      BY <2>4
  <1>3. \A k \in Nat : k \in T
    <2> HIDE DEF T
    <2> QED
      BY <1>1, <1>2, SetInduction
  <1> QED
    BY <1>3

(* Every pulse that decode_scratchpad() finds in the union ends as its own *)
(* bit of the scratchpad, though the bits are written over the pulses:     *)
(* whatever the 72 bytes hold, none is lost and none is taken for another. *)
THEOREM DecodedInPlace ==
    ASSUME NEW m \in Union72
    PROVE  Decoded(m, DecodeScratchpad(m), 72)
  <1>1. PICK d : Rounds(m, 72, d)
    BY RoundsExist
  <1> DEFINE c == CHOOSE f : Rounds(m, 72, f)
  <1>2. Rounds(m, 72, c)
    BY <1>1
  <1>3. DecodeScratchpad(m) = c[72]
    BY DEF DecodeScratchpad, Rounds
  <1> HIDE DEF c
  <1>4. c = [n \in 0..72 |-> IF n = 0 THEN m ELSE DecodeBit(c[n - 1], n - 1)]
    BY <1>2 DEF Rounds
  <1> DEFINE T == {n \in Nat : n <= 72 => Decoded(m, c[n], n)}
  <1>5. 0 \in T
    <2>1. c[0] = m
      BY <1>4
    <2>2. Decoded(m, m, 0)
      BY DEF Decoded, Bytes72
    <2> QED
      BY <2>1, <2>2
  <1>6. ASSUME NEW n \in Nat, n \in T
        PROVE  n + 1 \in T
    <2>1. SUFFICES ASSUME n + 1 <= 72 PROVE Decoded(m, c[n + 1], n + 1)
      OBVIOUS
    <2>2. n \in Bytes72 /\ n + 1 \in 0..72 /\ n + 1 # 0 /\ (n + 1) - 1 = n
      BY <2>1 DEF Bytes72
    <2>3. Decoded(m, c[n], n)
      BY <1>6, <2>1
    <2>4. c[n + 1] = DecodeBit(c[n], n)
      BY <1>4, <2>2
    <2> QED
      BY <2>2, <2>3, <2>4, DecodeRound
  <1>7. 72 \in T
    <2> HIDE DEF T
    <2> QED
      BY <1>5, <1>6, SetInduction
  <1> QED
    BY <1>3, <1>7
-----------------------------------------------------------------------------
(* A bit of cnt_per_c that every sensor sends as 1.  Its pulse is short in *)
(* every answer, before the first one, and between reads: nothing but a    *)
(* read writes the byte that captures it.                                  *)
CountBit == CHOOSE i \in CountBits : \A a \in Answers : a[i] = 1
CountAt == CountBit - 1
CountPulse == union[CountAt] <= 10
SensorInv == SensorType /\ CountPulse

LEMMA CountBitFacts ==
    CountBit \in CountBits /\ \A a \in Answers : a[CountBit] = 1
  BY CountAssumption, Zenon DEF CountBit

LEMMA CountBitIndex ==
    /\ CountAt \in Nat /\ 56 <= CountAt /\ CountAt <= 63 /\ CountAt \in Bytes72
    /\ CountAt + 1 = CountBit
  <1>1. CountBit \in 57..64
    BY CountBitFacts DEF CountBits
  <1> QED
    BY <1>1 DEF Bytes72, CountAt

(* A cast to a signed type is a value of that type.                        *)
LEMMA SignedRange ==
    ASSUME NEW x \in Int, NEW m \in Nat \ {0}
    PROVE  ToSigned(x, m) \in SignedValues(m) /\ ToSigned(x, m) \in Int
  <1> DEFINE half == m \div 2
             rest == (x + half) % m
  <1>1. half \in Int
    OBVIOUS
  <1>2. rest \in Int /\ 0 <= rest /\ rest < m
    BY <1>1
  <1>3. ToSigned(x, m) = rest - half
    BY DEF ToSigned
  <1>4. SignedValues(m) = (-half)..(m - half - 1)
    BY DEF SignedValues
  <1> HIDE DEF half, rest
  <1> QED
    BY <1>1, <1>2, <1>3, <1>4

LEMMA Int16Cast ==
    ASSUME NEW x \in Int
    PROVE  ToInt16(x) \in Int16 /\ ToInt16(x) \in Int
  <1>1. 65536 \in Nat \ {0}
    OBVIOUS
  <1> QED
    BY <1>1, SignedRange DEF Int16, ToInt16

LEMMA ZeroByte == 0 \in Byte
  BY DEF Byte

LEMMA ByteIsNatural == \A b \in Byte : b \in Nat
  BY DEF Byte

LEMMA ZeroInt16 == 0 \in Int16
  <1>1. 65536 \div 2 = 32768
    OBVIOUS
  <1> QED
    BY <1>1 DEF Int16, SignedValues

(* The temperature of a scratchpad fits its int16_t.                       *)
LEMMA TemperatureType ==
    ASSUME NEW m \in Union72, m[7] # 0
    PROVE  DecodeTemperature(m) \in Int16
  <1> DEFINE raw  == ToInt16(256 * m[1] + m[0])
             fine == TruncDiv((m[7] - m[6]) * 10, m[7])
  <1>1. /\ m[0] \in Nat /\ m[1] \in Nat /\ m[6] \in Nat /\ m[7] \in Nat \ {0}
    <2>1. m[0] \in Byte /\ m[1] \in Byte /\ m[6] \in Byte /\ m[7] \in Byte
      BY DEF Union72, Bytes72
    <2> QED
      BY <2>1, ByteIsNatural
  <1>2. raw \in Int
    <2>1. 256 * m[1] + m[0] \in Int
      BY <1>1
    <2> QED
      BY <2>1, Int16Cast
  <1>3. fine \in Int
    <2>1. (m[7] - m[6]) * 10 \in Int
      BY <1>1
    <2> QED
      BY <1>1, <2>1 DEF TruncDiv
  <1> HIDE DEF raw, fine
  <1>4. (raw \div 2) * 10 - 2 + fine \in Int /\ (raw * 10) \div 16 \in Int
    BY <1>2, <1>3
  <1>5. /\ ToInt16((raw \div 2) * 10 - 2 + fine) \in Int16
        /\ ToInt16((raw * 10) \div 16) \in Int16
    BY <1>4, Int16Cast
  <1>6. DecodeTemperature(m) =
          IF Family(m) = "DS18S20" THEN ToInt16((raw \div 2) * 10 - 2 + fine)
          ELSE ToInt16((raw * 10) \div 16)
    BY DEF DecodeTemperature, raw, fine
  <1> QED
    BY <1>5, <1>6

(* What decode_scratchpad() leaves: bytes, no new pulse at CountAt, and a *)
(* count that can be divided by.                                           *)
LEMMA DecodedCount ==
    ASSUME NEW m \in Union72, m[CountAt] <= 10
    PROVE  /\ DecodeScratchpad(m) \in Union72
           /\ DecodeScratchpad(m)[CountAt] <= 10
           /\ DecodeScratchpad(m)[7] # 0
  <1> DEFINE x == DecodeScratchpad(m)
  <1>1. Decoded(m, x, 72)
    BY DecodedInPlace
  <1> HIDE DEF x
  <1>2. /\ CountAt \in Bytes72 /\ CountAt < 72 /\ 8 * CountAt >= 72
        /\ CountAt \in Nat /\ CountAt \div 8 = 7
    BY CountBitIndex
  <1>3. x \in Union72 /\ x[CountAt] <= 10
    BY <1>1, <1>2 DEF Decoded
  <1>4. x[7] # 0
    <2>1. Bit(x, CountAt) = 1
      BY <1>1, <1>2 DEF Decoded, Pulse
    <2> DEFINE w == 2^(CountAt % 8)
    <2>2. w \in Weights
      BY <1>2, BitWeight
    <2>3. (x[7] \div w) % 2 = 1
      BY <1>2, <2>1 DEF Bit
    <2> HIDE DEF w
    <2>4. (0 \div w) % 2 = 0
      BY <2>2 DEF Weights
    <2> QED
      BY <2>3, <2>4
  <1> QED
    BY <1>3, <1>4 DEF x

LEMMA PutEdgeBytes ==
    ASSUME NEW m \in Union72, NEW t \in Nat
    PROVE  /\ PutEdge(m, 0, t) \in Union72 /\ PutEdge(m, 0, t)[CountAt] = m[CountAt]
           /\ PutEdge(m, 1, t) \in Union72 /\ PutEdge(m, 1, t)[CountAt] = m[CountAt]
  <1>1. t % 256 \in Byte /\ (t \div 256) % 256 \in Byte
    BY DEF Byte
  <1>2. CountAt \in Bytes72 /\ CountAt \notin {0, 1, 2, 3}
    BY CountBitIndex
  <1>3. PutEdge(m, 0, t) \in Union72 /\ PutEdge(m, 1, t) \in Union72
    BY <1>1 DEF PutEdge, Union72
  <1>4. /\ PutEdge(m, 0, t)[CountAt] = m[CountAt]
        /\ PutEdge(m, 1, t)[CountAt] = m[CountAt]
    BY <1>2 DEF PutEdge
  <1> QED
    BY <1>3, <1>4

(* The captures write bytes, and not the one at CountAt.                  *)
LEMMA CapturedBytes ==
    ASSUME NEW es \in Edges, NEW m \in Union72
    PROVE  Captured(m, es) \in Union72 /\ Captured(m, es)[CountAt] = m[CountAt]
  <1>3. /\ es \in Seq(Nat) /\ Len(es) \in Nat /\ Len(es) <= 2
        /\ \A i \in 1..Len(es) : es[i] \in Nat
    BY SensorAssumption
  <1>4. CASE Len(es) = 0
    BY <1>4 DEF Captured
  <1>5. CASE Len(es) = 1
    <2>1. Captured(m, es) = PutEdge(m, 0, es[1])
      BY <1>5 DEF Captured
    <2>2. es[1] \in Nat
      BY <1>3, <1>5
    <2> QED
      BY <2>1, <2>2, PutEdgeBytes
  <1>6. CASE Len(es) \notin {0, 1}
    <2>1. Captured(m, es) = PutEdge(PutEdge(m, 0, es[1]), 1, es[2])
      BY <1>6 DEF Captured
    <2>2. es[1] \in Nat /\ es[2] \in Nat
      <3>1. \A n \in Nat : n <= 2 => n = 0 \/ n = 1 \/ n = 2
        OBVIOUS
      <3>2. Len(es) = 2
        BY <1>3, <1>6, <3>1, Zenon
      <3> QED
        BY <1>3, <3>2
    <2>3. /\ PutEdge(m, 0, es[1]) \in Union72
          /\ PutEdge(m, 0, es[1])[CountAt] = m[CountAt]
      BY <2>2, PutEdgeBytes
    <2>4. /\ PutEdge(PutEdge(m, 0, es[1]), 1, es[2]) \in Union72
          /\ PutEdge(PutEdge(m, 0, es[1]), 1, es[2])[CountAt]
               = PutEdge(m, 0, es[1])[CountAt]
      BY <2>2, <2>3, PutEdgeBytes
    <2> QED
      BY <2>1, <2>3, <2>4
  <1> QED
    BY <1>4, <1>5, <1>6

LEMMA ReadBytes ==
    ASSUME NEW answer \in Answers, NEW bits \in 0..72, NEW idles \in BOOLEAN,
           SensorInv, ReadEnds(answer, bits, idles)
    PROVE  SensorInv'
  <1> DEFINE read(i) == IF i < bits THEN Width(answer[i + 1])
                        ELSE IF idles THEN Width(1) ELSE union[i]
  <1>1. CountAt \in Bytes72 /\ answer[CountAt + 1] = 1
    BY CountBitFacts, CountBitIndex, Zenon
  <1>2. union \in Union72 /\ union[CountAt] <= 10
    BY DEF SensorInv, SensorType, CountPulse, Union72
  <1>3. union' = [i \in Bytes72 |-> read(i)]
    BY DEF ReadEnds
  <1>4. ASSUME NEW i \in Bytes72
        PROVE  read(i) \in Byte
    <2>1. 5 \in Byte /\ 30 \in Byte
      BY DEF Byte
    <2> QED
      BY <1>2, <2>1 DEF Width, Union72
  <1>5. read(CountAt) <= 10
    BY <1>1, <1>2 DEF Width
  <1> HIDE DEF read
  <1>6. union' \in [Bytes72 -> Byte] /\ union'[CountAt] <= 10
    BY <1>1, <1>3, <1>4, <1>5
  <1>7. /\ running' = "none" /\ uif' = TRUE
        /\ fsm' = fsm /\ family' = family /\ report' = report /\ led' = led
    BY DEF ReadEnds, Ends
  <1> QED
    BY <1>6, <1>7 DEF SensorInv, SensorType, CountPulse

LEMMA SensorNext == SensorInv /\ [HNext]_hvars => SensorInv'
  <1> SUFFICES ASSUME SensorInv, [HNext]_hvars PROVE SensorInv'
    OBVIOUS
  <1> USE DEF SensorInv, SensorType, CountPulse
  <1>1. CountAt \in Bytes72 /\ 56 <= CountAt /\ CountAt \in Nat
    BY CountBitIndex
  <1>2. CASE Start
    <2>1. FillUnion(union) \in [Bytes72 -> Byte] /\ FillUnion(union)[CountAt] <= 10
      <3>1. 255 \in Byte
        BY DEF Byte
      <3> QED
        BY <1>1, <3>1 DEF FillUnion
    <2> QED
      BY <1>2, <2>1 DEF Start, Row
  <1>3. CASE ConvertOk \/ Wait \/ Continue \/ RequestOk \/ Read
    BY <1>3 DEF ConvertOk, Wait, Continue, RequestOk, Read, Row
  <1>4. CASE ConvertFail \/ RequestFail
    <2>1. /\ fsm' = "IDLE" /\ uif' = FALSE /\ report' = Failed("no sensor")
          /\ union' = union /\ family' = family /\ led' = led
      BY <1>4 DEF ConvertFail, RequestFail, Row
    <2>2. report'.tenths \in Int16
      <3> HIDE DEF SensorInv
      <3> QED
        BY <2>1, ZeroInt16 DEF Failed
    <2> QED
      BY <2>1, <2>2
  <1>5. CASE Decode
    <2> DEFINE x == DecodeScratchpad(union)
    <2>1. x \in Union72 /\ x[CountAt] <= 10 /\ x[7] # 0
      BY DecodedCount DEF Union72
    <2>2. DecodeTemperature(x) \in Int16
      BY <2>1, TemperatureType
    <2>3. /\ fsm' = "IDLE" /\ uif' = FALSE /\ union' = x /\ family' = Family(x)
          /\ led' = FALSE
          /\ report' = IF ValidScratchpad(x)
                       THEN Measured(DecodeTemperature(x)) ELSE Failed("crc")
      BY <1>5 DEF Decode, Row
    <2> HIDE DEF x
    <2>4. report'.tenths \in Int16
      BY <2>2, <2>3, ZeroInt16 DEF Measured, Failed
    <2>5. Family(x) \in {"DS18S20", "DS18B20"}
      BY DEF Family
    <2> QED
      BY <2>1, <2>3, <2>4, <2>5 DEF Union72
  <1>6. CASE HTimer
    BY <1>6 DEF HTimer, TimerEnds, Ends
  <1>7. ASSUME NEW es \in Edges, HReset(es) PROVE SensorInv'
    <2>1. Captured(union, es) \in [Bytes72 -> Byte] /\ Captured(union, es)[CountAt] <= 10
      BY CapturedBytes DEF Union72
    <2> QED
      BY <1>7, <2>1 DEF HReset, ResetEnds, Ends
  <1>8. ASSUME NEW r \in Readings, NEW bits \in 0..72, NEW idles \in BOOLEAN,
               ReadEnds(AnswerTo[r], bits, idles)
        PROVE  SensorInv'
    <2>1. AnswerTo[r] \in Answers
      BY ReadingsAssumption DEF AnswerTo
    <2> QED
      BY <1>8, <2>1, ReadBytes
  <1>9. CASE \E r \in Readings : HRead(r)
    <2>1. PICK r \in Readings : ReadEnds(AnswerTo[r], 72, TRUE)
      BY <1>9 DEF HRead
    <2>2. 72 \in 0..72
      OBVIOUS
    <2> HIDE DEF SensorInv
    <2> QED
      BY <1>8, <2>1, <2>2
  <1>10. CASE \E r \in Readings, k \in Cuts : HCut(r, k)
    <2>1. \A k \in Cuts : k \in 0..72
      BY SensorAssumption
    <2> QED
      BY <1>8, <1>10, <2>1 DEF HCut
  <1>11. CASE \E r \in Readings, k \in Stalls : HStall(r, k)
    <2>1. \A k \in Stalls : k \in 0..72
      BY SensorAssumption
    <2> QED
      BY <1>8, <1>11, <2>1 DEF HStall
  <1>12. CASE UNCHANGED hvars
    BY <1>12 DEF hvars, dvars
  <1> QED
    BY <1>2, <1>3, <1>4, <1>5, <1>6, <1>7, <1>9, <1>10, <1>11, <1>12
       DEF HNext, HPoll, HHardware, Poll

LEMMA SensorInit == HInit => SensorInv
  <1>1. CountAt \in Bytes72
    BY CountBitIndex
  <1>2. SUFFICES ASSUME HInit PROVE SensorInv
    OBVIOUS
  <1>3. /\ fsm = "IDLE" /\ family = "DS18B20" /\ uif = TRUE
        /\ running = "none" /\ led = FALSE
        /\ report = None /\ union = [i \in Bytes72 |-> 0]
    BY <1>2 DEF HInit, DInit
  <1>4. report.tenths \in Int16
    BY <1>3, ZeroInt16 DEF None
  <1>5. union \in [Bytes72 -> Byte] /\ union[CountAt] <= 10
    BY <1>1, <1>3, ZeroByte
  <1> QED
    BY <1>3, <1>4, <1>5 DEF SensorInv, SensorType, CountPulse

(* The bytes of the union stay bytes and the temperature an int16_t, with  *)
(* any sensors, edges, cuts and stalls: the decoder never divides by 0,    *)
(* because no history of reads loses the bit of cnt_per_c that all sensors *)
(* send.                                                                   *)
THEOREM SensorTypeInvariance == HSpec => []SensorType
  <1>1. SensorInv => SensorType
    BY DEF SensorInv
  <1> QED
    BY <1>1, SensorInit, SensorNext, PTL DEF HSpec
-----------------------------------------------------------------------------
(* The k-th bit of a byte, the lowest first.                               *)
Reg(c, k) == (c \div 2^(k - 1)) % 2
Xor(a, b) == IF a = b THEN 0 ELSE 1

(* The bits of a byte without powers.                                      *)
LEMMA RegBits ==
    ASSUME NEW c
    PROVE  /\ Reg(c, 1) = (c \div 1) % 2  /\ Reg(c, 2) = (c \div 2) % 2
           /\ Reg(c, 3) = (c \div 4) % 2  /\ Reg(c, 4) = (c \div 8) % 2
           /\ Reg(c, 5) = (c \div 16) % 2 /\ Reg(c, 6) = (c \div 32) % 2
           /\ Reg(c, 7) = (c \div 64) % 2 /\ Reg(c, 8) = (c \div 128) % 2
  <1>1. /\ 2^(1 - 1) = 1 /\ 2^(2 - 1) = 2 /\ 2^(3 - 1) = 4 /\ 2^(4 - 1) = 8
        /\ 2^(5 - 1) = 16 /\ 2^(6 - 1) = 32 /\ 2^(7 - 1) = 64 /\ 2^(8 - 1) = 128
    OBVIOUS
  <1> QED
    BY <1>1, Zenon DEF Reg

LEMMA OneOfEight ==
    ASSUME NEW k \in 1..8
    PROVE  k = 1 \/ k = 2 \/ k = 3 \/ k = 4 \/ k = 5 \/ k = 6 \/ k = 7 \/ k = 8
  OBVIOUS

LEMMA RegIsBit ==
    ASSUME NEW c \in Byte, NEW k \in 1..8
    PROVE  Reg(c, k) \in {0, 1}
  <1>1. \A w \in Weights : (c \div w) % 2 \in {0, 1}
    BY DEF Byte, Weights
  <1>2. \A w \in Weights : w = w
    OBVIOUS
  <1>3. \A x \in {1, 2, 4, 8, 16, 32, 64, 128} : (c \div x) % 2 \in {0, 1}
    BY <1>1 DEF Weights
  <1> QED
    BY <1>3, RegBits, OneOfEight

(* A byte is the sum of its bits: two bytes with the same bits are equal.  *)
LEMMA ByteOfBits ==
    ASSUME NEW c \in Byte, NEW d \in Byte, \A k \in 1..8 : Reg(c, k) = Reg(d, k)
    PROVE  c = d
  <1>1. /\ (c \div 1) % 2 = (d \div 1) % 2     /\ (c \div 2) % 2 = (d \div 2) % 2
        /\ (c \div 4) % 2 = (d \div 4) % 2     /\ (c \div 8) % 2 = (d \div 8) % 2
        /\ (c \div 16) % 2 = (d \div 16) % 2   /\ (c \div 32) % 2 = (d \div 32) % 2
        /\ (c \div 64) % 2 = (d \div 64) % 2   /\ (c \div 128) % 2 = (d \div 128) % 2
    BY RegBits
  <1>2. c \in Nat /\ d \in Nat /\ c \div 256 = 0 /\ d \div 256 = 0
    BY DEF Byte
  <1>3. c \div 128 = d \div 128
    BY <1>1, <1>2
  <1>4. c \div 64 = d \div 64
    BY <1>1, <1>2, <1>3
  <1>5. c \div 32 = d \div 32
    BY <1>1, <1>2, <1>4
  <1>6. c \div 16 = d \div 16
    BY <1>1, <1>2, <1>5
  <1>7. c \div 8 = d \div 8
    BY <1>1, <1>2, <1>6
  <1>8. c \div 4 = d \div 4
    BY <1>1, <1>2, <1>7
  <1>9. c \div 2 = d \div 2
    BY <1>1, <1>2, <1>8
  <1> QED
    BY <1>1, <1>2, <1>9

(* Shifting a byte moves its bits down.                                    *)
LEMMA ShiftBits ==
    ASSUME NEW c \in Byte
    PROVE  /\ c \div 2 \in Byte
           /\ \A k \in 1..7 : Reg(c \div 2, k) = Reg(c, k + 1)
           /\ Reg(c \div 2, 8) = 0
  <1> DEFINE s == c \div 2
  <1>1. c \in Nat /\ s \in Nat /\ s \div 128 = 0 /\ s \in Byte
    BY DEF Byte
  <1>2. /\ s \div 1 = c \div 2   /\ s \div 2 = c \div 4   /\ s \div 4 = c \div 8
        /\ s \div 8 = c \div 16  /\ s \div 16 = c \div 32 /\ s \div 32 = c \div 64
        /\ s \div 64 = c \div 128
    BY <1>1
  <1> HIDE DEF s
  <1>3. /\ Reg(s, 1) = Reg(c, 2) /\ Reg(s, 2) = Reg(c, 3) /\ Reg(s, 3) = Reg(c, 4)
        /\ Reg(s, 4) = Reg(c, 5) /\ Reg(s, 5) = Reg(c, 6) /\ Reg(s, 6) = Reg(c, 7)
        /\ Reg(s, 7) = Reg(c, 8)
    BY <1>2, RegBits
  <1>4. Reg(s, 8) = 0
    BY <1>1, RegBits
  <1>5. \A k \in 1..7 : k = 1 \/ k = 2 \/ k = 3 \/ k = 4 \/ k = 5 \/ k = 6 \/ k = 7
    OBVIOUS
  <1>6. ASSUME NEW k \in 1..7 PROVE Reg(s, k) = Reg(c, k + 1)
    BY <1>3, <1>5
  <1> QED
    BY <1>1, <1>4, <1>6 DEF s

(* Flipped() flips the bit of its weight and no other.                     *)
LEMMA FlipBit ==
    ASSUME NEW c \in Byte, NEW w \in Weights
    PROVE  /\ Flipped(c, w) \in Byte
           /\ (Flipped(c, w) \div w) % 2 = 1 - ((c \div w) % 2)
           /\ \A v \in Weights : v # w => (Flipped(c, w) \div v) % 2 = (c \div v) % 2
  <1>1. (c \div w) % 2 \in {0, 1} /\ c \in Nat /\ w \in Nat
    BY DEF Byte, Weights
  <1>2. CASE (c \div w) % 2 = 0
    <2>1. Flipped(c, w) = Without(c, w) + w
      BY <1>1, <1>2 DEF Flipped, Without
    <2>2. ((Without(c, w) + w) \div w) % 2 = 1
      BY OwnBit
    <2> QED
      BY <1>2, <2>1, <2>2, OwnBit, OtherBits
  <1>3. CASE (c \div w) % 2 = 1
    <2>1. Flipped(c, w) = Without(c, w)
      BY <1>1, <1>3 DEF Flipped, Without
    <2> QED
      BY <1>3, <2>1, OwnBit, OtherBits
  <1> QED
    BY <1>1, <1>2, <1>3

(* The weight of the k-th bit.                                             *)
LEMMA RegWeight ==
    ASSUME NEW k \in 1..8
    PROVE  2^(k - 1) \in Weights
  <1>1. k - 1 \in Nat /\ (k - 1) % 8 = k - 1
    OBVIOUS
  <1>2. 2^((k - 1) % 8) \in Weights
    BY <1>1, BitWeight
  <1> QED
    BY <1>1, <1>2

(* The same of the numbers of the bits.                                    *)
LEMMA FlipReg ==
    ASSUME NEW c \in Byte, NEW k \in 1..8, NEW w, w = 2^(k - 1)
    PROVE  /\ Flipped(c, w) \in Byte
           /\ \A j \in 1..8 : Reg(Flipped(c, w), j)
                                = IF j = k THEN 1 - Reg(c, k) ELSE Reg(c, j)
  <1> DEFINE f == Flipped(c, w)
  <1>1. w \in Weights
    BY RegWeight
  <1>2. Reg(f, k) = (f \div w) % 2 /\ Reg(c, k) = (c \div w) % 2
    BY DEF Reg
  <1>3. f \in Byte
    BY <1>1, FlipBit
  <1>4. Reg(f, k) = 1 - Reg(c, k)
    BY <1>1, <1>2, FlipBit
  <1>5. ASSUME NEW j \in 1..8, j # k PROVE Reg(f, j) = Reg(c, j)
    <2> DEFINE v == 2^(j - 1)
    <2>1. v \in Weights
      BY RegWeight
    <2>2. v # w
      <3>1. j - 1 \in Nat /\ k - 1 \in Nat /\ (j - 1) \div 8 = (k - 1) \div 8 /\ j - 1 # k - 1
        BY <1>5
      <3>2. (j - 1) % 8 = j - 1 /\ (k - 1) % 8 = k - 1
        OBVIOUS
      <3>3. 2^((j - 1) % 8) # 2^((k - 1) % 8)
        BY <3>1, BitWeights
      <3> QED
        BY <3>2, <3>3
    <2>3. Reg(f, j) = (f \div v) % 2 /\ Reg(c, j) = (c \div v) % 2
      BY DEF Reg
    <2> HIDE DEF v, f
    <2>4. (f \div v) % 2 = (c \div v) % 2
      BY <1>1, <2>1, <2>2, FlipBit DEF f
    <2> QED
      BY <2>3, <2>4
  <1> QED
    BY <1>3, <1>4, <1>5
-----------------------------------------------------------------------------
(* What a round of the CRC makes of the bits of its register: they move    *)
(* down, and unless the lowest was the bit of the message three change.    *)
Up(c, k) == IF k < 8 THEN Reg(c, k + 1) ELSE 0

LEMMA CrcBits ==
    ASSUME NEW c \in Byte, NEW b \in {0, 1}
    PROVE  /\ CrcBit(c, b) \in Byte
           /\ \A k \in 1..8 : Reg(CrcBit(c, b), k) =
                IF Reg(c, 1) = b \/ k \notin {3, 4, 8} THEN Up(c, k) ELSE 1 - Up(c, k)
  <1> DEFINE s == c \div 2
  <1>1. c % 2 = Reg(c, 1)
    <2>1. Reg(c, 1) = (c \div 1) % 2 /\ c \in Nat
      BY RegBits, ByteIsNatural
    <2> QED
      BY <2>1
  <1>2. s \in Byte /\ \A k \in 1..8 : Reg(s, k) = Up(c, k)
    <2>1. \A k \in 1..8 : (k \in 1..7 /\ k < 8) \/ k = 8
      OBVIOUS
    <2> QED
      BY <2>1, ShiftBits DEF Up
  <1> HIDE DEF s
  <1>3. CASE Reg(c, 1) = b
    <2>1. CrcBit(c, b) = s
      BY <1>1, <1>3 DEF CrcBit, s
    <2> QED
      BY <1>2, <1>3, <2>1
  <1>4. CASE Reg(c, 1) # b
    <2> DEFINE x == Flipped(s, 128)
               y == Flipped(x, 8)
               z == Flipped(y, 4)
    <2>1. CrcBit(c, b) = z
      BY <1>1, <1>4 DEF CrcBit, s
    <2>2. 128 = 2^(8 - 1) /\ 8 = 2^(4 - 1) /\ 4 = 2^(3 - 1)
      OBVIOUS
    <2>3. 8 \in 1..8 /\ 4 \in 1..8 /\ 3 \in 1..8
      OBVIOUS
    <2>4. x \in Byte /\ \A j \in 1..8 : Reg(x, j) = IF j = 8 THEN 1 - Reg(s, 8) ELSE Reg(s, j)
      BY <1>2, <2>2, <2>3, FlipReg
    <2> HIDE DEF x
    <2>5. y \in Byte /\ \A j \in 1..8 : Reg(y, j) = IF j = 4 THEN 1 - Reg(x, 4) ELSE Reg(x, j)
      BY <2>4, <2>2, <2>3, FlipReg
    <2> HIDE DEF y
    <2>6. z \in Byte /\ \A j \in 1..8 : Reg(z, j) = IF j = 3 THEN 1 - Reg(y, 3) ELSE Reg(y, j)
      BY <2>5, <2>2, <2>3, FlipReg
    <2> HIDE DEF z
    <2>7. ASSUME NEW k \in 1..8
          PROVE  Reg(z, k) = IF k \notin {3, 4, 8} THEN Up(c, k) ELSE 1 - Up(c, k)
      BY <1>2, <2>3, <2>4, <2>5, <2>6
    <2> QED
      BY <1>4, <2>1, <2>6, <2>7
  <1> QED
    BY <1>3, <1>4

Bits72 == [1..72 -> {0, 1}]

(* A round of the division subtracts the polynomial, or nothing.           *)
LEMMA DivideBits ==
    ASSUME NEW v \in Bits72, NEW i \in 1..64
    PROVE  /\ Divide(v, i) \in Bits72
           /\ \A j \in 1..72 : j > i + 8 => Divide(v, i)[j] = v[j]
           /\ \A k \in 1..8 : Divide(v, i)[i + k] =
                IF v[i] = 0 \/ k \notin {3, 4, 8} THEN v[i + k] ELSE 1 - v[i + k]
  <1> DEFINE w == Divide(v, i)
  <1>0. i \in Nat /\ i \in 1..72 /\ \A k \in 1..8 : i + k \in 1..72 /\ i + k # i
    OBVIOUS
  <1>1. CASE v[i] = 0
    BY <1>0, <1>1 DEF Divide, Bits72
  <1>2. CASE v[i] # 0
    <2>1. w = [v EXCEPT ![i] = 0, ![i + 3] = 1 - @, ![i + 4] = 1 - @, ![i + 8] = 1 - @]
      BY <1>2 DEF Divide
    <2>2. \A j \in 1..72 : v[j] \in {0, 1} /\ 1 - v[j] \in {0, 1}
      BY DEF Bits72
    <2>3. /\ i + 3 \in 1..72 /\ i + 4 \in 1..72 /\ i + 8 \in 1..72
          /\ i # i + 3 /\ i # i + 4 /\ i # i + 8
          /\ i + 3 # i + 4 /\ i + 3 # i + 8 /\ i + 4 # i + 8
      BY <1>0
    <2> HIDE DEF w
    <2>4. /\ w[i + 3] = 1 - v[i + 3] /\ w[i + 4] = 1 - v[i + 4] /\ w[i + 8] = 1 - v[i + 8]
          /\ w[i] = 0
          /\ \A j \in 1..72 : j \notin {i, i + 3, i + 4, i + 8} => w[j] = v[j]
          /\ w = [j \in 1..72 |-> w[j]]
      BY <1>0, <2>1, <2>3 DEF Bits72
    <2>5. \A j \in 1..72 : w[j] \in {0, 1}
      BY <2>2, <2>3, <2>4
    <2>6. w \in Bits72
      BY <2>4, <2>5 DEF Bits72
    <2>7. \A j \in 1..72 : j > i + 8 => j \notin {i, i + 3, i + 4, i + 8}
      BY <1>0
    <2>8. \A k \in 1..8 : k \notin {3, 4, 8} => i + k \notin {i, i + 3, i + 4, i + 8}
      BY <1>0
    <2>9. ASSUME NEW k \in 1..8
          PROVE  w[i + k] = IF k \notin {3, 4, 8} THEN v[i + k] ELSE 1 - v[i + k]
      <3>1. CASE k \in {3, 4, 8}
        BY <2>4, <3>1
      <3>2. CASE k \notin {3, 4, 8}
        BY <1>0, <2>4, <2>8, <3>2
      <3> QED
        BY <3>1, <3>2
    <2> QED
      BY <1>2, <2>4, <2>6, <2>7, <2>9 DEF w
  <1> QED
    BY <1>1, <1>2

(* After n bits of the message, the register and what is left of the       *)
(* message in a division agree: the division has added the register to     *)
(* the next eight bits, and has not touched those behind them.             *)
Agree(bits, v, c, n) ==
    /\ c \in Byte /\ v \in Bits72
    /\ \A k \in 1..8 : v[n + k] = Xor(bits[n + k], Reg(c, k))
    /\ \A j \in 1..72 : j > n + 8 => v[j] = bits[j]

LEMMA CrcRound ==
    ASSUME NEW bits \in Bits72, NEW v, NEW c, NEW n \in 0..63, Agree(bits, v, c, n)
    PROVE  Agree(bits, Divide(v, n + 1), CrcBit(c, bits[n + 1]), n + 1)
  <1> DEFINE i == n + 1
             w == Divide(v, i)
             d == CrcBit(c, bits[i])
  <1>1. /\ n \in Nat /\ i \in Nat /\ i = n + 1 /\ i \in 1..64 /\ i \in 1..72
        /\ \A k \in 1..8 : i + k \in 1..72 /\ i + k # i
    OBVIOUS
  <1>2. c \in Byte /\ v \in Bits72 /\ bits[i] \in {0, 1}
    BY <1>1 DEF Agree, Bits72
  <1>3. /\ d \in Byte
        /\ \A k \in 1..8 : Reg(d, k) =
             IF Reg(c, 1) = bits[i] \/ k \notin {3, 4, 8} THEN Up(c, k) ELSE 1 - Up(c, k)
    BY <1>2, CrcBits
  <1>4. v[i] = 0 <=> Reg(c, 1) = bits[i]
    <2>1. v[n + 1] = Xor(bits[n + 1], Reg(c, 1))
      BY DEF Agree
    <2> QED
      BY <2>1 DEF Xor
  <1>5. ASSUME NEW k \in 1..8
        PROVE  v[i + k] = Xor(bits[i + k], Up(c, k)) /\ Up(c, k) \in {0, 1}
    <2>1. CASE k = 8
      <3>1. i + k \in 1..72 /\ i + k > n + 8
        BY <1>1, <2>1
      <3>2. v[i + k] = bits[i + k] /\ bits[i + k] \in {0, 1}
        BY <3>1 DEF Agree, Bits72
      <3> QED
        BY <2>1, <3>2 DEF Xor, Up
    <2>2. CASE k < 8
      <3>1. k + 1 \in 1..8 /\ n + (k + 1) = i + k
        BY <1>1, <2>2
      <3>2. v[n + (k + 1)] = Xor(bits[n + (k + 1)], Reg(c, k + 1))
        BY <3>1 DEF Agree
      <3> QED
        BY <1>2, <2>2, <3>1, <3>2, RegIsBit DEF Up
    <2> QED
      BY <2>1, <2>2
  <1>6. /\ w \in Bits72
        /\ \A j \in 1..72 : j > i + 8 => w[j] = v[j]
        /\ \A k \in 1..8 : w[i + k] =
             IF v[i] = 0 \/ k \notin {3, 4, 8} THEN v[i + k] ELSE 1 - v[i + k]
    BY <1>1, <1>2, DivideBits
  <1> HIDE DEF w, d
  <1>7. ASSUME NEW k \in 1..8
        PROVE  w[i + k] = Xor(bits[i + k], Reg(d, k))
    <2>1. bits[i + k] \in {0, 1}
      BY <1>1 DEF Bits72
    <2>2. w[i + k] = IF v[i] = 0 \/ k \notin {3, 4, 8} THEN v[i + k] ELSE 1 - v[i + k]
      BY <1>6
    <2>3. Reg(d, k) = IF v[i] = 0 \/ k \notin {3, 4, 8} THEN Up(c, k) ELSE 1 - Up(c, k)
      BY <1>3, <1>4
    <2>4. v[i + k] = Xor(bits[i + k], Up(c, k)) /\ Up(c, k) \in {0, 1}
      BY <1>5
    <2> HIDE DEF i
    <2> QED
      BY <2>1, <2>2, <2>3, <2>4 DEF Xor
  <1>8. ASSUME NEW j \in 1..72, j > i + 8
        PROVE  w[j] = bits[j]
    <2>1. j > n + 8
      BY <1>1, <1>8
    <2> QED
      BY <1>6, <1>8, <2>1 DEF Agree
  <1> QED
    BY <1>3, <1>6, <1>7, <1>8 DEF Agree, w, d

(* A function that is defined by recursion over a number of rounds exists. *)
Iterates(S, b, K, F, d) ==
    /\ d \in [0..K -> S] /\ d[0] = b
    /\ \A n \in 1..K : d[n] = F[<<d[n - 1], n>>]

LEMMA IteratesExist ==
    ASSUME NEW S, NEW b \in S, NEW F \in [S \X Nat -> S]
    PROVE  \A K \in Nat : \E d : Iterates(S, b, K, F, d)
  <1> DEFINE T == {k \in Nat : \E d : Iterates(S, b, k, F, d)}
  <1>1. 0 \in T
    <2> DEFINE d == [n \in 0..0 |-> b]
    <2>1. Iterates(S, b, 0, F, d)
      BY DEF Iterates
    <2> QED
      BY <2>1
  <1>2. ASSUME NEW k \in Nat, k \in T
        PROVE  k + 1 \in T
    <2>1. PICK d : Iterates(S, b, k, F, d)
      BY <1>2
    <2> DEFINE next == F[<<d[k], k + 1>>]
               e == [n \in 0..(k + 1) |-> IF n = k + 1 THEN next ELSE d[n]]
    <2>2. /\ d \in [0..k -> S] /\ d[0] = b /\ k \in 0..k
          /\ \A n \in 1..k : d[n] = F[<<d[n - 1], n>>]
      BY <2>1 DEF Iterates
    <2>3. next \in S
      BY <2>2
    <2>4. e \in [0..(k + 1) -> S] /\ e[0] = b
      <3> HIDE DEF next
      <3> QED
        BY <2>2, <2>3
    <2>5. ASSUME NEW n \in 1..(k + 1)
          PROVE  e[n] = F[<<e[n - 1], n>>]
      <3>1. CASE n = k + 1
        <4>1. n \in 0..(k + 1) /\ n - 1 = k /\ k \in 0..(k + 1) /\ k # k + 1
          BY <3>1
        <4>2. e[n] = next /\ e[n - 1] = d[k]
          BY <3>1, <4>1
        <4> HIDE DEF e
        <4> QED
          BY <3>1, <4>2
      <3>2. CASE n # k + 1
        <4>1. /\ n \in 1..k /\ n \in 0..(k + 1)
              /\ n - 1 \in 0..(k + 1) /\ n - 1 # k + 1
          BY <3>2
        <4>2. e[n] = d[n] /\ e[n - 1] = d[n - 1]
          BY <3>2, <4>1
        <4> HIDE DEF e
        <4> QED
          BY <2>2, <4>1, <4>2
      <3> QED
        BY <3>1, <3>2
    <2> HIDE DEF e
    <2>6. Iterates(S, b, k + 1, F, e)
      BY <2>4, <2>5 DEF Iterates
    <2> QED
      BY <2>6
  <1>3. \A k \in Nat : k \in T
    <2> HIDE DEF T
    <2> QED
      BY <1>1, <1>2, SetInduction
  <1> QED
    BY <1>3

(* The rounds of the CRC over the bits of m, and of the division.          *)
Registers(m, c) ==
    c = [n \in 0..64 |-> IF n = 0 THEN 0 ELSE CrcBit(c[n - 1], Bit(m, n - 1))]
Remainders(bits, v) ==
    v = [i \in 0..64 |-> IF i = 0 THEN bits ELSE Divide(v[i - 1], i)]

LEMMA BitIsBit ==
    ASSUME NEW m \in Union72, NEW n \in Bytes72
    PROVE  Bit(m, n) \in {0, 1}
  <1> DEFINE w == 2^(n % 8)
  <1>1. n \in Nat /\ n \div 8 \in Bytes72
    BY DEF Bytes72
  <1>2. m[n \div 8] \in Byte /\ w \in Weights
    BY <1>1, BitWeight DEF Union72
  <1>3. Bit(m, n) = (m[n \div 8] \div w) % 2
    BY DEF Bit
  <1> HIDE DEF w
  <1>4. \A v \in Weights, b \in Byte : (b \div v) % 2 \in {0, 1}
    BY DEF Weights, Byte
  <1> QED
    BY <1>2, <1>3, <1>4

LEMMA RegistersExist ==
    ASSUME NEW m \in Union72
    PROVE  \E c : Registers(m, c)
  <1> DEFINE bit(n) == IF n \in 1..64 THEN Bit(m, n - 1) ELSE 0
             F == [p \in Byte \X Nat |-> CrcBit(p[1], bit(p[2]))]
  <1>1. ASSUME NEW n \in Nat PROVE bit(n) \in {0, 1}
    <2>1. n \in 1..64 => n - 1 \in Bytes72
      BY DEF Bytes72
    <2> QED
      BY <2>1, BitIsBit
  <1> HIDE DEF bit
  <1>2. F \in [Byte \X Nat -> Byte]
    BY <1>1, CrcBits
  <1>3. PICK c : Iterates(Byte, 0, 64, F, c)
    <2>1. 0 \in Byte /\ 64 \in Nat
      BY ZeroByte
    <2> HIDE DEF F
    <2> QED
      BY <1>2, <2>1, IteratesExist
  <1>4. /\ c \in [0..64 -> Byte] /\ c[0] = 0
        /\ \A n \in 1..64 : c[n] = F[<<c[n - 1], n>>]
    <2> HIDE DEF F
    <2> QED
      BY <1>3 DEF Iterates
  <1>5. ASSUME NEW n \in 1..64 PROVE c[n] = CrcBit(c[n - 1], Bit(m, n - 1))
    <2>1. n - 1 \in 0..64 /\ n \in Nat /\ bit(n) = Bit(m, n - 1)
      BY DEF bit
    <2>2. c[n - 1] \in Byte
      BY <1>4, <2>1
    <2>3. F[<<c[n - 1], n>>] = CrcBit(c[n - 1], bit(n))
      BY <2>1, <2>2
    <2> HIDE DEF F
    <2> QED
      BY <1>4, <2>1, <2>3
  <1>6. ASSUME NEW n \in 0..64
        PROVE  c[n] = IF n = 0 THEN 0 ELSE CrcBit(c[n - 1], Bit(m, n - 1))
    <2>1. n # 0 => n \in 1..64
      OBVIOUS
    <2> QED
      BY <1>4, <1>5, <2>1
  <1> HIDE DEF F
  <1>7. Registers(m, c)
    BY <1>4, <1>6 DEF Registers
  <1> QED
    BY <1>7

LEMMA RemaindersExist ==
    ASSUME NEW bits \in Bits72
    PROVE  \E v : Remainders(bits, v)
  <1> DEFINE step(v, i) == IF i \in 1..64 THEN Divide(v, i) ELSE v
             F == [p \in Bits72 \X Nat |-> step(p[1], p[2])]
  <1>1. ASSUME NEW v \in Bits72, NEW i \in Nat PROVE step(v, i) \in Bits72
    BY DivideBits
  <1> HIDE DEF step
  <1>2. F \in [Bits72 \X Nat -> Bits72]
    BY <1>1
  <1>3. PICK v : Iterates(Bits72, bits, 64, F, v)
    <2>1. 64 \in Nat
      OBVIOUS
    <2> HIDE DEF F
    <2> QED
      BY <1>2, <2>1, IteratesExist
  <1>4. /\ v \in [0..64 -> Bits72] /\ v[0] = bits
        /\ \A n \in 1..64 : v[n] = F[<<v[n - 1], n>>]
    <2> HIDE DEF F
    <2> QED
      BY <1>3 DEF Iterates
  <1>5. ASSUME NEW n \in 1..64 PROVE v[n] = Divide(v[n - 1], n)
    <2>1. n - 1 \in 0..64 /\ n \in Nat
      OBVIOUS
    <2>2. v[n - 1] \in Bits72
      BY <1>4, <2>1
    <2>3. F[<<v[n - 1], n>>] = step(v[n - 1], n)
      BY <2>1, <2>2
    <2>4. step(v[n - 1], n) = Divide(v[n - 1], n)
      BY DEF step
    <2> HIDE DEF F
    <2> QED
      BY <1>4, <2>3, <2>4
  <1>6. ASSUME NEW n \in 0..64
        PROVE  v[n] = IF n = 0 THEN bits ELSE Divide(v[n - 1], n)
    <2>1. n # 0 => n \in 1..64
      OBVIOUS
    <2> QED
      BY <1>4, <1>5, <2>1
  <1> HIDE DEF F
  <1>7. Remainders(bits, v)
    BY <1>4, <1>6 DEF Remainders
  <1> QED
    BY <1>7

(* check_scratchpad_crc() computes the remainder of the polynomial         *)
(* division: of a message followed by eight zeros, bit by bit.             *)
LEMMA CrcIsRemainder ==
    ASSUME NEW m \in Union72, NEW bits \in Bits72,
           \A n \in 0..63 : bits[n + 1] = Bit(m, n),
           \A k \in 1..8 : bits[64 + k] = 0
    PROVE  /\ CheckScratchpadCrc(m) \in Byte
           /\ \A k \in 1..8 : Division(bits)[64 + k] = Reg(CheckScratchpadCrc(m), k)
  <1> DEFINE c == CHOOSE f : Registers(m, f)
             v == CHOOSE f : Remainders(bits, f)
  <1>1. Registers(m, c) /\ Remainders(bits, v)
    BY RegistersExist, RemaindersExist
  <1>2. CheckScratchpadCrc(m) = c[64]
    BY DEF CheckScratchpadCrc, Registers
  <1>3. Division(bits) = v[64]
    BY DEF Division, Remainders
  <1> HIDE DEF c, v
  <1>4. /\ c = [n \in 0..64 |-> IF n = 0 THEN 0 ELSE CrcBit(c[n - 1], Bit(m, n - 1))]
        /\ v = [i \in 0..64 |-> IF i = 0 THEN bits ELSE Divide(v[i - 1], i)]
    BY <1>1 DEF Registers, Remainders
  <1> DEFINE T == {n \in Nat : n <= 64 => Agree(bits, v[n], c[n], n)}
  <1>5. 0 \in T
    <2>1. c[0] = 0 /\ v[0] = bits
      BY <1>4
    <2>2. \A k \in 1..8 : Reg(0, k) = 0
      <3>1. \A w \in Weights : (0 \div w) % 2 = 0
        BY DEF Weights
      <3> QED
        BY <3>1, RegWeight DEF Reg
    <2>3. \A k \in 1..8 : bits[0 + k] = Xor(bits[0 + k], 0)
      <3>1. \A k \in 1..8 : bits[0 + k] \in {0, 1}
        BY DEF Bits72
      <3> QED
        BY <3>1 DEF Xor
    <2>4. Agree(bits, bits, 0, 0)
      BY <2>2, <2>3, ZeroByte DEF Agree
    <2> QED
      BY <2>1, <2>4
  <1>6. ASSUME NEW n \in Nat, n \in T
        PROVE  n + 1 \in T
    <2>1. SUFFICES ASSUME n + 1 <= 64 PROVE Agree(bits, v[n + 1], c[n + 1], n + 1)
      OBVIOUS
    <2>2. n \in 0..63 /\ n + 1 \in 0..64 /\ n + 1 # 0 /\ (n + 1) - 1 = n
      BY <2>1
    <2>3. Agree(bits, v[n], c[n], n)
      BY <1>6, <2>1
    <2>4. c[n + 1] = CrcBit(c[n], Bit(m, n)) /\ v[n + 1] = Divide(v[n], n + 1)
      BY <1>4, <2>2
    <2>5. bits[n + 1] = Bit(m, n)
      BY <2>2
    <2> QED
      BY <2>2, <2>3, <2>4, <2>5, CrcRound
  <1>7. 64 \in T
    <2> HIDE DEF T
    <2> QED
      BY <1>5, <1>6, SetInduction
  <1>8. Agree(bits, v[64], c[64], 64)
    BY <1>7
  <1>9. ASSUME NEW k \in 1..8 PROVE v[64][64 + k] = Reg(c[64], k)
    <2>1. v[64][64 + k] = Xor(0, Reg(c[64], k)) /\ c[64] \in Byte
      BY <1>8 DEF Agree
    <2>2. Reg(c[64], k) \in {0, 1}
      BY <2>1, RegIsBit
    <2> QED
      BY <2>1, <2>2 DEF Xor
  <1> QED
    BY <1>2, <1>3, <1>8, <1>9 DEF Agree
-----------------------------------------------------------------------------
(* The bits of a reading, by the pulses that carry them.                   *)
LEMMA BitsOfBytes ==
    ASSUME NEW r \in [1..8 -> Byte]
    PROVE  /\ BitsOf(r) \in Bits72
           /\ \A n \in 0..63 : BitsOf(r)[n + 1] = (r[(n \div 8) + 1] \div 2^(n % 8)) % 2
           /\ \A k \in 1..8 : BitsOf(r)[64 + k] = 0
  <1>1. ASSUME NEW n \in 0..63
        PROVE  /\ BitsOf(r)[n + 1] = (r[(n \div 8) + 1] \div 2^(n % 8)) % 2
               /\ BitsOf(r)[n + 1] \in {0, 1}
    <2>1. /\ n + 1 \in 1..72 /\ n + 1 <= 64 /\ (n + 1) - 1 = n /\ n \in Nat
          /\ (n \div 8) + 1 \in 1..8
      OBVIOUS
    <2> DEFINE i == n + 1
    <2>2. BitsOf(r)[i] = (r[((i - 1) \div 8) + 1] \div 2^((i - 1) % 8)) % 2
      <3>1. i \in 1..72 /\ i <= 64
        BY <2>1
      <3> HIDE DEF i
      <3> QED
        BY <3>1 DEF BitsOf
    <2>3. BitsOf(r)[n + 1] = (r[(n \div 8) + 1] \div 2^(n % 8)) % 2
      <3>1. i - 1 = n
        BY <2>1
      <3> HIDE DEF i
      <3>2. BitsOf(r)[i] = (r[(n \div 8) + 1] \div 2^(n % 8)) % 2
        BY <2>2, <3>1, Zenon
      <3> QED
        BY <3>2 DEF i
    <2>4. r[(n \div 8) + 1] \in Byte /\ 2^(n % 8) \in Weights
      BY <2>1, BitWeight
    <2>5. \A v \in Weights, b \in Byte : (b \div v) % 2 \in {0, 1}
      BY DEF Weights, Byte
    <2> QED
      BY <2>3, <2>4, <2>5, Zenon
  <1>2. ASSUME NEW k \in 1..8
        PROVE  BitsOf(r)[64 + k] = 0
    <2>1. 64 + k \in 1..72 /\ ~(64 + k <= 64)
      OBVIOUS
    <2> DEFINE i == 64 + k
    <2> HIDE DEF i
    <2> QED
      BY <2>1 DEF BitsOf, i
  <1>3. ASSUME NEW i \in 1..72
        PROVE  BitsOf(r)[i] \in {0, 1}
    <2>1. CASE i <= 64
      <3>1. i - 1 \in 0..63 /\ (i - 1) + 1 = i
        BY <2>1
      <3> QED
        BY <1>1, <3>1
    <2>2. CASE i > 64
      <3>1. i - 64 \in 1..8 /\ 64 + (i - 64) = i
        BY <2>2
      <3> QED
        BY <1>2, <3>1
    <2> QED
      BY <2>1, <2>2
  <1>4. BitsOf(r) = [i \in 1..72 |-> BitsOf(r)[i]]
    BY DEF BitsOf
  <1> QED
    BY <1>1, <1>2, <1>3, <1>4 DEF Bits72

LEMMA AnswerBits ==
    ASSUME NEW answer \in Answers, NEW n \in 1..72
    PROVE  answer[n] \in {0, 1}
  <1>1. \A a \in Answers : Len(a) = 72 /\ \A i \in 1..72 : a[i] \in {0, 1}
    BY SensorAssumption, SMTT(60)
  <1> QED
    BY <1>1

(* The union holds the pulses of all of an answer.                         *)
Holds(m, r) == \A i \in Bytes72 : m[i] = Width(AnswerTo[r][i + 1])

(* A reading whose pulses are all in the union is decoded byte for byte,   *)
(* and passes the CRC: that of the code is the one of the sensor.          *)
LEMMA DecodedReading ==
    ASSUME NEW r \in Readings, NEW m \in Union72, Holds(m, r)
    PROVE  /\ ValidScratchpad(DecodeScratchpad(m))
           /\ DecodeScratchpad(m) \in Union72
           /\ \A j \in 0..7 : DecodeScratchpad(m)[j] = r[j + 1]
  <1> DEFINE x    == DecodeScratchpad(m)
             a    == AnswerTo[r]
             bits == BitsOf(r)
             crc  == CheckScratchpadCrc(x)
  <1>1. r \in [1..8 -> Byte] /\ a = Answer(r) /\ a \in Answers
    BY ReadingsAssumption DEF AnswerTo
  <1>2. \A i \in 1..72 : a[i] = IF i <= 64 THEN bits[i] ELSE Division(bits)[i]
    BY <1>1 DEF Answer
  <1>3. /\ bits \in Bits72
        /\ \A n \in 0..63 : bits[n + 1] = (r[(n \div 8) + 1] \div 2^(n % 8)) % 2
        /\ \A k \in 1..8 : bits[64 + k] = 0
    BY <1>1, BitsOfBytes
  <1>4. Decoded(m, x, 72)
    BY DecodedInPlace
  <1>5. x \in Union72
    BY <1>4 DEF Decoded
  <1> HIDE DEF x, bits
  <1>6. ASSUME NEW n \in Bytes72 PROVE Bit(x, n) = a[n + 1]
    <2>1. n \in 0..71 /\ n + 1 \in 1..72 /\ n < 72
      BY DEF Bytes72
    <2>2. a[n + 1] \in {0, 1}
      BY <1>1, <2>1, AnswerBits
    <2>3. Bit(x, n) = Pulse(m, n) /\ m[n] = Width(a[n + 1])
      BY <1>4, <2>1 DEF Decoded, Holds
    <2> HIDE DEF a
    <2> QED
      BY <2>2, <2>3 DEF Pulse, Width
  <1> HIDE DEF a
  <1>7. ASSUME NEW n \in 0..63 PROVE bits[n + 1] = Bit(x, n)
    <2>1. n \in Bytes72 /\ n + 1 \in 1..72 /\ n + 1 <= 64
      BY DEF Bytes72
    <2> QED
      BY <1>2, <1>6, <2>1
  <1>8. /\ crc \in Byte
        /\ \A k \in 1..8 : Division(bits)[64 + k] = Reg(crc, k)
    BY <1>3, <1>5, <1>7, CrcIsRemainder
  <1> HIDE DEF crc
  <1>9. ASSUME NEW j \in 0..7 PROVE x[j] = r[j + 1]
    <2>1. x[j] \in Byte /\ r[j + 1] \in Byte
      <3>1. j \in Bytes72 /\ j + 1 \in 1..8
        BY DEF Bytes72
      <3> QED
        BY <1>1, <1>5, <3>1 DEF Union72
    <2>2. ASSUME NEW k \in 1..8 PROVE Reg(x[j], k) = Reg(r[j + 1], k)
      <3> DEFINE n == 8 * j + (k - 1)
      <3>1. n \in 0..63 /\ n \div 8 = j /\ n % 8 = k - 1
        OBVIOUS
      <3> HIDE DEF n
      <3>2. bits[n + 1] = (r[j + 1] \div 2^(k - 1)) % 2
        BY <1>3, <3>1
      <3>3. Bit(x, n) = (x[j] \div 2^(k - 1)) % 2
        BY <3>1 DEF Bit
      <3> QED
        BY <1>7, <3>1, <3>2, <3>3, Zenon DEF Reg
    <2> QED
      BY <2>1, <2>2, ByteOfBits
  <1>10. x[8] = crc
    <2>1. x[8] \in Byte
      BY <1>5 DEF Union72, Bytes72
    <2>2. ASSUME NEW k \in 1..8 PROVE Reg(x[8], k) = Reg(crc, k)
      <3> DEFINE n == 63 + k
      <3>1. /\ n \in Bytes72 /\ n \div 8 = 8 /\ n % 8 = k - 1
            /\ n + 1 = 64 + k /\ n + 1 \in 1..72 /\ ~(n + 1 <= 64)
        BY DEF Bytes72
      <3> HIDE DEF n
      <3>2. Bit(x, n) = Division(bits)[n + 1]
        BY <1>2, <1>6, <3>1
      <3>3. Bit(x, n) = (x[8] \div 2^(k - 1)) % 2
        BY <3>1 DEF Bit
      <3>4. Division(bits)[n + 1] = Reg(crc, k)
        BY <1>8, <3>1
      <3>5. Reg(x[8], k) = (x[8] \div 2^(k - 1)) % 2
        BY DEF Reg
      <3> QED
        BY <3>2, <3>3, <3>4, <3>5
    <2> QED
      BY <1>8, <2>1, <2>2, ByteOfBits
  <1>11. ValidScratchpad(x)
    BY <1>10 DEF ValidScratchpad, crc
  <1> QED
    BY <1>5, <1>9, <1>11 DEF x
-----------------------------------------------------------------------------
(* A cast to a signed type of 2 * h values, of what fits it and of what    *)
(* the unsigned type of its width holds.                                   *)
LEMMA CastKeeps ==
    ASSUME NEW h \in Nat \ {0}, NEW m, m = 2 * h, NEW x \in Int, -h <= x, x < m
    PROVE  ToSigned(x, m) = IF x < h THEN x ELSE x - m
  <1>1. m \div 2 = h
    OBVIOUS
  <1>2. ToSigned(x, m) = ((x + h) % m) - h
    BY <1>1 DEF ToSigned
  <1>3. CASE x < h
    <2>1. x + h \in Int /\ 0 <= x + h /\ x + h < m
      BY <1>3
    <2>2. (x + h) % m = x + h
      BY <2>1
    <2> QED
      BY <1>2, <1>3, <2>2
  <1>4. CASE x >= h
    <2> DEFINE y == x + h - m
    <2>1. y \in Int /\ 0 <= y /\ y < m /\ x + h = y + m
      BY <1>4
    <2> HIDE DEF y
    <2>2. (y + m) % m = y
      BY <2>1
    <2> QED
      BY <1>2, <1>4, <2>1, <2>2
  <1> QED
    BY <1>3, <1>4

LEMMA Int16Keeps ==
    ASSUME NEW x \in Int, -32768 <= x, x < 65536
    PROVE  ToInt16(x) = IF x < 32768 THEN x ELSE x - 65536
  <1> DEFINE h == 32768
             w == 65536
  <1>1. h \in Nat \ {0} /\ w = 2 * h /\ -h <= x /\ x < w
    OBVIOUS
  <1>2. ToInt16(x) = ToSigned(x, w)
    BY DEF ToInt16
  <1> HIDE DEF h, w
  <1>3. ToInt16(x) = IF x < h THEN x ELSE x - w
    BY <1>1, <1>2, CastKeeps
  <1> QED
    BY <1>3 DEF h, w

(* The register of a scratchpad, as the code puts it together.             *)
LEMMA RegisterCast ==
    ASSUME NEW r \in [1..8 -> Byte]
    PROVE  /\ ToInt16(256 * r[2] + r[1]) = Register(r)
           /\ Register(r) \in Int /\ -32768 <= Register(r) /\ Register(r) <= 32767
  <1> DEFINE low == r[1]
             high == r[2]
             word == 256 * high + low
  <1>1. low \in Byte /\ high \in Byte
    OBVIOUS
  <1>2. Register(r) = IF word > 32767 THEN word - 65536 ELSE word
    BY DEF Register
  <1> HIDE DEF low, high
  <1>3. word \in Int /\ 0 <= word /\ word < 65536
    BY <1>1 DEF Byte
  <1> HIDE DEF word
  <1>4. ToInt16(word) = IF word < 32768 THEN word ELSE word - 65536
    BY <1>3, Int16Keeps
  <1>5. ToInt16(word) = Register(r)
    BY <1>2, <1>3, <1>4
  <1>6. Register(r) \in Int /\ -32768 <= Register(r) /\ Register(r) <= 32767
    BY <1>2, <1>3
  <1> QED
    BY <1>5, <1>6 DEF word, high, low

(* What the DS18B20's sixteenths give in tenths.                           *)
LEMMA Sixteenths ==
    ASSUME NEW raw \in Int, -32768 <= raw, raw <= 32767
    PROVE  LET t == ToInt16((raw * 10) \div 16)
           IN 16 * t <= 10 * raw /\ 10 * raw < 16 * t + 16
  <1> DEFINE q == (raw * 10) \div 16
  <1>1. /\ q \in Int /\ 16 * q <= 10 * raw /\ 10 * raw < 16 * q + 16
        /\ -32768 <= q /\ q < 32768 /\ q < 65536
    OBVIOUS
  <1> HIDE DEF q
  <1>2. ToInt16(q) = q
    BY <1>1, Int16Keeps
  <1> QED
    BY <1>1, <1>2 DEF q

(* The part of a degree that the DS18S20 counts, in tenths.                *)
LEMMA CountedTenths ==
    ASSUME NEW perC \in Byte, perC # 0, NEW remain \in Byte, remain <= perC
    PROVE  LET x == (perC - remain) * 10
               q == TruncDiv(x, perC)
           IN /\ q \in Int /\ 0 <= q /\ q <= 10
              /\ perC * q \in Int /\ perC * q <= x /\ x < perC * q + perC
  <1> DEFINE x == (perC - remain) * 10
             q == x \div perC
  <1>1. perC \in Nat \ {0} /\ remain \in Nat
    BY ByteIsNatural
  <1>2. x \in Nat /\ x <= 10 * perC
    BY <1>1
  <1>3. TruncDiv(x, perC) = q
    BY <1>2 DEF TruncDiv
  <1> HIDE DEF x
  <1>4. q \in Nat /\ perC * q \in Int /\ perC * q <= x /\ x < perC * q + perC
    BY <1>1, <1>2
  <1> HIDE DEF q
  <1>5. q <= 10
    <2>1. SUFFICES ASSUME q >= 11 PROVE FALSE
      BY <1>4
    <2>2. perC * q >= perC * 11
      BY <1>1, <1>4, <2>1
    <2> QED
      BY <1>1, <1>2, <1>4, <2>2
  <1> QED
    BY <1>3, <1>4, <1>5 DEF x

(* The reported temperature is the one that the sensor's registers mean.   *)
LEMMA TemperatureIsTenths ==
    ASSUME NEW r \in Readings, NEW m, \A j \in 0..7 : m[j] = r[j + 1], m[7] # 0
    PROVE  IsTenths(DecodeTemperature(m), r)
  <1> DEFINE raw  == Register(r)
             fine == TruncDiv((r[8] - r[7]) * 10, r[8])
             sum  == (raw \div 2) * 10 - 2 + fine
  <1>1. r \in [1..8 -> Byte] /\ (r[5] = 255 => -110 <= raw /\ raw <= 250 /\ r[7] <= r[8])
    BY ReadingsAssumption
  <1>2. m[0] = r[1] /\ m[1] = r[2] /\ m[4] = r[5] /\ m[6] = r[7] /\ m[7] = r[8] /\ r[8] # 0
    <2>1. /\ 0 + 1 = 1 /\ 1 + 1 = 2 /\ 4 + 1 = 5 /\ 6 + 1 = 7 /\ 7 + 1 = 8
          /\ 0 \in 0..7 /\ 1 \in 0..7 /\ 4 \in 0..7 /\ 6 \in 0..7 /\ 7 \in 0..7
      OBVIOUS
    <2> QED
      BY <2>1
  <1>3. /\ ToInt16(256 * r[2] + r[1]) = raw
        /\ raw \in Int /\ -32768 <= raw /\ raw <= 32767
    BY <1>1, RegisterCast
  <1>4. DecodeTemperature(m) = IF r[5] = 255 THEN ToInt16(sum)
                               ELSE ToInt16((raw * 10) \div 16)
    BY <1>2, <1>3 DEF DecodeTemperature, Family
  <1>5. CASE r[5] # 255
    <2> DEFINE t == ToInt16((raw * 10) \div 16)
    <2>1. 16 * t <= 10 * raw /\ 10 * raw < 16 * t + 16
      BY <1>3, Sixteenths
    <2>2. DecodeTemperature(m) = t
      BY <1>4, <1>5
    <2> HIDE DEF t
    <2> QED
      BY <1>5, <2>1, <2>2 DEF IsTenths
  <1>6. CASE r[5] = 255
    <2> DEFINE perC == r[8]
               rem  == r[7]
               x    == (perC - rem) * 10
               half == raw \div 2
    <2>1. perC \in Byte /\ rem \in Byte /\ perC # 0 /\ rem <= perC
      BY <1>1, <1>2, <1>6
    <2>2. /\ fine \in Int /\ 0 <= fine /\ fine <= 10
          /\ perC * fine \in Int /\ perC * fine <= x /\ x < perC * fine + perC
      BY <2>1, CountedTenths
    <2>3. half \in Int /\ -110 <= half /\ half <= 125
      BY <1>1, <1>3, <1>6
    <2> HIDE DEF raw, fine, half
    <2>4. sum = half * 10 - 2 + fine /\ sum \in Int /\ -32768 <= sum /\ sum < 32768 /\ sum < 65536
      BY <2>2, <2>3 DEF half
    <2>5. DecodeTemperature(m) = sum
      BY <1>4, <1>6, <2>4, Int16Keeps
    <2> DEFINE twenty == 20 * perC * half - 5 * perC + 20 * (perC - rem)
    <2>6. perC \in Nat /\ rem \in Nat /\ perC >= 1
      BY <2>1, ByteIsNatural
    <2> HIDE DEF perC, rem
    <2>7. /\ 2 * perC * sum = 20 * perC * half - 4 * perC + 2 * (perC * fine)
          /\ 2 * perC * sum \in Int /\ perC * half \in Int
      BY <2>2, <2>3, <2>4, <2>6
    <2>8. 2 * perC * sum - twenty = perC + 2 * (perC * fine) - 2 * x
      BY <2>2, <2>3, <2>6, <2>7
    <2>9. 2 * perC * sum - twenty \in (1 - 2 * perC)..(2 * perC - 1)
      BY <2>2, <2>6, <2>8
    <2> QED
      BY <1>6, <2>5, <2>9 DEF IsTenths, perC, rem, half, raw
  <1> QED
    BY <1>5, <1>6
-----------------------------------------------------------------------------
(* From the start of a read to its decoding: the read still runs, or its   *)
(* pulses are those of the reading that it delivered, if it delivered one. *)
ReadRuns == ~uif /\ running = "read"
ReadIsOver == uif /\ (delivered \in Readings => Holds(union, delivered))
HeldInv == SensorInv /\ (fsm = "DECODE" => ReadRuns \/ ReadIsOver)

LEMMA NoReadings == Part \notin Readings /\ Mix \notin Readings
  <1>1. \A r \in Readings : DOMAIN r = 1..8
    BY ReadingsAssumption
  <1>2. DOMAIN Part = 1..1 /\ DOMAIN Mix = 1..1
    BY DEF Part, Mix
  <1>3. 8 \in 1..8 /\ 8 \notin 1..1
    OBVIOUS
  <1> QED
    BY <1>1, <1>2, <1>3

(* What a read leaves that is not stalled.                                 *)
LEMMA WholeRead ==
    ASSUME NEW r \in Readings, NEW k \in 0..72, ReadEnds(AnswerTo[r], k, TRUE),
           \A i \in (k + 1)..72 : AnswerTo[r][i] = 1
    PROVE  Holds(union', r)
  <1> DEFINE word == AnswerTo[r]
             read(i) == IF i < k THEN Width(word[i + 1]) ELSE Width(1)
  <1>1. union' = [i \in Bytes72 |-> read(i)]
    BY DEF ReadEnds
  <1>2. ASSUME NEW i \in Bytes72 PROVE read(i) = Width(word[i + 1])
    <2>1. i \in Nat /\ i <= 71 /\ k \in Nat
      BY DEF Bytes72
    <2>2. CASE i < k
      BY <2>2
    <2>3. CASE ~(i < k)
      <3>1. i + 1 \in (k + 1)..72
        BY <2>1, <2>3
      <3>2. word[i + 1] = 1
        BY <3>1
      <3> HIDE DEF word
      <3> QED
        BY <2>3, <3>2
    <2> QED
      BY <2>2, <2>3
  <1> HIDE DEF read
  <1>3. ASSUME NEW i \in Bytes72 PROVE union'[i] = Width(word[i + 1])
    <2> HIDE DEF word
    <2> QED
      BY <1>1, <1>2
  <1> QED
    BY <1>3 DEF Holds

LEMMA HeldNext == HeldInv /\ [HNext]_hvars => HeldInv'
  <1> SUFFICES ASSUME HeldInv, [HNext]_hvars PROVE HeldInv'
    OBVIOUS
  <1>1. SensorInv /\ SensorInv' /\ (uif => running = "none")
    BY SensorNext DEF HeldInv, SensorInv, SensorType
  <1> DEFINE Held == fsm = "DECODE" => ReadRuns \/ ReadIsOver
  <1>2. Held
    BY DEF HeldInv
  <1>3. SUFFICES Held'
    BY <1>1 DEF HeldInv
  <1>4. CASE Read
    <2>1. ~uif' /\ running' = "read"
      BY <1>4 DEF Read, Row
    <2> QED
      BY <2>1 DEF ReadRuns
  <1>5. CASE Poll /\ ~Read
    <2>1. fsm' # "DECODE"
      BY <1>5 DEF Poll, Start, ConvertOk, ConvertFail, Wait, Continue, RequestOk,
           RequestFail, Decode, Row
    <2> QED
      BY <2>1
  <1>6. ASSUME running \notin {"read", "none"}, fsm' = fsm PROVE Held'
    BY <1>1, <1>2, <1>6 DEF ReadRuns, ReadIsOver
  <1>7. CASE HTimer
    BY <1>6, <1>7 DEF HTimer, TimerEnds, Ends
  <1>8. CASE \E es \in Edges : HReset(es)
    BY <1>6, <1>8 DEF HReset, ResetEnds, Ends
  <1>9. ASSUME NEW r \in Readings, HRead(r) PROVE Held'
    <2>1. ReadEnds(AnswerTo[r], 72, TRUE) /\ delivered' = r
      BY <1>9 DEF HRead
    <2>2. 72 \in 0..72 /\ (72 + 1)..72 = {}
      OBVIOUS
    <2>3. Holds(union', r)
      BY <2>1, <2>2, WholeRead
    <2>4. uif'
      BY <2>1 DEF ReadEnds, Ends
    <2>5. ReadIsOver'
      BY <2>1, <2>3, <2>4 DEF ReadIsOver, Holds
    <2> QED
      BY <2>5
  <1>10. ASSUME NEW r \in Readings, NEW k \in Cuts, HCut(r, k) PROVE Held'
    <2>0. k \in 0..72
      <3>1. \A j \in Cuts : j \in 0..72
        BY SensorAssumption
      <3> QED
        BY <3>1
    <2>1. ReadEnds(AnswerTo[r], k, TRUE)
      BY <1>10 DEF HCut
    <2>2. uif'
      BY <2>1 DEF ReadEnds, Ends
    <2>3. CASE \A i \in (k + 1)..72 : AnswerTo[r][i] = 1
      <3>1. delivered' = r
        BY <1>10, <2>3 DEF HCut
      <3>2. Holds(union', r)
        BY <2>0, <2>1, <2>3, WholeRead
      <3>3. ReadIsOver'
        BY <2>2, <3>1, <3>2 DEF ReadIsOver, Holds
      <3> QED
        BY <3>3
    <2>4. CASE ~(\A i \in (k + 1)..72 : AnswerTo[r][i] = 1)
      <3>1. delivered' = Part
        BY <1>10, <2>4 DEF HCut
      <3>2. ReadIsOver'
        BY <2>2, <3>1, NoReadings DEF ReadIsOver
      <3> QED
        BY <3>2
    <2> QED
      BY <2>3, <2>4
  <1>11. ASSUME NEW r \in Readings, NEW k \in Stalls, HStall(r, k) PROVE Held'
    <2>1. uif' /\ delivered' = Mix
      BY <1>11 DEF HStall, ReadEnds, Ends
    <2>2. ReadIsOver'
      BY <2>1, NoReadings DEF ReadIsOver
    <2> QED
      BY <2>2
  <1>12. CASE UNCHANGED hvars
    <2>1. /\ fsm' = fsm /\ uif' = uif /\ running' = running
          /\ union' = union /\ delivered' = delivered
      BY <1>12 DEF hvars, dvars
    <2>2. ReadRuns => ReadRuns'
      BY <2>1 DEF ReadRuns
    <2>3. ReadIsOver => ReadIsOver'
      BY <2>1 DEF ReadIsOver, Holds
    <2> QED
      BY <1>2, <2>1, <2>2, <2>3
  <1> QED
    BY <1>4, <1>5, <1>7, <1>8, <1>9, <1>10, <1>11, <1>12 DEF HNext, HPoll, HHardware

(* A reading that was captured to its end is reported as the temperature   *)
(* that the sensor meant, whatever the reading: its pulses survive their   *)
(* own decoding, the code's CRC is the remainder that the sensor appended, *)
(* and the arithmetic of the two families rounds by less than a tenth.     *)
THEOREM ReadingsAreReported == HSpec => ReadingReported
  <1>1. HInit => HeldInv
    <2>1. HInit => SensorInv
      BY SensorInit
    <2>2. HInit => fsm = "IDLE"
      BY DEF HInit, DInit
    <2> QED
      BY <2>1, <2>2 DEF HeldInv
  <1>2. HeldInv /\ [HNext]_hvars
          => [Decodes /\ delivered \in Readings
                => report'.kind = "temperature" /\ IsTenths(report'.tenths, delivered)]_hvars
    <2> SUFFICES ASSUME HeldInv, HNext, Decodes, delivered \in Readings
                 PROVE  report'.kind = "temperature" /\ IsTenths(report'.tenths, delivered)
      OBVIOUS
    <2> DEFINE x == DecodeScratchpad(union)
               t == DecodeTemperature(x)
    <2>1. Decode
      BY DEF HNext, HPoll, HHardware, Poll, Start, ConvertOk, ConvertFail, Wait,
           Continue, RequestOk, RequestFail, Read, Row, HTimer, TimerEnds, HReset,
           ResetEnds, HRead, HCut, HStall, ReadEnds, Decodes
    <2>2. union \in Union72 /\ union[CountAt] <= 10 /\ Holds(union, delivered)
      BY <2>1 DEF HeldInv, SensorInv, SensorType, CountPulse, Union72, Decodes,
           ReadRuns, ReadIsOver, Decode, Row
    <2>3. ValidScratchpad(x) /\ \A j \in 0..7 : x[j] = delivered[j + 1]
      BY <2>2, DecodedReading
    <2>4. x[7] # 0
      BY <2>2, DecodedCount
    <2>5. report' = IF ValidScratchpad(x) THEN Measured(t) ELSE Failed("crc")
      BY <2>1 DEF Decode
    <2> HIDE DEF x
    <2>6. IsTenths(t, delivered)
      BY <2>3, <2>4, TemperatureIsTenths
    <2> HIDE DEF t
    <2>7. report'.kind = "temperature" /\ report'.tenths = t
      BY <2>3, <2>5 DEF Measured
    <2> QED
      BY <2>6, <2>7
  <1> QED
    BY <1>1, <1>2, HeldNext, PTL DEF HSpec, ReadingReported
-----------------------------------------------------------------------------
(* The images that m_vram can hold.                                        *)
Image == [Addresses -> Byte]

(* The font: two segments to a byte, and one in the third of a digit.      *)
LEMMA DigitFont ==
    ASSUME NEW c \in DigitChars, NEW k \in 1..4
    PROVE  /\ DOMAIN m_digits = DigitChars
           /\ m_digits[c][k] \in Nat /\ m_digits[c][k] <= 3
           /\ k = 3 => m_digits[c][k] <= 1
  <1>1. k = 1 \/ k = 2 \/ k = 3 \/ k = 4
    OBVIOUS
  <1>2. \/ m_digits[c] = <<3, 2, 1, 3>> \/ m_digits[c] = <<0, 0, 1, 2>>
        \/ m_digits[c] = <<2, 3, 0, 3>> \/ m_digits[c] = <<0, 3, 1, 3>>
        \/ m_digits[c] = <<1, 1, 1, 2>> \/ m_digits[c] = <<1, 3, 1, 1>>
        \/ m_digits[c] = <<3, 3, 1, 1>> \/ m_digits[c] = <<0, 0, 1, 3>>
        \/ m_digits[c] = <<3, 3, 1, 3>> \/ m_digits[c] = <<1, 3, 1, 3>>
    BY DEF m_digits, DigitChars
  <1>3. DOMAIN m_digits = DigitChars
    BY DEF m_digits
  <1> QED
    BY <1>1, <1>2, <1>3

LEMMA LetterFont ==
    ASSUME NEW c \in DOMAIN m_letters, NEW k \in 1..4
    PROVE  m_letters[c][k] \in Nat /\ m_letters[c][k] <= 3
  <1>1. k = 1 \/ k = 2 \/ k = 3 \/ k = 4
    OBVIOUS
  <1>2. CASE c \in {"-", "_"}
    <2>1. m_letters[c] = <<0, 1, 0, 0>> \/ m_letters[c] = <<0, 2, 0, 0>>
      BY <1>2 DEF m_letters
    <2> QED
      BY <1>1, <2>1
  <1>3. CASE c \notin {"-", "_"}
    <2>1. c \in DOMAIN alphabet /\ m_letters[c] = alphabet[c]
      BY <1>3 DEF m_letters
    <2>2. alphabet[c][k] \in Nat /\ alphabet[c][k] <= 3
      BY <1>1, <2>1 DEF alphabet
    <2> QED
      BY <2>1, <2>2
  <1> QED
    BY <1>2, <1>3

LEMMA DrawnType ==
    ASSUME NEW old \in Byte, NEW c, NEW k \in 1..4
    PROVE  Drawn(old, c, k) \in Byte
  <1>1. CASE c \in DOMAIN m_digits
    <2>1. c \in DigitChars
      BY <1>1 DEF m_digits
    <2>2. Drawn(old, c, k) = m_digits[c][k]
      BY <1>1 DEF Drawn
    <2> QED
      BY <2>1, <2>2, DigitFont DEF Byte
  <1>2. CASE c \notin DOMAIN m_digits /\ c \in DOMAIN m_letters /\ m_letters[c][k] # 0
    <2>1. Drawn(old, c, k) = m_letters[c][k]
      BY <1>2 DEF Drawn
    <2> QED
      BY <1>2, <2>1, LetterFont DEF Byte
  <1>3. CASE c \notin DOMAIN m_digits /\ ~(c \in DOMAIN m_letters /\ m_letters[c][k] # 0)
    BY <1>3 DEF Drawn
  <1> QED
    BY <1>1, <1>2, <1>3

LEMMA DrawTextType ==
    ASSUME NEW v \in Image, NEW text, NEW at
    PROVE  DrawText(v, text, at) \in Image
  <1>1. ASSUME NEW a \in Addresses, a \in 1..24
        PROVE  ((a - 1) % 4) + 1 \in 1..4
    BY DEF Addresses
  <1>2. ASSUME NEW a \in Addresses
        PROVE  /\ v[a] \in Byte
               /\ a \in 1..24 => \A c : Drawn(v[a], c, ((a - 1) % 4) + 1) \in Byte
    BY <1>1, DrawnType DEF Image
  <1>3. ASSUME NEW a \in Addresses
        PROVE  DrawText(v, text, at)[a] \in Byte
    BY <1>2 DEF DrawText
  <1>4. DrawText(v, text, at) = [a \in Addresses |-> DrawText(v, text, at)[a]]
    BY DEF DrawText
  <1> QED
    BY <1>3, <1>4 DEF Image

(* A bit of the image that an icon or a point has.                         *)
IsBit(b) == b.addr \in Addresses /\ b.val \in {1, 2}

LEMMA IconBits ==
    /\ \A p \in 1..5 : IsBit(m_dots[p])
    /\ \A i \in 1..4 : IsBit(m_specials[i]) /\ IsBit(m_chargeLevels[i])
  <1>1. \A p \in 1..5 : IsBit(m_dots[p])
    BY DEF m_dots, Bits, IsBit, Addresses
  <1>2. \A i \in 1..4 : IsBit(m_specials[i])
    BY DEF m_specials, Bits, IsBit, Addresses
  <1>3. \A i \in 1..4 : IsBit(m_chargeLevels[i])
    BY DEF m_chargeLevels, Bits, IsBit, Addresses
  <1> QED
    BY <1>1, <1>2, <1>3

LEMMA SetBitType ==
    ASSUME NEW v \in Image, NEW b, IsBit(b)
    PROVE  /\ SetBit(v, b) \in Image
           /\ \A a \in Addresses : a # b.addr => SetBit(v, b)[a] = v[a]
  <1>1. b.addr \in Addresses /\ v[b.addr] \in Byte
    BY DEF IsBit, Image
  <1>2. ASSUME ~IsLit(v, b) PROVE v[b.addr] + b.val \in Byte
    BY <1>1, <1>2 DEF IsLit, IsBit, Byte
  <1> QED
    BY <1>1, <1>2 DEF SetBit, Image

LEMMA ClearBitType ==
    ASSUME NEW v \in Image, NEW b, IsBit(b)
    PROVE  ClearBit(v, b) \in Image
  <1>1. b.addr \in Addresses /\ v[b.addr] \in Byte
    BY DEF IsBit, Image
  <1>2. ASSUME IsLit(v, b) PROVE v[b.addr] - b.val \in Byte
    BY <1>1, <1>2 DEF IsLit, IsBit, Byte
  <1> QED
    BY <1>1, <1>2 DEF ClearBit, Image

LEMMA SwitchType ==
    ASSUME NEW v \in Image, NEW b, IsBit(b), NEW enable
    PROVE  Switch(v, b, enable) \in Image
  BY SetBitType, ClearBitType DEF Switch

(* What the operations draw is an image.                                   *)
LEMMA ClearType ==
    /\ FullClear \in Image /\ ShowFull \in Image
    /\ \A v \in Image : ClearSegArea(v) \in Image
  <1>1. 0 \in Byte /\ 255 \in Byte /\ \A b \in Byte : b - (b % 2) \in Byte
    BY DEF Byte
  <1>2. FullClear \in Image /\ ShowFull \in Image
    BY <1>1 DEF FullClear, ShowFull, Image
  <1>3. ASSUME NEW v \in Image PROVE ClearSegArea(v) \in Image
    BY <1>1 DEF ClearSegArea, Image
  <1> QED
    BY <1>2, <1>3

LEMMA DotType ==
    ASSUME NEW v \in Image, NEW position, NEW enable
    PROVE  ShowDot(v, position, enable) \in Image
  BY IconBits, SwitchType DEF ShowDot

LEMMA StringType ==
    ASSUME NEW v \in Image, NEW text
    PROVE  ShowString(v, text) \in Image
  BY ClearType, DrawTextType DEF ShowString

LEMMA TemperatureImage ==
    ASSUME NEW v \in Image, NEW label, NEW value
    PROVE  DisplayTemperature(v, label, value) \in Image
  BY ClearType, StringType, DotType DEF DisplayTemperature

LEMMA CharacterType ==
    ASSUME NEW v \in Image, NEW position, NEW c, NEW withDot
    PROVE  ShowLetter(v, position, c) \in Image /\ ShowDigit(v, position, c, withDot) \in Image
  BY DrawTextType, DotType DEF ShowLetter, ShowDigit

LEMMA DateType ==
    ASSUME NEW day, NEW month, NEW year
    PROVE  ShowDate(day, month, year) \in Image
  <1>1. \A text : DrawText(FullClear, text, 5) \in Image
    BY ClearType, DrawTextType
  <1> QED
    BY <1>1, DotType DEF ShowDate

LEMMA SpecialType ==
    ASSUME NEW v \in Image, NEW type \in 0..3, NEW enable
    PROVE  ShowSpecial(v, type, enable) \in Image
  <1>1. IsBit(m_specials[type + 1])
    BY IconBits
  <1> QED
    BY <1>1, SwitchType DEF ShowSpecial

LEMMA ChargeType ==
    ASSUME NEW v \in Image, NEW level
    PROVE  ShowChargeLevel(v, level) \in Image
  <1> DEFINE bar(u, i) == Switch(u, m_chargeLevels[i + 1], i <= level)
  <1>1. ASSUME NEW u \in Image, NEW i \in 0..3 PROVE bar(u, i) \in Image
    <2>1. IsBit(m_chargeLevels[i + 1])
      BY IconBits
    <2> QED
      BY <2>1, SwitchType
  <1>2. ShowChargeLevel(v, level) = bar(bar(bar(bar(v, 0), 1), 2), 3)
    BY DEF ShowChargeLevel
  <1> HIDE DEF bar
  <1> QED
    BY <1>1, <1>2

LEMMA IntType ==
    ASSUME NEW v \in Image, NEW value
    PROVE  ShowInt(v, value) \in Image
  <1> DEFINE n     == IF value < 0 THEN -value ELSE value
             width == NumberOfDigits(n)
             text  == [i \in 1..width |-> DigitChar((n \div 10^(width - i)) % 10)]
             minus(place) == 4 * place + 2
             digits == DrawText(v, text, width - 1)
             overflow == [a \in Addresses |-> IF a \in {minus(p) : p \in Positions} THEN 1 ELSE v[a]]
  <1>1. 1 \in Byte
    BY DEF Byte
  <1>2. digits \in Image
    BY DrawTextType
  <1>3. overflow \in Image
    BY <1>1 DEF Image
  <1>4. [digits EXCEPT ![minus(5 - width)] = 1] \in Image
    <2> HIDE DEF digits, minus, width
    <2> QED
      BY <1>1, <1>2 DEF Image
  <1>5. ShowInt(v, value) \in {overflow, digits, [digits EXCEPT ![minus(5 - width)] = 1]}
    BY DEF ShowInt
  <1> HIDE DEF digits, overflow, minus, width
  <1> QED
    BY <1>2, <1>3, <1>4, <1>5
-----------------------------------------------------------------------------
LEMMA TenthsRange ==
    /\ \A value \in Int : Limited(value) \in Tenths
    /\ \A t \in Tenths : t \in Int /\ -99 <= t /\ t <= 999
    /\ 0 \in Tenths
  BY DEF Limited, Clamp, Tenths, LowestShown, HighestShown

(* An operation that draws an image leaves m_vram an image, and the glass  *)
(* nibbles.                                                                *)
ScreenType == vram \in Image /\ glass \in [Addresses -> 0..15]

LEMMA OperationType ==
    ASSUME ScreenType, NEW image \in Image, NEW flushNow, Operation(image, flushNow)
    PROVE  ScreenType'
  <1>1. [a \in Addresses |-> image[a] % 16] \in [Addresses -> 0..15]
    BY DEF Image, Byte
  <1> QED
    BY <1>1 DEF ScreenType, Operation

LEMMA ReplacingType ==
    ASSUME ScreenType, Replacing
    PROVE  ScreenType' /\ shown' = Nothing
  <1>1. PICK image \in Image : Replace(image)
    BY ClearType, DateType, StringType DEF Replacing, ScreenType
  <1> QED
    BY <1>1, OperationType DEF Replace

LEMMA OverdrawingType ==
    ASSUME ScreenType, Overdrawing
    PROVE  ScreenType' /\ shown' = Nothing
  <1>1. PICK image \in Image : Overdraw(image)
    BY CharacterType, DotType, IntType DEF Overdrawing, ScreenType
  <1> QED
    BY <1>1, OperationType DEF Overdraw

LEMMA DisplayNext ==
    ASSUME DisplayType, [MNext]_mvars
    PROVE  DisplayType'
  <1>1. ScreenType /\ shown.tenths \in Tenths
    BY DEF DisplayType, ScreenType, Image
  <1>2. SUFFICES ScreenType' /\ shown'.tenths \in Tenths
    BY DEF DisplayType, ScreenType, Image
  <1>3. ASSUME NEW label, NEW value \in Values, Temperature(label, value)
        PROVE  ScreenType' /\ shown'.tenths \in Tenths
    <2>1. ScreenType'
      BY <1>1, <1>3, TemperatureImage, OperationType DEF Temperature, ScreenType
    <2>2. shown'.tenths = Limited(value)
      BY <1>3 DEF Temperature
    <2> QED
      BY <2>1, <2>2, TenthsRange, ValuesAssumption
  <1>4. ASSUME NEW type \in {0, 2}, NEW enable, NEW flushNow, Special(type, enable, flushNow)
        PROVE  ScreenType' /\ shown'.tenths \in Tenths
    <2>1. type \in 0..3
      BY <1>4
    <2> QED
      BY <1>1, <1>4, <2>1, SpecialType, OperationType DEF Special, ScreenType
  <1>5. ASSUME NEW level, Charge(level)
        PROVE  ScreenType' /\ shown'.tenths \in Tenths
    BY <1>1, <1>5, ChargeType, OperationType DEF Charge, ScreenType
  <1>6. CASE Replacing \/ Overdrawing
    <2>1. ScreenType' /\ shown' = Nothing
      BY <1>1, <1>6, ReplacingType, OverdrawingType
    <2> QED
      BY <2>1, TenthsRange DEF Nothing
  <1>7. CASE UNCHANGED mvars
    BY <1>1, <1>7 DEF mvars, htvars, ScreenType
  <1> QED
    BY <1>3, <1>4, <1>5, <1>6, <1>7 DEF MNext

(* The indicator's RAM holds bytes, whatever is drawn over whatever, and   *)
(* the temperature shown fits its places.                                  *)
THEOREM DisplayTypeInvariance == MSpec => []DisplayType
  <1>1. MInit => DisplayType
    <2>1. \A a \in Addresses : FullClear[a] = 0
      BY DEF FullClear
    <2>2. FullClear \in [Addresses -> 0..15]
      BY DEF FullClear
    <2> QED
      BY <2>2, ClearType, TenthsRange DEF MInit, HTInit, DisplayType, Nothing, Image
  <1> QED
    BY <1>1, DisplayNext, PTL DEF MSpec
-----------------------------------------------------------------------------
(* A temperature is drawn between the bytes 1 and 24.                      *)
LEMMA TemperatureStays ==
    ASSUME NEW v \in Image, NEW label, NEW value, NEW a \in {0, 25, 26, 27}
    PROVE  DisplayTemperature(v, label, value)[a] = v[a]
  <1> DEFINE text   == TemperatureText(label, Limited(value))
             string == ShowString(ClearSegArea(v), text)
  <1>1. a \in Addresses /\ a \notin 1..24
    BY DEF Addresses
  <1>2. ASSUME NEW u \in Image PROVE ClearSegArea(u)[a] = u[a]
    BY <1>1 DEF ClearSegArea
  <1>3. ASSUME NEW u \in Image, NEW at PROVE DrawText(u, text, at)[a] = u[a]
    <2> HIDE DEF text
    <2> QED
      BY <1>1 DEF DrawText
  <1> HIDE DEF text
  <1>4. string \in Image /\ string[a] = v[a]
    <2>1. ClearSegArea(v) \in Image /\ ClearSegArea(ClearSegArea(v)) \in Image
      BY ClearType
    <2> QED
      BY <1>2, <1>3, <2>1, StringType DEF ShowString
  <1>5. m_dots[1].addr = 19 /\ IsBit(m_dots[1])
    BY IconBits DEF m_dots, Bits
  <1>6. DisplayTemperature(v, label, value) = SetBit(string, m_dots[1])
    BY DEF DisplayTemperature, ShowDot, Switch, text
  <1> HIDE DEF string
  <1>7. a # m_dots[1].addr
    BY <1>5
  <1> QED
    BY <1>1, <1>4, <1>5, <1>6, <1>7, SetBitType

(* A temperature leaves the icons that do not share a byte with a digit as *)
(* they are, whatever the indicator held.                                  *)
THEOREM IconsAreKept == MSpec => IconsKept
  <1> DEFINE icons == {m_specials[1], m_specials[2], m_specials[4]}
                        \cup {m_chargeLevels[i] : i \in 1..4}
             Kept  == shown' \notin {shown, Nothing}
                        => \A icon \in icons : IsLit(vram', icon) = IsLit(vram, icon)
  <1>1. \A icon \in icons : icon.addr \in {0, 25, 26, 27}
    BY DEF m_specials, m_chargeLevels, Bits
  <1> HIDE DEF icons
  <1>2. DisplayType /\ [MNext]_mvars => [Kept]_mvars
    <2> SUFFICES ASSUME DisplayType, MNext, shown' \notin {shown, Nothing},
                        NEW icon \in icons
                 PROVE  IsLit(vram', icon) = IsLit(vram, icon)
      OBVIOUS
    <2>1. ScreenType
      BY DEF DisplayType, ScreenType, Image
    <2>2. PICK label \in {"1", "2"}, value \in Values : Temperature(label, value)
      BY <2>1, ReplacingType, OverdrawingType DEF MNext, Special, Charge
    <2>3. vram' = DisplayTemperature(vram, label, value)
      BY <2>2 DEF Temperature, Operation
    <2>4. vram'[icon.addr] = vram[icon.addr]
      BY <1>1, <2>1, <2>3, TemperatureStays DEF ScreenType
    <2> QED
      BY <2>4 DEF IsLit
  <1> QED
    BY <1>2, DisplayTypeInvariance, PTL DEF MSpec, IconsKept, icons
-----------------------------------------------------------------------------
(* The characters a temperature is written with.                           *)
Chars == DOMAIN m_digits \cup {"t", "-", " "}

(* A digit replaces what is there.                                         *)
LEMMA DigitReplaces ==
    ASSUME NEW c \in DigitChars
    PROVE  \A old, k : Drawn(old, c, k) = m_digits[c][k]
  <1>1. c \in DOMAIN m_digits
    BY DEF m_digits
  <1> QED
    BY <1>1 DEF Drawn

Looks(c, first, second, third, fourth) ==
    /\ Drawn(0, c, 1) = first /\ Drawn(0, c, 2) = second
    /\ Drawn(0, c, 3) = third /\ Drawn(0, c, 4) = fourth

(* The minus and the space have names for the provers' sake.               *)
Segments(c, minus, space) ==
    \/ c = "0" /\ Looks(c, 3, 2, 1, 3)
    \/ c = "1" /\ Looks(c, 0, 0, 1, 2)
    \/ c = "2" /\ Looks(c, 2, 3, 0, 3)
    \/ c = "3" /\ Looks(c, 0, 3, 1, 3)
    \/ c = "4" /\ Looks(c, 1, 1, 1, 2)
    \/ c = "5" /\ Looks(c, 1, 3, 1, 1)
    \/ c = "6" /\ Looks(c, 3, 3, 1, 1)
    \/ c = "7" /\ Looks(c, 0, 0, 1, 3)
    \/ c = "8" /\ Looks(c, 3, 3, 1, 3)
    \/ c = "9" /\ Looks(c, 1, 3, 1, 3)
    \/ c = "t" /\ Looks(c, 3, 3, 0, 0)
    \/ c = minus /\ Looks(c, 0, 1, 0, 0)
    \/ c = space /\ Looks(c, 0, 0, 0, 0)

LEMMA CharSegments ==
    ASSUME NEW c \in Chars
    PROVE  Segments(c, "-", " ")
  <1>1. CASE c \in DigitChars
    <2>1. /\ c = "0" => m_digits[c] = <<3, 2, 1, 3>>
          /\ c = "1" => m_digits[c] = <<0, 0, 1, 2>>
          /\ c = "2" => m_digits[c] = <<2, 3, 0, 3>>
          /\ c = "3" => m_digits[c] = <<0, 3, 1, 3>>
          /\ c = "4" => m_digits[c] = <<1, 1, 1, 2>>
          /\ c = "5" => m_digits[c] = <<1, 3, 1, 1>>
          /\ c = "6" => m_digits[c] = <<3, 3, 1, 1>>
          /\ c = "7" => m_digits[c] = <<0, 0, 1, 3>>
          /\ c = "8" => m_digits[c] = <<3, 3, 1, 3>>
          /\ c = "9" => m_digits[c] = <<1, 3, 1, 3>>
      BY <1>1 DEF m_digits, DigitChars
    <2>2. ASSUME NEW p, NEW q, NEW r, NEW s, m_digits[c] = <<p, q, r, s>>
          PROVE  Looks(c, p, q, r, s)
      BY <1>1, <2>2, DigitReplaces DEF Looks
    <2>3. /\ c = "0" => Looks(c, 3, 2, 1, 3)
          /\ c = "1" => Looks(c, 0, 0, 1, 2)
          /\ c = "2" => Looks(c, 2, 3, 0, 3)
          /\ c = "3" => Looks(c, 0, 3, 1, 3)
          /\ c = "4" => Looks(c, 1, 1, 1, 2)
          /\ c = "5" => Looks(c, 1, 3, 1, 1)
          /\ c = "6" => Looks(c, 3, 3, 1, 1)
          /\ c = "7" => Looks(c, 0, 0, 1, 3)
          /\ c = "8" => Looks(c, 3, 3, 1, 3)
          /\ c = "9" => Looks(c, 1, 3, 1, 3)
      BY <2>1, <2>2
    <2> QED
      BY <1>1, <2>3, Zenon DEF DigitChars, Segments
  <1>2. CASE c = "t"
    <2>1. c \notin DOMAIN m_digits /\ c \in DOMAIN m_letters /\ m_letters[c] = <<3, 3, 0, 0>>
      BY <1>2 DEF m_digits, DigitChars, m_letters, alphabet
    <2>2. Looks(c, 3, 3, 0, 0)
      BY <1>2, <2>1 DEF Drawn, Looks
    <2> QED
      BY <1>2, <2>2, Zenon DEF Segments
  <1>3. CASE c = "-"
    <2>1. c \notin DOMAIN m_digits /\ c \in DOMAIN m_letters /\ m_letters[c] = <<0, 1, 0, 0>>
      BY <1>3 DEF m_digits, DigitChars, m_letters
    <2>2. Looks(c, 0, 1, 0, 0)
      BY <2>1 DEF Drawn, Looks
    <2> QED
      BY <1>3, <2>2, Zenon DEF Segments
  <1>4. CASE c = " "
    <2>1. c \notin DOMAIN m_digits /\ c \notin DOMAIN m_letters
      BY <1>4 DEF m_digits, DigitChars, m_letters, alphabet
    <2>2. Looks(c, 0, 0, 0, 0)
      BY <2>1 DEF Drawn, Looks
    <2> QED
      BY <1>4, <2>2, Zenon DEF Segments
  <1>5. DOMAIN m_digits = DigitChars
    BY DEF m_digits
  <1> QED
    BY <1>1, <1>2, <1>3, <1>4, <1>5 DEF Chars

(* The characters of a temperature look different, and none of them lights *)
(* the point in its third byte.                                            *)
LEMMA CharSmall ==
    ASSUME NEW c \in Chars, NEW k \in 1..4
    PROVE  /\ Drawn(0, c, k) \in Nat /\ Drawn(0, c, k) <= 3
           /\ k = 3 => Drawn(0, c, k) <= 1
  <1> DEFINE Fits(first, second, third, fourth) ==
               /\ \A b \in {first, second, third, fourth} : b \in Nat /\ b <= 3
               /\ third <= 1
  <1>1. ASSUME NEW p, NEW q, NEW r, NEW s, Fits(p, q, r, s), Looks(c, p, q, r, s)
        PROVE  /\ Drawn(0, c, k) \in Nat /\ Drawn(0, c, k) <= 3
               /\ k = 3 => Drawn(0, c, k) <= 1
    <2>1. k = 1 \/ k = 2 \/ k = 3 \/ k = 4
      OBVIOUS
    <2> QED
      BY <1>1, <2>1 DEF Looks
  <1>2. \A p, q, r, s \in {0, 1, 2, 3} : r \in {0, 1} => Fits(p, q, r, s)
    OBVIOUS
  <1> HIDE DEF Fits
  <1>3. PICK p, q, r, s \in {0, 1, 2, 3} : r \in {0, 1} /\ Looks(c, p, q, r, s)
    BY CharSegments, Zenon DEF Segments
  <1>4. Fits(p, q, r, s)
    BY <1>2, <1>3
  <1> QED
    BY <1>1, <1>3, <1>4

LEMMA CharsDiffer ==
    ASSUME NEW c \in Chars, NEW d \in Chars, Look(c) = Look(d)
    PROVE  c = d
  <1>1. \A e : /\ Look(e)[1] = Drawn(0, e, 1) /\ Look(e)[2] = Drawn(0, e, 2)
               /\ Look(e)[3] = Drawn(0, e, 3) /\ Look(e)[4] = Drawn(0, e, 4)
    BY DEF Look
  <1>2. /\ Drawn(0, c, 1) = Drawn(0, d, 1) /\ Drawn(0, c, 2) = Drawn(0, d, 2)
        /\ Drawn(0, c, 3) = Drawn(0, d, 3) /\ Drawn(0, c, 4) = Drawn(0, d, 4)
    BY <1>1
  <1>3. Segments(c, "-", " ") /\ Segments(d, "-", " ")
    BY CharSegments
  <1>4. /\ Drawn(0, c, 1) \in Nat /\ Drawn(0, c, 2) \in Nat
        /\ Drawn(0, c, 3) \in Nat /\ Drawn(0, c, 4) \in Nat
    BY CharSmall
  <1>5. ASSUME NEW minus, NEW space, Segments(c, minus, space), Segments(d, minus, space)
        PROVE  c = d
    BY <1>2, <1>4, <1>5 DEF Segments, Looks
  <1> QED
    BY <1>3, <1>5, Zenon
-----------------------------------------------------------------------------
(* The text of a temperature: six of these characters, the last two of     *)
(* them digits.                                                            *)
LEMMA DigitCharType ==
    ASSUME NEW n \in 0..9
    PROVE  DigitChar(n) \in DigitChars
  <1>1. n = 0 \/ n = 1 \/ n = 2 \/ n = 3 \/ n = 4 \/ n = 5 \/ n = 6 \/ n = 7 \/ n = 8 \/ n = 9
    OBVIOUS
  <1> QED
    BY <1>1 DEF DigitChar, DigitChars

LEMMA TextType ==
    ASSUME NEW label \in {"1", "2"}, NEW t \in Tenths
    PROVE  /\ DOMAIN TemperatureText(label, t) = 1..6 /\ Len(TemperatureText(label, t)) = 6
           /\ \A i \in 1..6 : TemperatureText(label, t)[i] \in Chars
           /\ \A i \in 5..6 : TemperatureText(label, t)[i] \in DigitChars
  <1> DEFINE whole == Abs32(t) \div 10
             sign  == IF t < 0 THEN "-" ELSE DigitChar(whole \div 10)
             ones  == DigitChar(whole % 10)
             tenth == DigitChar(Abs32(t) % 10)
  <1>1. Abs32(t) \in Nat /\ whole \in Nat
    BY TenthsRange DEF Abs32
  <1>2. t >= 0 => whole \div 10 \in 0..9
    BY TenthsRange DEF Abs32
  <1>3. whole % 10 \in 0..9 /\ Abs32(t) % 10 \in 0..9
    BY <1>1
  <1>4. ones \in DigitChars /\ tenth \in DigitChars
    BY <1>3, DigitCharType
  <1>5. DigitChars \subseteq Chars /\ {"t", "-", " ", "1", "2"} \subseteq Chars
    BY DEF Chars, m_digits, DigitChars
  <1>6. sign \in Chars
    <2>1. t \in Int
      BY TenthsRange
    <2>2. t >= 0 => DigitChar(whole \div 10) \in DigitChars
      BY <1>2, DigitCharType
    <2>3. CASE t < 0
      <3>1. sign = "-"
        BY <2>3
      <3> QED
        BY <1>5, <3>1
    <2>4. CASE ~(t < 0)
      <3>1. t >= 0 /\ sign = DigitChar(whole \div 10)
        BY <2>1, <2>4
      <3> HIDE DEF sign, whole
      <3> QED
        BY <1>5, <2>2, <3>1
    <2> QED
      BY <2>3, <2>4
  <1> DEFINE space == " "
  <1>7. TemperatureText(label, t) = <<"t", label, space, sign, ones, tenth>>
    BY Zenon DEF TemperatureText
  <1>10. space \in Chars
    BY <1>5, Zenon
  <1> HIDE DEF sign, ones, tenth, space
  <1>8. label \in Chars
    BY <1>5
  <1>9. ASSUME NEW text, text = <<"t", label, space, sign, ones, tenth>>
        PROVE  /\ DOMAIN text = 1..6 /\ Len(text) = 6
               /\ \A i \in 1..6 : text[i] \in Chars
               /\ \A i \in 5..6 : text[i] \in DigitChars
    <2>1. /\ text[1] = "t" /\ text[2] = label /\ text[3] = space
          /\ text[4] = sign /\ text[5] = ones /\ text[6] = tenth
      BY <1>9
    <2>2. text \in Seq(Chars) /\ DOMAIN text = 1..6 /\ Len(text) = 6
      <3>1. ones \in Chars /\ tenth \in Chars /\ "t" \in Chars
        BY <1>4, <1>5
      <3> QED
        BY <1>6, <1>8, <1>9, <1>10, <3>1
    <2>3. \A i \in 1..6 : i = 1 \/ i = 2 \/ i = 3 \/ i = 4 \/ i = 5 \/ i = 6
      OBVIOUS
    <2>4. "t" \in Chars /\ space \in Chars /\ ones \in Chars /\ tenth \in Chars
      BY <1>4, <1>5, <1>10
    <2>5. ASSUME NEW i \in 1..6 PROVE text[i] \in Chars
      BY <1>6, <1>8, <2>1, <2>3, <2>4
    <2>6. ASSUME NEW i \in 5..6 PROVE text[i] \in DigitChars
      <3>1. i = 5 \/ i = 6
        OBVIOUS
      <3> QED
        BY <1>4, <2>1, <3>1
    <2> QED
      BY <2>2, <2>5, <2>6
  <1> QED
    BY <1>7, <1>9
-----------------------------------------------------------------------------
(* The character of a text that has the byte a, and its segments in it.    *)
Place(a) == ((a - 1) \div 4) + 1
ByteOf(a) == ((a - 1) % 4) + 1
Segment(text, a) == Drawn(0, text[Place(a)], ByteOf(a))

(* RAM that shows a text of six characters: the segments of each and       *)
(* nothing else but the point before the last, whatever the bit of the     *)
(* icon "k" in the last digit.                                             *)
Shows(v, text) ==
    /\ v[23] % 2 = Segment(text, 23)
    /\ v[19] = Segment(text, 19) + 2
    /\ \A a \in 1..24 : a \notin {19, 23} => v[a] = Segment(text, a)

(* A text of six characters of which the last two are digits.              *)
IsText(text) ==
    /\ DOMAIN text = 1..6 /\ Len(text) = 6
    /\ \A i \in 1..6 : text[i] \in Chars
    /\ \A i \in 5..6 : text[i] \in DigitChars

LEMMA Places ==
    ASSUME NEW a \in 1..24
    PROVE  /\ Place(a) \in 1..6 /\ ByteOf(a) \in 1..4
           /\ a = 19 => Place(a) = 5 /\ ByteOf(a) = 3
           /\ a = 23 => Place(a) = 6 /\ ByteOf(a) = 3
  BY DEF Place, ByteOf

LEMMA SegmentSmall ==
    ASSUME NEW text, IsText(text), NEW a \in 1..24
    PROVE  /\ Segment(text, a) \in Nat /\ Segment(text, a) <= 3
           /\ ByteOf(a) = 3 => Segment(text, a) <= 1
  <1>1. text[Place(a)] \in Chars
    BY Places DEF IsText
  <1> QED
    BY <1>1, Places, CharSmall DEF Segment

LEMMA TextDrawn ==
    ASSUME NEW v, NEW text, IsText(text), NEW a \in 1..24
    PROVE  DrawText(v, text, 5)[a] = Drawn(v[a], text[Place(a)], ByteOf(a))
  <1> DEFINE position == 5 - (a - 1) \div 4
             i        == 5 - position + 1
  <1>1. a \in Addresses
    BY DEF Addresses
  <1>2. i = Place(a) /\ Place(a) \in DOMAIN text
    BY Places DEF Place, IsText
  <1>3. DrawText(v, text, 5)[a] =
          IF a \in 1..24 /\ i \in DOMAIN text
          THEN Drawn(v[a], text[i], ((a - 1) % 4) + 1) ELSE v[a]
    BY <1>1 DEF DrawText
  <1> HIDE DEF i
  <1> QED
    BY <1>2, <1>3 DEF ByteOf

(* A text drawn on a cleared area with the point set after it is shown.    *)
LEMMA StringShows ==
    ASSUME NEW v \in Image, NEW text, IsText(text)
    PROVE  LET string == ShowString(ClearSegArea(v), text)
           IN string \in Image /\ \A a \in 1..24 : string[a] = Segment(text, a)
  <1> DEFINE clean  == ClearSegArea(ClearSegArea(v))
             string == ShowString(ClearSegArea(v), text)
  <1>1. ClearSegArea(v) \in Image /\ string \in Image
    BY ClearType, StringType
  <1>2. \A a \in 1..24 : a # 23 => clean[a] = 0
    BY DEF ClearSegArea, Addresses
  <1>3. string = DrawText(clean, text, 5)
    BY DEF ShowString, IsText
  <1> HIDE DEF clean, string
  <1>4. ASSUME NEW a \in 1..24 PROVE string[a] = Segment(text, a)
    <2>1. string[a] = Drawn(clean[a], text[Place(a)], ByteOf(a))
      BY <1>3, TextDrawn
    <2>2. CASE a = 23
      <3>1. text[Place(a)] \in DigitChars
        BY <2>2, Places DEF IsText
      <3> QED
        BY <2>1, <3>1, DigitReplaces DEF Segment
    <2>3. CASE a # 23
      BY <1>2, <2>1, <2>3 DEF Segment
    <2> QED
      BY <2>2, <2>3
  <1> QED
    BY <1>1, <1>4 DEF string

LEMMA TemperatureShows ==
    ASSUME NEW v \in Image, NEW label \in {"1", "2"}, NEW value \in Int
    PROVE  Shows(DisplayTemperature(v, label, value), TemperatureText(label, Limited(value)))
  <1> DEFINE text   == TemperatureText(label, Limited(value))
             string == ShowString(ClearSegArea(v), text)
  <1>1. IsText(text)
    BY TextType, TenthsRange DEF IsText
  <1>2. DisplayTemperature(v, label, value) = SetBit(string, m_dots[1])
    BY DEF DisplayTemperature, ShowDot, Switch
  <1> HIDE DEF text
  <1>3. string \in Image /\ \A a \in 1..24 : string[a] = Segment(text, a)
    BY <1>1, StringShows
  <1> HIDE DEF string
  <1>4. m_dots[1].addr = 19 /\ m_dots[1].val = 2
    BY DEF m_dots, Bits
  <1>5. \A a \in 1..24 : Segment(text, a) \in Nat /\ (ByteOf(a) = 3 => Segment(text, a) <= 1)
    BY <1>1, SegmentSmall
  <1>6. ByteOf(19) = 3 /\ ByteOf(23) = 3
    BY DEF ByteOf
  <1>7. ~IsLit(string, m_dots[1])
    BY <1>3, <1>4, <1>5, <1>6 DEF IsLit
  <1>8. SetBit(string, m_dots[1]) = [string EXCEPT ![19] = @ + 2]
    BY <1>4, <1>7 DEF SetBit
  <1>9. DOMAIN string = Addresses /\ 1..24 \subseteq Addresses
    BY <1>3 DEF Image, Addresses
  <1>10. Segment(text, 23) % 2 = Segment(text, 23)
    BY <1>5, <1>6
  <1>11. Shows([string EXCEPT ![19] = @ + 2], text)
    BY <1>3, <1>9, <1>10 DEF Shows
  <1> QED
    BY <1>2, <1>8, <1>11 DEF text

(* The chip keeps four bits of a byte: what is shown stays.                *)
LEMMA FlushShows ==
    ASSUME NEW v \in Image, NEW text, IsText(text), Shows(v, text)
    PROVE  Shows([a \in Addresses |-> v[a] % 16], text)
  <1> DEFINE nibbles == [a \in Addresses |-> v[a] % 16]
  <1>1. \A a \in 1..24 : nibbles[a] = v[a] % 16 /\ v[a] \in Byte
    BY DEF Image, Addresses
  <1> HIDE DEF nibbles
  <1>2. \A a \in 1..24 : Segment(text, a) \in Nat /\ Segment(text, a) <= 3
    BY SegmentSmall
  <1>3. \A b \in Nat : (b % 16) % 2 = b % 2 /\ (b <= 5 => b % 16 = b)
    OBVIOUS
  <1>4. nibbles[23] % 2 = Segment(text, 23)
    BY <1>1, <1>3, ByteIsNatural DEF Shows
  <1>5. nibbles[19] = Segment(text, 19) + 2
    BY <1>1, <1>2, <1>3 DEF Shows
  <1>6. ASSUME NEW a \in 1..24, a \notin {19, 23} PROVE nibbles[a] = Segment(text, a)
    <2>1. v[a] = Segment(text, a)
      BY <1>6 DEF Shows
    <2>2. v[a] \in Nat /\ v[a] <= 3
      BY <1>2, <2>1
    <2>3. nibbles[a] = v[a] % 16
      BY <1>1
    <2> QED
      BY <1>3, <2>1, <2>2, <2>3
  <1> QED
    BY <1>4, <1>5, <1>6 DEF Shows, nibbles

(* An icon: a bit outside the text, or the second of the last digit.       *)
IsIcon(b) == IsBit(b) /\ (b.addr \in 1..24 => b.addr = 23 /\ b.val = 2)

LEMMA IconsAside ==
    /\ IsIcon(m_specials[1]) /\ IsIcon(m_specials[3])
    /\ \A i \in 1..4 : IsIcon(m_chargeLevels[i])
  <1>1. IsIcon(m_specials[1]) /\ IsIcon(m_specials[3])
    BY IconBits DEF IsIcon, m_specials, Bits
  <1>2. \A i \in 1..4 : IsIcon(m_chargeLevels[i])
    BY IconBits DEF IsIcon, m_chargeLevels, Bits
  <1> QED
    BY <1>1, <1>2

LEMMA IconShows ==
    ASSUME NEW v \in Image, NEW text, IsText(text), Shows(v, text), NEW b, IsIcon(b), NEW enable
    PROVE  Switch(v, b, enable) \in Image /\ Shows(Switch(v, b, enable), text)
  <1> DEFINE w == Switch(v, b, enable)
  <1>1. IsBit(b) /\ b.addr \in Addresses
    BY DEF IsIcon, IsBit
  <1>2. w \in Image
    BY <1>1, SwitchType
  <1>3. \A a \in 1..24 : a \in Addresses
    BY DEF Addresses
  <1>4. \A a \in Addresses : a # b.addr => w[a] = v[a]
    BY <1>1 DEF Switch, SetBit, ClearBit, Image
  <1>5. w[b.addr] \in {v[b.addr], v[b.addr] + b.val, v[b.addr] - b.val}
    BY <1>1 DEF Switch, SetBit, ClearBit, Image
  <1>6. v[b.addr] \in Nat
    BY <1>1 DEF Image, Byte
  <1> HIDE DEF w
  <1>7. CASE b.addr \in 1..24
    <2>1. b.addr = 23 /\ b.val = 2
      BY <1>7 DEF IsIcon
    <2>2. w[23] % 2 = v[23] % 2
      BY <1>5, <1>6, <2>1
    <2>3. \A a \in 1..24 : a # 23 => w[a] = v[a]
      BY <1>3, <1>4, <2>1
    <2>4. Shows(w, text)
      BY <2>2, <2>3 DEF Shows
    <2> QED
      BY <1>2, <2>4 DEF w
  <1>8. CASE b.addr \notin 1..24
    <2>1. \A a \in 1..24 : w[a] = v[a]
      BY <1>3, <1>4, <1>8
    <2>2. Shows(w, text)
      BY <2>1 DEF Shows
    <2> QED
      BY <1>2, <2>2 DEF w
  <1> QED
    BY <1>7, <1>8

LEMMA SpecialShows ==
    ASSUME NEW v \in Image, NEW text, IsText(text), Shows(v, text),
           NEW type \in {0, 2}, NEW enable
    PROVE  Shows(ShowSpecial(v, type, enable), text)
  <1>1. IsIcon(m_specials[type + 1])
    BY IconsAside
  <1> QED
    BY <1>1, IconShows DEF ShowSpecial

LEMMA ChargeShows ==
    ASSUME NEW v \in Image, NEW text, IsText(text), Shows(v, text), NEW level
    PROVE  Shows(ShowChargeLevel(v, level), text)
  <1> DEFINE bar(u, i) == Switch(u, m_chargeLevels[i + 1], i <= level)
             Good(u)   == u \in Image /\ Shows(u, text)
  <1>1. ASSUME NEW u, Good(u), NEW i \in 0..3 PROVE Good(bar(u, i))
    <2>1. IsIcon(m_chargeLevels[i + 1])
      BY IconsAside
    <2> QED
      BY <1>1, <2>1, IconShows
  <1>2. ShowChargeLevel(v, level) = bar(bar(bar(bar(v, 0), 1), 2), 3)
    BY DEF ShowChargeLevel
  <1>3. Good(v)
    OBVIOUS
  <1> HIDE DEF bar, Good
  <1>4. Good(bar(bar(bar(bar(v, 0), 1), 2), 3))
    BY <1>1, <1>3
  <1> QED
    BY <1>2, <1>4 DEF Good
-----------------------------------------------------------------------------
(* While a temperature is shown, m_vram and the glass show its text.       *)
ShownText == TemperatureText(shown.label, shown.tenths)
ShownInv ==
    shown # Nothing =>
        /\ shown.label \in {"1", "2"} /\ shown.tenths \in Tenths
        /\ Shows(vram, ShownText) /\ Shows(glass, ShownText)

LEMMA ShownIsText ==
    ASSUME ShownInv, shown # Nothing
    PROVE  IsText(ShownText)
  BY TextType DEF ShownInv, ShownText, IsText

LEMMA ShownNext ==
    ASSUME ScreenType, ShownInv, [MNext]_mvars
    PROVE  ShownInv'
  <1>1. ASSUME NEW label \in {"1", "2"}, NEW value \in Values, Temperature(label, value)
        PROVE  ShownInv'
    <2> DEFINE image == DisplayTemperature(vram, label, value)
               text  == TemperatureText(label, Limited(value))
    <2>1. value \in Int /\ Limited(value) \in Tenths
      BY TenthsRange, ValuesAssumption
    <2>2. image \in Image /\ Shows(image, text) /\ IsText(text)
      BY <2>1, TemperatureImage, TemperatureShows, TextType DEF ScreenType, IsText
    <2>3. Shows([a \in Addresses |-> image[a] % 16], text)
      BY <2>2, FlushShows
    <2>4. vram' = image /\ glass' = [a \in Addresses |-> image[a] % 16]
      BY <1>1 DEF Temperature, Operation
    <2>5. shown'.label = label /\ shown'.tenths = Limited(value)
      BY <1>1 DEF Temperature
    <2>6. ShownText' = text
      BY <2>5 DEF ShownText
    <2> HIDE DEF image, text
    <2>7. Shows(vram', ShownText') /\ Shows(glass', ShownText')
      BY <2>2, <2>3, <2>4, <2>6
    <2> QED
      BY <2>1, <2>5, <2>7 DEF ShownInv
  <1>2. ASSUME NEW image \in Image, NEW flushNow, Operation(image, flushNow), UNCHANGED shown,
               \A text : IsText(text) /\ Shows(vram, text) => Shows(image, text)
        PROVE  ShownInv'
    <2> SUFFICES ASSUME shown # Nothing
                 PROVE  Shows(vram', ShownText) /\ Shows(glass', ShownText)
      BY <1>2 DEF ShownInv, ShownText
    <2>1. IsText(ShownText) /\ Shows(vram, ShownText) /\ Shows(glass, ShownText)
      BY ShownIsText DEF ShownInv
    <2>2. Shows(image, ShownText) /\ Shows([a \in Addresses |-> image[a] % 16], ShownText)
      BY <1>2, <2>1, FlushShows
    <2> QED
      BY <1>2, <2>1, <2>2 DEF Operation
  <1>3. ASSUME NEW type \in {0, 2}, NEW enable, NEW flushNow, Special(type, enable, flushNow)
        PROVE  ShownInv'
    <2>1. type \in 0..3
      BY <1>3
    <2> QED
      BY <1>2, <1>3, <2>1, SpecialType, SpecialShows DEF Special, ScreenType
  <1>4. ASSUME NEW level, Charge(level)
        PROVE  ShownInv'
    BY <1>2, <1>4, ChargeType, ChargeShows DEF Charge, ScreenType
  <1>5. CASE Replacing \/ Overdrawing
    <2>1. shown' = Nothing
      BY <1>5, ReplacingType, OverdrawingType
    <2> QED
      BY <2>1 DEF ShownInv
  <1>6. CASE UNCHANGED mvars
    BY <1>6 DEF mvars, htvars, ShownInv, ShownText
  <1> QED
    BY <1>1, <1>3, <1>4, <1>5, <1>6 DEF MNext
-----------------------------------------------------------------------------
(* What the glass shows of a position is its character on its own.         *)
LEMMA SeenAlone ==
    ASSUME ScreenType, NEW text, IsText(text), Shows(glass, text), NEW position \in Positions
    PROVE  LookAt(position) = Look(text[6 - position])
  <1> DEFINE seen(k) == LET nibble == glass[4 * (5 - position) + k]
                        IN IF k = 3 THEN nibble % 2 ELSE nibble % 4
  <1>1. ASSUME NEW k \in 1..4 PROVE seen(k) = Drawn(0, text[6 - position], k)
    <2> DEFINE a == 4 * (5 - position) + k
    <2>1. a \in 1..24 /\ Place(a) = 6 - position /\ ByteOf(a) = k
      BY DEF Positions, Place, ByteOf
    <2>2. Segment(text, a) = Drawn(0, text[6 - position], k)
      BY <2>1 DEF Segment
    <2>3. /\ Segment(text, a) \in Nat /\ Segment(text, a) <= 3
          /\ k = 3 => Segment(text, a) <= 1
      BY <2>1, SegmentSmall
    <2>4. a \in {19, 23} => k = 3
      BY DEF Positions
    <2>5. seen(k) = IF k = 3 THEN glass[a] % 2 ELSE glass[a] % 4
      OBVIOUS
    <2> HIDE DEF a, seen
    <2>6. CASE a = 23
      BY <2>2, <2>4, <2>5, <2>6 DEF Shows
    <2>7. CASE a = 19
      BY <2>2, <2>3, <2>4, <2>5, <2>7 DEF Shows
    <2>8. CASE a \notin {19, 23}
      <3>1. glass[a] = Segment(text, a)
        BY <2>1, <2>8 DEF Shows
      <3> QED
        BY <2>2, <2>3, <2>5, <3>1
    <2> QED
      BY <2>6, <2>7, <2>8
  <1>2. LookAt(position) = [k \in 1..4 |-> seen(k)]
    BY DEF LookAt
  <1> HIDE DEF seen
  <1> QED
    BY <1>1, <1>2 DEF Look

LEMMA ReadOneWay ==
    ASSUME ScreenType, NEW text, IsText(text), Shows(glass, text), NEW position \in Positions
    PROVE  CanBeReadAs(position) = {text[6 - position]}
  <1> DEFINE c == text[6 - position]
  <1>1. c \in Chars
    BY DEF IsText, Positions
  <1>2. CanBeReadAs(position) = {d \in Chars : Look(d) = LookAt(position)}
    BY Zenon DEF CanBeReadAs, Chars
  <1>3. LookAt(position) = Look(c)
    BY SeenAlone
  <1> HIDE DEF c
  <1>4. \A d \in Chars : Look(d) = Look(c) => d = c
    BY <1>1, CharsDiffer
  <1>5. {d \in Chars : Look(d) = LookAt(position)} = {c}
    BY <1>1, <1>3, <1>4
  <1> QED
    BY <1>2, <1>5 DEF c

LEMMA OnePoint ==
    ASSUME NEW text, IsText(text), Shows(glass, text)
    PROVE  {position \in 1..5 : IsLit(glass, m_dots[position])} = {1}
  <1>1. ASSUME NEW position \in 1..5
        PROVE  IsLit(glass, m_dots[position]) <=> position = 1
    <2> DEFINE a == 4 * (5 - position) + 3
    <2>1. m_dots[position].addr = a /\ m_dots[position].val = 2
      BY DEF m_dots, Bits
    <2>2. a \in 1..24 /\ ByteOf(a) = 3 /\ a # 23 /\ (a = 19 <=> position = 1)
      BY DEF ByteOf
    <2> HIDE DEF a
    <2>3. Segment(text, a) \in Nat /\ Segment(text, a) <= 1
      BY <2>2, SegmentSmall
    <2>4. glass[a] = Segment(text, a) + (IF position = 1 THEN 2 ELSE 0)
      BY <2>2, <2>3 DEF Shows
    <2> QED
      BY <2>1, <2>3, <2>4 DEF IsLit
  <1> QED
    BY <1>1

(* Whatever was drawn before and whatever icons were switched since, the   *)
(* temperature shown can be read off the glass, and in one way only.       *)
THEOREM TemperatureIsReadable == MSpec => []TemperatureReadable
  <1>1. MInit => ShownInv
    BY DEF MInit, ShownInv
  <1>2. DisplayType => ScreenType
    BY DEF DisplayType, ScreenType, Image
  <1>3. DisplayType /\ ShownInv /\ [MNext]_mvars => ShownInv'
    BY <1>2, ShownNext
  <1>4. DisplayType /\ ShownInv => TemperatureReadable
    <2> SUFFICES ASSUME DisplayType, ShownInv, shown # Nothing
                 PROVE  /\ \A position \in Positions :
                             CanBeReadAs(position) = {ShownText[6 - position]}
                        /\ {position \in 1..5 : IsLit(glass, m_dots[position])} = {1}
      BY DEF TemperatureReadable, ShownText
    <2>1. IsText(ShownText) /\ Shows(glass, ShownText)
      BY ShownIsText DEF ShownInv
    <2> QED
      BY <1>2, <2>1, ReadOneWay, OnePoint
  <1> QED
    BY <1>1, <1>3, <1>4, DisplayTypeInvariance, PTL DEF MSpec
=============================================================================
