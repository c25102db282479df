-------------------------- MODULE EffectUpdates_proofs --------------------------
(***************************************************************************)
(* The effect shown and the pixel programs sent, for any programs of the   *)
(* fixture, any profile and any number of calls, panel turns and losses.   *)
(*                                                                         *)
(* What is shown: what a page that was reported says is still shown until  *)
(* the page changes.  Two pages of a dual-page effect have no parameter in *)
(* common, so merging one leaves what the other said; and a pixel call     *)
(* that is confirmed keeps every page reported since it began.             *)
(*                                                                         *)
(* What is sent: in every layout of a pixel page the fields lie apart, so  *)
(* that a page rebuilt with another playback and brightness decodes to     *)
(* itself but for those two; the app's defaults have every page their own  *)
(* control page calls for; and all that is shown of a pixel effect are     *)
(* pages of it, each under its own key.                                    *)
(*                                                                         *)
(* What is kept: a value that was reported in range is sent again as it    *)
(* is, in every layout of commands 7, 33 and 34, and a value that a setter *)
(* asks for is sent as asked; so a rebuilt effect is the running one but   *)
(* for what was asked.  The lemmas go from a field to a packet, from a     *)
(* packet to a call, and from a call to the steps between its packets.     *)
(***************************************************************************)
EXTENDS EffectUpdates, TLAPS

-------------------------------------------------------------------------------
(* Bits.  A field has at most ten of them; the powers of two of a width    *)
(* that is not a literal are looked up.                                    *)

Pow(n) == <<1, 2, 4, 8, 16, 32, 64, 128, 256, 512, 1024>>[n + 1]

LEMMA Powers ==
  ASSUME NEW n \in 0..10
  PROVE  2^n = Pow(n) /\ Pow(n) \in Nat
<1>0. CASE n = 0
  BY <1>0 DEF Pow
<1>1. CASE n = 1
  BY <1>1 DEF Pow
<1>2. CASE n = 2
  BY <1>2 DEF Pow
<1>3. CASE n = 3
  BY <1>3 DEF Pow
<1>4. CASE n = 4
  BY <1>4 DEF Pow
<1>5. CASE n = 5
  BY <1>5 DEF Pow
<1>6. CASE n = 6
  BY <1>6 DEF Pow
<1>7. CASE n = 7
  BY <1>7 DEF Pow
<1>8. CASE n = 8
  BY <1>8 DEF Pow
<1>9. CASE n = 9
  BY <1>9 DEF Pow
<1>10. CASE n = 10
  BY <1>10 DEF Pow
<1> QED  BY <1>0, <1>1, <1>2, <1>3, <1>4, <1>5, <1>6, <1>7, <1>8, <1>9, <1>10

LEMMA Doubles ==
  ASSUME NEW i \in 1..10, NEW j, i = j + 1
  PROVE  Pow(i) = 2 * Pow(j) /\ Pow(j) \in Nat
<1>1. CASE i = 1
  BY <1>1 DEF Pow
<1>2. CASE i = 2
  BY <1>2 DEF Pow
<1>3. CASE i = 3
  BY <1>3 DEF Pow
<1>4. CASE i = 4
  BY <1>4 DEF Pow
<1>5. CASE i = 5
  BY <1>5 DEF Pow
<1>6. CASE i = 6
  BY <1>6 DEF Pow
<1>7. CASE i = 7
  BY <1>7 DEF Pow
<1>8. CASE i = 8
  BY <1>8 DEF Pow
<1>9. CASE i = 9
  BY <1>9 DEF Pow
<1>10. CASE i = 10
  BY <1>10 DEF Pow
<1> QED  BY <1>1, <1>2, <1>3, <1>4, <1>5, <1>6, <1>7, <1>8, <1>9, <1>10

(* The value of a field, bit by bit from the highest.                      *)
Bit(p, n) == IF n \in p.bits THEN 1 ELSE 0
Horner(c, p, at, width) ==
  /\ c[0] = 0 /\ Value(p, at, width) = c[width]
  /\ \A i \in 1..width, j \in 0..width : i = j + 1 => c[i] = 2 * c[j] + Bit(p, at + width - i)

LEMMA Unrolled ==
  ASSUME NEW p, NEW at \in Int, NEW width \in 1..10
  PROVE  \E c : Horner(c, p, at, width)
<1> DEFINE b(i) == Bit(p, at + width - i)
           D(h) == [i \in 0..width |-> IF i = 0 THEN 0
                      ELSE 2 * h[i - 1] + IF at + width - i \in p.bits THEN 1 ELSE 0]
           s1 == b(1)            s2 == 2 * s1 + b(2)   s3 == 2 * s2 + b(3)
           s4 == 2 * s3 + b(4)   s5 == 2 * s4 + b(5)   s6 == 2 * s5 + b(6)
           s7 == 2 * s6 + b(7)   s8 == 2 * s7 + b(8)   s9 == 2 * s8 + b(9)
           s10 == 2 * s9 + b(10)
           all == <<s1, s2, s3, s4, s5, s6, s7, s8, s9, s10>>
           w == [i \in 0..width |-> IF i = 0 THEN 0 ELSE all[i]]
           c == CHOOSE h : h = D(h)
<1>1. w = D(w)
  <2>1. b(1) \in Int
    BY DEF Bit
  <2> HIDE DEF b
  <2>2. /\ s1 = 2 * 0 + b(1) /\ s2 = 2 * s1 + b(2) /\ s3 = 2 * s2 + b(3) /\ s4 = 2 * s3 + b(4)
        /\ s5 = 2 * s4 + b(5) /\ s6 = 2 * s5 + b(6) /\ s7 = 2 * s6 + b(7) /\ s8 = 2 * s7 + b(8)
        /\ s9 = 2 * s8 + b(9) /\ s10 = 2 * s9 + b(10)
    BY <2>1
  <2> HIDE DEF s1, s2, s3, s4, s5, s6, s7, s8, s9, s10
  <2>3. /\ all[1] = 2 * 0 + b(1)
        /\ all[2] = 2 * all[1] + b(2) /\ all[3] = 2 * all[2] + b(3)
        /\ all[4] = 2 * all[3] + b(4) /\ all[5] = 2 * all[4] + b(5)
        /\ all[6] = 2 * all[5] + b(6) /\ all[7] = 2 * all[6] + b(7)
        /\ all[8] = 2 * all[7] + b(8) /\ all[9] = 2 * all[8] + b(9)
        /\ all[10] = 2 * all[9] + b(10)
    BY <2>2
  <2> HIDE DEF all
  <2>4. \A i \in 1..10 : all[i] = 2 * (IF i = 1 THEN 0 ELSE all[i - 1]) + b(i)
    <3> SUFFICES ASSUME NEW i \in 1..10
                 PROVE  all[i] = 2 * (IF i = 1 THEN 0 ELSE all[i - 1]) + b(i)
      OBVIOUS
    <3>1. CASE i = 1
      BY <2>3, <3>1
    <3>2. CASE i = 2
      BY <2>3, <3>2
    <3>3. CASE i = 3
      BY <2>3, <3>3
    <3>4. CASE i = 4
      BY <2>3, <3>4
    <3>5. CASE i = 5
      BY <2>3, <3>5
    <3>6. CASE i = 6
      BY <2>3, <3>6
    <3>7. CASE i = 7
      BY <2>3, <3>7
    <3>8. CASE i = 8
      BY <2>3, <3>8
    <3>9. CASE i = 9
      BY <2>3, <3>9
    <3>10. CASE i = 10
      BY <2>3, <3>10
    <3> QED  BY <3>1, <3>2, <3>3, <3>4, <3>5, <3>6, <3>7, <3>8, <3>9, <3>10
  <2>5. \A i \in 1..width : w[i] = D(w)[i]
    <3> TAKE i \in 1..width
    <3>1. i \in 1..10 /\ w[i] = all[i]
      OBVIOUS
    <3>2. w[i - 1] = IF i = 1 THEN 0 ELSE all[i - 1]
      OBVIOUS
    <3>3. b(i) = IF at + width - i \in p.bits THEN 1 ELSE 0
      BY DEF b, Bit
    <3> QED  BY <2>4, <3>1, <3>2, <3>3, SMTT(30)
  <2>6. w[0] = 0 /\ D(w)[0] = 0
    OBVIOUS
  <2>7. 0..width = {0} \cup 1..width
    OBVIOUS
  <2> QED  BY <2>5, <2>6, <2>7
<1>2. c = D(c)
  BY <1>1
<1> HIDE DEF w
<1>3. Value(p, at, width) = c[width]
  BY DEF Value
<1>4. \A i \in 0..width : c[i] = D(c)[i]
  BY <1>2, Zenon
<1> HIDE DEF c
<1>5. c[0] = 0 /\ \A i \in 1..width, j \in 0..width : i = j + 1 => c[i] = 2 * c[j] + b(i)
  BY <1>4 DEF Bit
<1> QED  BY <1>3, <1>5 DEF Horner

(* A field of some width reads as a number of that width.                  *)
LEMMA ValueBound ==
  ASSUME NEW p, NEW at \in Int, NEW width \in 1..10
  PROVE  Value(p, at, width) \in 0..(2^width - 1)
<1>1. PICK c : Horner(c, p, at, width)
  BY Unrolled
<1>2. \A i \in 1..width, j \in 0..width :
        i = j + 1 /\ c[j] \in 0..(Pow(j) - 1) => c[i] \in 0..(Pow(i) - 1)
  <2> SUFFICES ASSUME NEW i \in 1..width, NEW j \in 0..width, i = j + 1, c[j] \in 0..(Pow(j) - 1)
               PROVE  c[i] \in 0..(Pow(i) - 1)
    OBVIOUS
  <2>1. c[i] = 2 * c[j] + Bit(p, at + width - i) /\ Bit(p, at + width - i) \in {0, 1}
    BY <1>1 DEF Horner, Bit
  <2>2. Pow(i) = 2 * Pow(j) /\ Pow(j) \in Nat
    BY Doubles
  <2> QED  BY <2>1, <2>2
<1>3. c[0] \in 0..(Pow(0) - 1)
  BY <1>1 DEF Horner, Pow
<1>4. c[1] \in 0..(Pow(1) - 1)
  BY <1>2, <1>3
<1>5. width >= 2 => c[2] \in 0..(Pow(2) - 1)
  BY <1>2, <1>4
<1>6. width >= 3 => c[3] \in 0..(Pow(3) - 1)
  BY <1>2, <1>5
<1>7. width >= 4 => c[4] \in 0..(Pow(4) - 1)
  BY <1>2, <1>6
<1>8. width >= 5 => c[5] \in 0..(Pow(5) - 1)
  BY <1>2, <1>7
<1>9. width >= 6 => c[6] \in 0..(Pow(6) - 1)
  BY <1>2, <1>8
<1>10. width >= 7 => c[7] \in 0..(Pow(7) - 1)
  BY <1>2, <1>9
<1>11. width >= 8 => c[8] \in 0..(Pow(8) - 1)
  BY <1>2, <1>10
<1>12. width >= 9 => c[9] \in 0..(Pow(9) - 1)
  BY <1>2, <1>11
<1>13. width >= 10 => c[10] \in 0..(Pow(10) - 1)
  BY <1>2, <1>12
<1>14. c[width] \in 0..(Pow(width) - 1)
  <2>1. CASE width = 1
    BY <1>4, <2>1
  <2>2. CASE width = 2
    BY <1>5, <2>2
  <2>3. CASE width = 3
    BY <1>6, <2>3
  <2>4. CASE width = 4
    BY <1>7, <2>4
  <2>5. CASE width = 5
    BY <1>8, <2>5
  <2>6. CASE width = 6
    BY <1>9, <2>6
  <2>7. CASE width = 7
    BY <1>10, <2>7
  <2>8. CASE width = 8
    BY <1>11, <2>8
  <2>9. CASE width = 9
    BY <1>12, <2>9
  <2>10. CASE width = 10
    BY <1>13, <2>10
  <2> QED  BY <2>1, <2>2, <2>3, <2>4, <2>5, <2>6, <2>7, <2>8, <2>9, <2>10
<1>15. 2^width = Pow(width)
  <2>1. width \in 0..10
    OBVIOUS
  <2> QED  BY <2>1, Powers, Zenon
<1> QED  BY <1>1, <1>14, <1>15 DEF Horner

LEMMA Halves ==
  ASSUME NEW v \in Nat, NEW n \in 0..9
  PROVE  v \div Pow(n) \in Nat /\ v \div Pow(n) = 2 * (v \div Pow(n + 1)) + ((v \div Pow(n)) % 2)
<1>1. CASE n = 0
  <2>1. Pow(n) = 1 /\ Pow(n + 1) = 2
    BY <1>1 DEF Pow
  <2>2. v \div 1 \in Nat /\ v \div 1 = 2 * (v \div 2) + ((v \div 1) % 2)
    OBVIOUS
  <2> QED  BY <2>1, <2>2, Zenon
<1>2. CASE n = 1
  <2>1. Pow(n) = 2 /\ Pow(n + 1) = 4
    BY <1>2 DEF Pow
  <2>2. v \div 2 \in Nat /\ v \div 2 = 2 * (v \div 4) + ((v \div 2) % 2)
    OBVIOUS
  <2> QED  BY <2>1, <2>2, Zenon
<1>3. CASE n = 2
  <2>1. Pow(n) = 4 /\ Pow(n + 1) = 8
    BY <1>3 DEF Pow
  <2>2. v \div 4 \in Nat /\ v \div 4 = 2 * (v \div 8) + ((v \div 4) % 2)
    OBVIOUS
  <2> QED  BY <2>1, <2>2, Zenon
<1>4. CASE n = 3
  <2>1. Pow(n) = 8 /\ Pow(n + 1) = 16
    BY <1>4 DEF Pow
  <2>2. v \div 8 \in Nat /\ v \div 8 = 2 * (v \div 16) + ((v \div 8) % 2)
    OBVIOUS
  <2> QED  BY <2>1, <2>2, Zenon
<1>5. CASE n = 4
  <2>1. Pow(n) = 16 /\ Pow(n + 1) = 32
    BY <1>5 DEF Pow
  <2>2. v \div 16 \in Nat /\ v \div 16 = 2 * (v \div 32) + ((v \div 16) % 2)
    OBVIOUS
  <2> QED  BY <2>1, <2>2, Zenon
<1>6. CASE n = 5
  <2>1. Pow(n) = 32 /\ Pow(n + 1) = 64
    BY <1>6 DEF Pow
  <2>2. v \div 32 \in Nat /\ v \div 32 = 2 * (v \div 64) + ((v \div 32) % 2)
    OBVIOUS
  <2> QED  BY <2>1, <2>2, Zenon
<1>7. CASE n = 6
  <2>1. Pow(n) = 64 /\ Pow(n + 1) = 128
    BY <1>7 DEF Pow
  <2>2. v \div 64 \in Nat /\ v \div 64 = 2 * (v \div 128) + ((v \div 64) % 2)
    OBVIOUS
  <2> QED  BY <2>1, <2>2, Zenon
<1>8. CASE n = 7
  <2>1. Pow(n) = 128 /\ Pow(n + 1) = 256
    BY <1>8 DEF Pow
  <2>2. v \div 128 \in Nat /\ v \div 128 = 2 * (v \div 256) + ((v \div 128) % 2)
    OBVIOUS
  <2> QED  BY <2>1, <2>2, Zenon
<1>9. CASE n = 8
  <2>1. Pow(n) = 256 /\ Pow(n + 1) = 512
    BY <1>9 DEF Pow
  <2>2. v \div 256 \in Nat /\ v \div 256 = 2 * (v \div 512) + ((v \div 256) % 2)
    OBVIOUS
  <2> QED  BY <2>1, <2>2, ZenonT(40)
<1>10. CASE n = 9
  <2>1. Pow(n) = 512 /\ Pow(n + 1) = 1024
    BY <1>10 DEF Pow
  <2>2. v \div 512 \in Nat /\ v \div 512 = 2 * (v \div 1024) + ((v \div 512) % 2)
    OBVIOUS
  <2> DEFINE low == Pow(n)
             high == Pow(n + 1)
  <2>3. low = 512 /\ high = 1024
    BY <2>1
  <2> HIDE DEF low, high
  <2>4. v \div low \in Nat /\ v \div low = 2 * (v \div high) + ((v \div low) % 2)
    BY <2>2, <2>3
  <2> QED  BY <2>4 DEF low, high
<1> QED  BY <1>1, <1>2, <1>3, <1>4, <1>5, <1>6, <1>7, <1>8, <1>9, <1>10

(* A field whose bits are those of a number reads as that number.          *)
LEMMA ValueOf ==
  ASSUME NEW p, NEW at \in Int, NEW width \in 1..10, NEW v \in 0..(2^width - 1),
         \A i \in 0..(width - 1) : at + i \in p.bits <=> (v \div 2^i) % 2 = 1
  PROVE  Value(p, at, width) = v
<1>1. PICK c : Horner(c, p, at, width)
  BY Unrolled
<1>2. v \in 0..(Pow(width) - 1) /\ v \in Nat
  <2>1. width \in 0..10
    OBVIOUS
  <2>2. 2^width = Pow(width)
    BY <2>1, Powers, Zenon
  <2> QED  BY <2>2
<1> DEFINE d(i) == v \div Pow(width - i)
<1>3. d(width) = v
  BY <1>2 DEF Pow
<1>4. d(0) = 0
  <2>1. CASE width = 1
    BY <1>2, <2>1 DEF Pow
  <2>2. CASE width = 2
    BY <1>2, <2>2 DEF Pow
  <2>3. CASE width = 3
    BY <1>2, <2>3 DEF Pow
  <2>4. CASE width = 4
    BY <1>2, <2>4 DEF Pow
  <2>5. CASE width = 5
    BY <1>2, <2>5 DEF Pow
  <2>6. CASE width = 6
    BY <1>2, <2>6 DEF Pow
  <2>7. CASE width = 7
    BY <1>2, <2>7 DEF Pow
  <2>8. CASE width = 8
    BY <1>2, <2>8 DEF Pow
  <2>9. CASE width = 9
    BY <1>2, <2>9 DEF Pow
  <2>10. CASE width = 10
    BY <1>2, <2>10 DEF Pow
  <2> QED  BY <2>1, <2>2, <2>3, <2>4, <2>5, <2>6, <2>7, <2>8, <2>9, <2>10
<1>5. \A i \in 1..width, j \in 0..width : i = j + 1 => d(i) = 2 * d(j) + Bit(p, at + width - i)
  <2> SUFFICES ASSUME NEW i \in 1..width, NEW j \in 0..width, i = j + 1
               PROVE  d(i) = 2 * d(j) + Bit(p, at + width - i)
    OBVIOUS
  <2> DEFINE n == width - i
  <2>1. n \in 0..9 /\ n \in 0..10 /\ n \in 0..(width - 1) /\ width - j = n + 1 /\ at + width - i = at + n
    OBVIOUS
  <2>2. v \div Pow(n) = 2 * (v \div Pow(n + 1)) + ((v \div Pow(n)) % 2) /\ v \div Pow(n) \in Nat
    BY <1>2, <2>1, Halves
  <2> HIDE DEF n
  <2>3. at + n \in p.bits <=> (v \div Pow(n)) % 2 = 1
    BY <2>1, Powers
  <2>4. (v \div Pow(n)) % 2 = Bit(p, at + n)
    BY <2>2, <2>3 DEF Bit
  <2>5. d(i) = v \div Pow(n) /\ d(j) = v \div Pow(n + 1)
    BY <2>1 DEF n
  <2> QED  BY <2>1, <2>2, <2>4, <2>5
<1> HIDE DEF d
<1>6. \A i \in 1..width, j \in 0..width : i = j + 1 /\ c[j] = d(j) => c[i] = d(i)
  BY <1>1, <1>5 DEF Horner
<1>7. c[1] = d(1)
  BY <1>1, <1>4, <1>6 DEF Horner
<1>8. width >= 2 => c[2] = d(2)
  BY <1>6, <1>7
<1>9. width >= 3 => c[3] = d(3)
  BY <1>6, <1>8
<1>10. width >= 4 => c[4] = d(4)
  BY <1>6, <1>9
<1>11. width >= 5 => c[5] = d(5)
  BY <1>6, <1>10
<1>12. width >= 6 => c[6] = d(6)
  BY <1>6, <1>11
<1>13. width >= 7 => c[7] = d(7)
  BY <1>6, <1>12
<1>14. width >= 8 => c[8] = d(8)
  BY <1>6, <1>13
<1>15. width >= 9 => c[9] = d(9)
  BY <1>6, <1>14
<1>16. width >= 10 => c[10] = d(10)
  BY <1>6, <1>15
<1>17. c[width] = d(width)
  <2>1. CASE width = 1
    BY <1>7, <2>1
  <2>2. CASE width = 2
    BY <1>8, <2>2
  <2>3. CASE width = 3
    BY <1>9, <2>3
  <2>4. CASE width = 4
    BY <1>10, <2>4
  <2>5. CASE width = 5
    BY <1>11, <2>5
  <2>6. CASE width = 6
    BY <1>12, <2>6
  <2>7. CASE width = 7
    BY <1>13, <2>7
  <2>8. CASE width = 8
    BY <1>14, <2>8
  <2>9. CASE width = 9
    BY <1>15, <2>9
  <2>10. CASE width = 10
    BY <1>16, <2>10
  <2> QED  BY <2>1, <2>2, <2>3, <2>4, <2>5, <2>6, <2>7, <2>8, <2>9, <2>10
<1> QED  BY <1>1, <1>3, <1>17 DEF Horner

-------------------------------------------------------------------------------
(* Layouts: fields of different names at places that do not overlap.       *)

Place(f) == f = <<f[1], f[2], f[3]>> /\ f[2] \in Int /\ f[3] \in 1..10
Apart(layout) ==
  /\ \A f \in layout : Place(f)
  /\ \A f, g \in layout : f # g => /\ f[1] # g[1]
                                   /\ f[2] + f[3] <= g[2] \/ g[2] + g[3] <= f[2]

(* The bits of a field are those of a number.                              *)
Holds(p, f, v) == \A i \in 0..(f[3] - 1) : f[2] + i \in p.bits <=> (v \div 2^i) % 2 = 1

LEMMA PacketBits ==
  ASSUME NEW command, NEW layout, Apart(layout), NEW wire, NEW f \in layout
  PROVE  Holds(Packet(command, layout, wire), f, wire[f[1]])
<1> DEFINE p == Packet(command, layout, wire)
           v == wire[f[1]]
<1>1. p.bits = UNION {Bits(wire[g[1]], g[2], g[3]) : g \in layout}
  BY DEF Packet
<1>2. Place(f)
  BY DEF Apart
<1> HIDE DEF p
<1>3. ASSUME NEW i \in 0..(f[3] - 1), (v \div 2^i) % 2 = 1 PROVE f[2] + i \in p.bits
  <2>1. f[2] + i \in Bits(v, f[2], f[3])
    BY <1>3 DEF Bits
  <2> QED  BY <1>1, <2>1
<1>4. ASSUME NEW i \in 0..(f[3] - 1), f[2] + i \in p.bits PROVE (v \div 2^i) % 2 = 1
  <2>1. PICK g \in layout : f[2] + i \in Bits(wire[g[1]], g[2], g[3])
    BY <1>1, <1>4
  <2>2. PICK j \in 0..(g[3] - 1) : f[2] + i = g[2] + j /\ (wire[g[1]] \div 2^j) % 2 = 1
    BY <2>1 DEF Bits
  <2>3. Place(g) /\ (f # g => f[2] + f[3] <= g[2] \/ g[2] + g[3] <= f[2])
    BY DEF Apart
  <2>4. f = g /\ i = j
    BY <1>2, <2>2, <2>3 DEF Place
  <2> QED  BY <2>2, <2>4
<1> QED  BY <1>3, <1>4, Zenon DEF Holds, p

(* What is packed into a field is read from it.                            *)
LEMMA ReadBack ==
  ASSUME NEW command, NEW layout, Apart(layout), NEW wire, NEW f \in layout,
         wire[f[1]] \in 0..(2^f[3] - 1)
  PROVE  Value(Packet(command, layout, wire), f[2], f[3]) = wire[f[1]]
<1> DEFINE p == Packet(command, layout, wire)
           v == wire[f[1]]
<1>1. Holds(p, f, v)
  BY PacketBits
<1> HIDE DEF p, v
<1>2. f[2] \in Int /\ f[3] \in 1..10 /\ v \in 0..(2^f[3] - 1)
  BY DEF Apart, Place, v
<1>3. Value(p, f[2], f[3]) = v
  BY <1>1, <1>2, ValueOf DEF Holds
<1> QED  BY <1>3 DEF p, v

LEMMA ReadField ==
  ASSUME NEW layout, Apart(layout), NEW p, NEW f \in layout
  PROVE  f[1] \in DOMAIN Fields(layout, p) /\ Fields(layout, p)[f[1]] = Value(p, f[2], f[3])
<1>1. \A g \in layout : g[1] = f[1] => g = f
  BY DEF Apart
<1>2. f[1] \in {g[1] : g \in layout}
  OBVIOUS
<1> DEFINE one == CHOOSE g \in layout : g[1] = f[1]
<1>3. one = f
  BY <1>1
<1>4. Fields(layout, p)[f[1]] = Value(p, one[2], one[3])
  BY <1>2 DEF Fields
<1> HIDE DEF one
<1> QED  BY <1>2, <1>3, <1>4 DEF Fields

LEMMA FieldBound ==
  ASSUME NEW layout, Apart(layout), NEW p, NEW f \in layout
  PROVE  Fields(layout, p)[f[1]] \in 0..(2^f[3] - 1)
<1>1. f[2] \in Int /\ f[3] \in 1..10
  BY DEF Apart, Place
<1> QED  BY <1>1, ReadField, ValueBound

(* The names a layout carries, and the value of one that has one place.    *)
LEMMA FieldNames ==
  ASSUME NEW layout, NEW p
  PROVE  DOMAIN Fields(layout, p) = {f[1] : f \in layout}
  BY DEF Fields

LEMMA FieldValue ==
  ASSUME NEW layout, NEW p, NEW n, NEW at, NEW width, <<n, at, width>> \in layout,
         \A f \in layout : f[1] = n => f = <<n, at, width>>
  PROVE  Fields(layout, p)[n] = Value(p, at, width)
<1> DEFINE one == CHOOSE g \in layout : g[1] = n
<1>1. <<n, at, width>>[1] = n
  OBVIOUS
<1>2. one \in layout /\ one[1] = n
  BY <1>1
<1>3. one = <<n, at, width>>
  BY <1>2
<1>4. n \in {f[1] : f \in layout}
  BY <1>1
<1>5. Fields(layout, p)[n] = Value(p, one[2], one[3])
  BY <1>4 DEF Fields
<1> HIDE DEF one
<1>6. one[2] = at /\ one[3] = width
  BY <1>3
<1> QED  BY <1>5, <1>6

-------------------------------------------------------------------------------
(* The pages of command 34.                                                *)

(* The parameters of the two pages of a dual-page effect.                  *)
EveryPage == {"effect", "state", "on", "package"}
Page0 == {"intensity", "gap_time", "min_gap_time", "min_intensity", "frequency"}
Page1 == {"mode", "kelvin", "gm", "hue", "saturation", "center_kelvin", "gel_kelvin",
          "gel_origin", "gel_type", "color", "max_kelvin", "min_kelvin", "max_hue", "min_hue"}

LEMMA ColorNames ==
  ASSUME NEW mode, NEW at, NEW gels, NEW f \in ColorLayout(mode, at, gels)
  PROVE  f[1] \in Page1
  BY DEF ColorLayout, Page1

LEMMA RangeNames ==
  ASSUME NEW mode, NEW at, NEW f \in RangeLayout(mode, at)
  PROVE  f[1] \in Page1
  BY DEF RangeLayout, Page1

Timing(e) ==
  IF e \in Gapped THEN {<<"gap_time", 42, 9>>, <<"min_gap_time", 33, 9>>}
  ELSE IF e = "Welding II" THEN {<<"min_intensity", 41, 10>>, <<"frequency", 37, 4>>}
  ELSE {<<"frequency", 43, 8>>}

LEMMA FirstPage ==
  ASSUME NEW e, NEW mode
  PROVE  PageLayout(e, 0, mode) =
           {<<"package", 61, 1>>} \cup ({<<"intensity", 51, 10>>} \cup Timing(e))
  BY DEF PageLayout, Timing

LEMMA PageNames ==
  ASSUME NEW e, NEW page \in {0, 1}, NEW mode
  PROVE  /\ <<"package", 61, 1>> \in PageLayout(e, page, mode)
         /\ \A f \in PageLayout(e, page, mode) :
              \/ f = <<"package", 61, 1>>
              \/ page = 0 /\ f[1] \in Page0
              \/ page = 1 /\ f[1] \in Page1
<1> DEFINE head == <<"package", 61, 1>>
<1>1. CASE page = 0
  <2>1. PageLayout(e, 0, mode) = {head} \cup ({<<"intensity", 51, 10>>} \cup Timing(e))
    BY FirstPage
  <2>2. ASSUME NEW f \in {<<"intensity", 51, 10>>} \cup Timing(e) PROVE f[1] \in Page0
    <3>1. f \in {<<"intensity", 51, 10>>, <<"gap_time", 42, 9>>, <<"min_gap_time", 33, 9>>,
                 <<"min_intensity", 41, 10>>, <<"frequency", 37, 4>>, <<"frequency", 43, 8>>}
      BY DEF Timing
    <3> QED  BY <3>1 DEF Page0
  <2> QED  BY <1>1, <2>1, <2>2
<1>2. CASE page = 1
  <2>1. PageLayout(e, 1, mode) =
          {head} \cup IF e \in {"TV III", "Fire III"} THEN RangeLayout(mode, 58)
                     ELSE ColorLayout(mode, 58, TRUE)
    BY DEF PageLayout
  <2> QED  BY <1>2, <2>1, ColorNames, RangeNames
<1> QED  BY <1>1, <1>2

LEMMA SingleNames ==
  ASSUME NEW e, NEW mode, NEW f \in SingleLayout(e, mode)
  PROVE  f[1] \notin EveryPage
<1> DEFINE Own == {<<"intensity", 52, 10>>, <<"frequency", 48, 4>>, <<"speed", 44, 4>>,
                   <<"frequency", 44, 4>>, <<"speed", 48, 4>>, <<"frequency", 44, 8>>,
                   <<"decay", 48, 4>>, <<"color", 45, 3>>, <<"saturation", 42, 10>>,
                   <<"speed", 36, 6>>, <<"gap_time", 43, 9>>, <<"min_gap_time", 34, 9>>,
                   <<"variant", 32, 2>>}
<1>1. \/ f \in Own \/ f \in RangeLayout(mode, 45)
      \/ \E at \in {41, 45}, gels \in BOOLEAN : f \in ColorLayout(mode, at, gels)
  <2>1. CASE e \in {"Lightning II", "Faulty Bulb II", "Pulsing II", "Pulsing III"}
    <3>1. f \in Own \/ f \in ColorLayout(mode, 41, TRUE) \/ f \in ColorLayout(mode, 41, FALSE)
      BY <2>1 DEF SingleLayout
    <3> QED  BY <3>1
  <2>2. CASE e \in {"TV II", "Fire II"}
    BY <2>2 DEF SingleLayout
  <2>3. CASE e \in {"Strobe II", "Explosion II"}
    <3>1. f \in Own \/ f \in ColorLayout(mode, 45, TRUE)
      BY <2>3 DEF SingleLayout
    <3> QED  BY <3>1
  <2>4. CASE e \notin {"Lightning II", "Faulty Bulb II", "Pulsing II", "Pulsing III",
                       "TV II", "Fire II", "Strobe II", "Explosion II"}
    <3>1. f \in Own
      BY <2>4 DEF SingleLayout
    <3> QED  BY <3>1
  <2> QED  BY <2>1, <2>2, <2>3, <2>4
<1>2. CASE f \in Own
  BY <1>2 DEF EveryPage
<1>3. CASE f \in RangeLayout(mode, 45)
  BY <1>3, RangeNames DEF Page1, EveryPage
<1>4. ASSUME NEW at, NEW gels, f \in ColorLayout(mode, at, gels) PROVE f[1] \notin EveryPage
  BY <1>4, ColorNames DEF Page1, EveryPage
<1> HIDE DEF Own
<1> QED  BY <1>1, <1>2, <1>3, <1>4

(* What a page of command 34 says, and which page of a dual one it is.     *)
Effect2Of(p) == Effect2Names[Value(p, 64, 8) + 1]
OfPage(s, k) ==
  "package" \in DOMAIN s /\ s.package = k /\ DOMAIN s \subseteq EveryPage \cup IF k = 0 THEN Page0 ELSE Page1

LEMMA Effect2Facts ==
  ASSUME NEW p, NEW s, s = DecodeEffect2(p)
  PROVE  /\ EveryPage \ {"package"} \subseteq DOMAIN s /\ s.effect = Effect2Of(p)
         /\ Effect2Of(p) \notin Dual => "package" \notin DOMAIN s
         /\ Effect2Of(p) \in Dual => OfPage(s, 0) \/ OfPage(s, 1)
<1> DEFINE e      == Effect2Of(p)
           page   == Value(p, 61, 1)
           modeAt == IF e \in Dual THEN 58
                     ELSE IF e \in {"Lightning II", "Faulty Bulb II", "Pulsing II", "Pulsing III"}
                     THEN 41 ELSE 45
           mode   == Value(p, modeAt, 3)
           layout == IF e \in Dual THEN PageLayout(e, page, mode) ELSE SingleLayout(e, mode)
           w      == Fields(layout, p)
           state  == Value(p, 62, 2)
           plain  == [n \in DOMAIN w |-> IF n \in Kelvins THEN w[n] * 50 ELSE w[n]]
           rest   == [effect |-> e, state |-> state, on |-> IF state = 0 THEN 0 ELSE 1]
<1>1. s = plain ++ rest
  BY DEF DecodeEffect2, Effect2Of
<1>2. page \in {0, 1}
  <2>1. page \in 0..(2^1 - 1)
    BY ValueBound
  <2> QED  BY <2>1
<1>3. DOMAIN w = {f[1] : f \in layout}
  BY FieldNames
<1>4. DOMAIN rest = {"effect", "state", "on"} /\ rest.effect = e
  OBVIOUS
<1> HIDE DEF e, page, modeAt, mode, layout, w, state, rest
<1>5. DOMAIN plain = DOMAIN w /\ ("package" \in DOMAIN w => plain["package"] = w["package"])
  BY DEF Kelvins
<1> HIDE DEF plain
<1>6. \A f \in layout : f[1] \notin EveryPage \ {"package"}
  <2>1. CASE e \in Dual
    BY <1>2, <2>1, PageNames DEF layout, EveryPage, Page0, Page1
  <2>2. CASE e \notin Dual
    BY <2>2, SingleNames DEF layout
  <2> QED  BY <2>1, <2>2
<1>7. \A n \in EveryPage \ {"package"} : n \notin DOMAIN plain
  BY <1>3, <1>5, <1>6
<1>8. DOMAIN s = DOMAIN w \cup {"effect", "state", "on"}
  BY <1>1, <1>4, <1>5 DEF ++
<1>9. s.effect = e
  BY <1>1, <1>4, <1>7 DEF ++, EveryPage
<1>10. ASSUME e \notin Dual PROVE "package" \notin DOMAIN s
  <2>1. \A f \in layout : f[1] # "package"
    BY <1>10, SingleNames DEF layout, EveryPage
  <2> QED  BY <1>3, <1>8, <2>1
<1>11. ASSUME e \in Dual PROVE OfPage(s, page)
  <2>1. layout = PageLayout(e, page, mode)
    BY <1>11 DEF layout
  <2>2. <<"package", 61, 1>> \in layout /\ \A f \in layout : f[1] = "package" => f = <<"package", 61, 1>>
    BY <1>2, <2>1, PageNames DEF Page0, Page1
  <2>3. w["package"] = page
    BY <2>2, FieldValue DEF w, page
  <2>4. "package" \in DOMAIN w
    BY <1>3, <2>2
  <2>5. s.package = page
    BY <1>1, <1>5, <2>3, <2>4 DEF ++
  <2>6. \A f \in layout : f[1] \in {"package"} \cup IF page = 0 THEN Page0 ELSE Page1
    BY <1>2, <2>1, PageNames
  <2> QED  BY <1>3, <1>8, <2>4, <2>5, <2>6 DEF OfPage, EveryPage
<1> QED  BY <1>2, <1>8, <1>9, <1>10, <1>11 DEF EveryPage, e

-------------------------------------------------------------------------------
(* The pages of pixel effects.                                             *)

(* The pages an effect has, the fields of each, and those of its colour.   *)
Common        == {"Color Fade", "Color Cycle"} \cup Chases
Shared        == {<<"playback", 62, 2>>, <<"packet_type", 60, 2>>}
RainbowFields == {<<"playback", 62, 2>>, <<"speed", 39, 10>>, <<"direction", 49, 3>>,
                  <<"brightness", 52, 10>>}
FadeFields    == Shared \cup {<<"speed", 42, 10>>, <<"direction", 52, 4>>,
                               <<"color_count", 56, 4>>}
CycleFields   == FadeFields \cup {<<"change_way", 40, 2>>}
ChaseFields   == Shared \cup {<<"speed", 43, 10>>, <<"pixel_length", 53, 3>>,
                               <<"direction", 56, 2>>, <<"group", 58, 2>>}
FireFields    == Shared \cup {<<"direction", 48, 2>>, <<"frequency", 50, 10>>}
ColorFields   == Shared \cup {<<"brightness", 46, 10>>, <<"serial", 56, 4>>}
FireColorFields == Shared \cup {<<"min_brightness", 40, 10>>, <<"max_brightness", 50, 10>>}
BaseFields    == Shared \cup {<<"brightness", 50, 10>>}
HueFields(mode, at) ==
  IF mode = 0 THEN {<<"light_mode", at, 2>>, <<"cct_raw", at - 9, 9>>, <<"gm_raw", at - 17, 8>>}
  ELSE IF mode = 1 THEN {<<"light_mode", at, 2>>, <<"hue", at - 9, 9>>,
                         <<"saturation", at - 16, 7>>, <<"hsi_cct_raw", at - 25, 9>>}
  ELSE {<<"light_mode", at, 2>>}

LEMMA RainbowLayout ==
  ASSUME NEW type, NEW mode
  PROVE  PixelLayout("Rainbow", type, mode) = RainbowFields
  BY DEF PixelLayout, RainbowFields

LEMMA ControlLayout ==
  ASSUME NEW mode
  PROVE  /\ PixelLayout("Color Fade", Control, mode) = FadeFields
         /\ PixelLayout("Color Cycle", Control, mode) = CycleFields
         /\ \A e \in Chases : PixelLayout(e, Control, mode) = ChaseFields
         /\ PixelLayout("Pixel Fire", Control, mode) = FireFields
<1>1. PixelLayout("Color Fade", Control, mode) = FadeFields
  BY DEF PixelLayout, Control, Color, Base, Chases, Shared, FadeFields
<1>2. PixelLayout("Color Cycle", Control, mode) = CycleFields
  BY DEF PixelLayout, Control, Color, Base, Chases, Shared, CycleFields, FadeFields
<1>3. PixelLayout("Pixel Fire", Control, mode) = FireFields
  BY DEF PixelLayout, Control, Color, Base, Chases, Shared, FireFields
<1>4. PixelLayout("One Pixel Chase", Control, mode) = ChaseFields
  BY DEF PixelLayout, Control, Color, Base, Chases, Shared, ChaseFields
<1>5. PixelLayout("Two Pixel Chase", Control, mode) = ChaseFields
  BY DEF PixelLayout, Control, Color, Base, Chases, Shared, ChaseFields
<1>6. PixelLayout("Three Pixel Chase", Control, mode) = ChaseFields
  BY DEF PixelLayout, Control, Color, Base, Chases, Shared, ChaseFields
<1> QED  BY <1>1, <1>2, <1>3, <1>4, <1>5, <1>6 DEF Chases

LEMMA HueLayout ==
  ASSUME NEW mode, NEW at
  PROVE  PixelColor(mode, at) = HueFields(mode, at)
  BY DEF PixelColor, HueFields

LEMMA ColorLayouts ==
  ASSUME NEW mode
  PROVE  /\ \A e \in Common : PixelLayout(e, Color, mode) = ColorFields \cup HueFields(mode, 44)
         /\ PixelLayout("Pixel Fire", Color, mode) = FireColorFields \cup HueFields(mode, 38)
         /\ PixelLayout("Pixel Fire", Base, mode) = BaseFields \cup HueFields(mode, 48)
<1>1. PixelLayout("Color Fade", Color, mode) = ColorFields \cup HueFields(mode, 44)
  BY HueLayout DEF PixelLayout, Control, Color, Base, Chases, Shared, ColorFields
<1>2. PixelLayout("Color Cycle", Color, mode) = ColorFields \cup HueFields(mode, 44)
  BY HueLayout DEF PixelLayout, Control, Color, Base, Chases, Shared, ColorFields
<1>3. PixelLayout("One Pixel Chase", Color, mode) = ColorFields \cup HueFields(mode, 44)
  BY HueLayout DEF PixelLayout, Control, Color, Base, Chases, Shared, ColorFields
<1>4. PixelLayout("Two Pixel Chase", Color, mode) = ColorFields \cup HueFields(mode, 44)
  BY HueLayout DEF PixelLayout, Control, Color, Base, Chases, Shared, ColorFields
<1>5. PixelLayout("Three Pixel Chase", Color, mode) = ColorFields \cup HueFields(mode, 44)
  BY HueLayout DEF PixelLayout, Control, Color, Base, Chases, Shared, ColorFields
<1>6. PixelLayout("Pixel Fire", Color, mode) = FireColorFields \cup HueFields(mode, 38)
  BY HueLayout DEF PixelLayout, Control, Color, Base, Chases, Shared, FireColorFields
<1>7. PixelLayout("Pixel Fire", Base, mode) = BaseFields \cup HueFields(mode, 48)
  BY HueLayout DEF PixelLayout, Control, Color, Base, Chases, Shared, BaseFields
<1> QED  BY <1>1, <1>2, <1>3, <1>4, <1>5, <1>6, <1>7 DEF Common, Chases

(* The effect, the type and the colour mode of a page there is.            *)
Kind(e, type, mode) ==
  /\ e \in Pixels /\ Paged(e, type)
  /\ e # "Rainbow" /\ type # Control => mode \in 0..2
Id == <<"id", 64, 8>>

LEMMA PixelCases == Pixels = Common \cup {"Pixel Fire", "Rainbow"}
  BY DEF Pixels, Common

(* The fields of a page, its identifier included, lie apart.               *)
LEMMA ControlApart ==
  /\ Apart(RainbowFields \cup {Id}) /\ Apart(FadeFields \cup {Id}) /\ Apart(CycleFields \cup {Id})
  /\ Apart(ChaseFields \cup {Id}) /\ Apart(FireFields \cup {Id})
<1>1. Apart(RainbowFields \cup {Id})
  BY DEF Apart, Place, RainbowFields, Id
<1>2. Apart(FadeFields \cup {Id})
  BY DEF Apart, Place, FadeFields, Shared, Id
<1>3. Apart(CycleFields \cup {Id})
  BY DEF Apart, Place, CycleFields, FadeFields, Shared, Id
<1>4. Apart(ChaseFields \cup {Id})
  BY DEF Apart, Place, ChaseFields, Shared, Id
<1>5. Apart(FireFields \cup {Id})
  BY DEF Apart, Place, FireFields, Shared, Id
<1> QED  BY <1>1, <1>2, <1>3, <1>4, <1>5

LEMMA ColorApart ==
  ASSUME NEW mode \in 0..2
  PROVE  /\ Apart(ColorFields \cup HueFields(mode, 44) \cup {Id})
         /\ Apart(FireColorFields \cup HueFields(mode, 38) \cup {Id})
         /\ Apart(BaseFields \cup HueFields(mode, 48) \cup {Id})
<1>1. CASE mode = 0
  <2>1. Apart(ColorFields \cup HueFields(0, 44) \cup {Id})
    BY DEF Apart, Place, ColorFields, Shared, Id, HueFields
  <2>2. Apart(FireColorFields \cup HueFields(0, 38) \cup {Id})
    BY DEF Apart, Place, FireColorFields, Shared, Id, HueFields
  <2>3. Apart(BaseFields \cup HueFields(0, 48) \cup {Id})
    BY DEF Apart, Place, BaseFields, Shared, Id, HueFields
  <2> QED  BY <1>1, <2>1, <2>2, <2>3
<1>2. CASE mode = 1
  <2>1. Apart(ColorFields \cup HueFields(1, 44) \cup {Id})
    BY DEF Apart, Place, ColorFields, Shared, Id, HueFields
  <2>2. Apart(FireColorFields \cup HueFields(1, 38) \cup {Id})
    BY DEF Apart, Place, FireColorFields, Shared, Id, HueFields
  <2>3. Apart(BaseFields \cup HueFields(1, 48) \cup {Id})
    BY DEF Apart, Place, BaseFields, Shared, Id, HueFields
  <2> QED  BY <1>2, <2>1, <2>2, <2>3
<1>3. CASE mode = 2
  <2>1. Apart(ColorFields \cup HueFields(2, 44) \cup {Id})
    BY DEF Apart, Place, ColorFields, Shared, Id, HueFields
  <2>2. Apart(FireColorFields \cup HueFields(2, 38) \cup {Id})
    BY DEF Apart, Place, FireColorFields, Shared, Id, HueFields
  <2>3. Apart(BaseFields \cup HueFields(2, 48) \cup {Id})
    BY DEF Apart, Place, BaseFields, Shared, Id, HueFields
  <2> QED  BY <1>3, <2>1, <2>2, <2>3
<1> QED  BY <1>1, <1>2, <1>3

(* The eight layouts.                                                      *)
LEMMA KindLayout ==
  ASSUME NEW e, NEW type, NEW mode, Kind(e, type, mode)
  PROVE  \/ e = "Rainbow" /\ PixelLayout(e, type, mode) = RainbowFields
         \/ /\ e # "Rainbow" /\ type = Control
            /\ PixelLayout(e, type, mode) \in {FadeFields, CycleFields, ChaseFields, FireFields}
         \/ /\ e \in Common /\ type = Color /\ mode \in 0..2
            /\ PixelLayout(e, type, mode) = ColorFields \cup HueFields(mode, 44)
         \/ /\ e = "Pixel Fire" /\ type = Color /\ mode \in 0..2
            /\ PixelLayout(e, type, mode) = FireColorFields \cup HueFields(mode, 38)
         \/ /\ e = "Pixel Fire" /\ type = Base /\ mode \in 0..2
            /\ PixelLayout(e, type, mode) = BaseFields \cup HueFields(mode, 48)
<1>1. CASE e = "Rainbow"
  BY <1>1, RainbowLayout
<1>2. CASE e # "Rainbow" /\ type = Control
  <2>1. e \in {"Color Fade", "Color Cycle", "Pixel Fire"} \cup Chases
    BY <1>2, PixelCases DEF Kind, Common
  <2>2. PixelLayout(e, Control, mode) \in {FadeFields, CycleFields, ChaseFields, FireFields}
    <3>1. CASE e \in Chases
      BY <3>1, ControlLayout
    <3>2. CASE e = "Color Fade"
      BY <3>2, ControlLayout
    <3>3. CASE e = "Color Cycle"
      BY <3>3, ControlLayout
    <3>4. CASE e = "Pixel Fire"
      BY <3>4, ControlLayout
    <3> QED  BY <2>1, <3>1, <3>2, <3>3, <3>4
  <2> QED  BY <1>2, <2>2
<1>3. CASE e # "Rainbow" /\ type # Control
  <2>1. mode \in 0..2
    BY <1>3 DEF Kind
  <2>2. \/ type = Color
        \/ type = Base /\ e = "Pixel Fire"
    BY <1>3 DEF Kind, Paged
  <2>3. e \in Common \/ e = "Pixel Fire"
    BY <1>3, PixelCases DEF Kind
  <2>4. Control # Color /\ Control # Base /\ Color # Base
    BY DEF Control, Color, Base
  <2> QED  BY <1>3, <2>1, <2>2, <2>3, <2>4, ColorLayouts
<1> QED  BY <1>1, <1>2, <1>3

LEMMA HueNames ==
  ASSUME NEW mode, NEW at
  PROVE  /\ <<"light_mode", at, 2>> \in HueFields(mode, at)
         /\ \A f \in HueFields(mode, at) :
              f[1] \in {"light_mode", "cct_raw", "gm_raw", "hue", "saturation", "hsi_cct_raw"}
  BY DEF HueFields

LEMMA OwnNames ==
  /\ \A f \in ColorFields : f[1] # "effect" /\ f[1] # "id"
  /\ \A f \in FireColorFields : f[1] # "effect" /\ f[1] # "id"
  /\ \A f \in BaseFields : f[1] # "effect" /\ f[1] # "id"
  /\ \A mode, at : \A f \in HueFields(mode, at) : f[1] # "effect" /\ f[1] # "id"
<1>1. \A mode, at : \A f \in HueFields(mode, at) : f[1] # "effect" /\ f[1] # "id"
  BY DEF HueFields
<1> QED  BY <1>1 DEF ColorFields, FireColorFields, BaseFields, Shared

(* What every layout has.                                                  *)
LEMMA KindFacts ==
  ASSUME NEW e, NEW type, NEW mode, Kind(e, type, mode), NEW layout, layout = PixelLayout(e, type, mode)
  PROVE  /\ Apart(layout \cup {Id}) /\ <<"playback", 62, 2>> \in layout
         /\ \A f \in layout : f[1] # "effect" /\ f[1] # "id"
         /\ e # "Rainbow" => <<"packet_type", 60, 2>> \in layout
         /\ e # "Rainbow" /\ type # Control => <<"light_mode", ModeAt(e, type), 2>> \in layout
<1>1. CASE layout = RainbowFields /\ e = "Rainbow"
  <2>1. Apart(layout \cup {Id})
    BY <1>1, ControlApart
  <2>2. <<"playback", 62, 2>> \in layout /\ \A f \in layout : f[1] # "effect" /\ f[1] # "id"
    BY <1>1 DEF RainbowFields
  <2> QED  BY <1>1, <2>1, <2>2
<1>2. CASE layout \in {FadeFields, CycleFields, ChaseFields, FireFields} /\ type = Control
  <2>1. Apart(layout \cup {Id})
    BY <1>2, ControlApart
  <2>2. Shared \subseteq layout
    BY <1>2 DEF FadeFields, CycleFields, ChaseFields, FireFields
  <2>3. \A f \in layout : f[1] # "effect" /\ f[1] # "id"
    BY <1>2 DEF FadeFields, CycleFields, ChaseFields, FireFields, Shared
  <2> QED  BY <1>2, <2>1, <2>2, <2>3 DEF Shared
<1>3. CASE layout = ColorFields \cup HueFields(mode, 44) /\ mode \in 0..2 /\ e \in Common /\ type = Color
  <2>1. Apart(layout \cup {Id})
    BY <1>3, ColorApart
  <2>2. Shared \subseteq layout
    BY <1>3 DEF ColorFields
  <2>3. \A f \in layout : f[1] # "effect" /\ f[1] # "id"
    BY <1>3, OwnNames
  <2>4. ModeAt(e, type) = 44
    BY <1>3 DEF ModeAt, Common, Chases
  <2>5. <<"light_mode", 44, 2>> \in layout
    BY <1>3, HueNames
  <2> QED  BY <2>1, <2>2, <2>3, <2>4, <2>5 DEF Shared
<1>4. CASE layout = FireColorFields \cup HueFields(mode, 38) /\ mode \in 0..2 /\ e = "Pixel Fire" /\ type = Color
  <2>1. Apart(layout \cup {Id})
    BY <1>4, ColorApart
  <2>2. Shared \subseteq layout
    BY <1>4 DEF FireColorFields
  <2>3. \A f \in layout : f[1] # "effect" /\ f[1] # "id"
    BY <1>4, OwnNames
  <2>4. ModeAt(e, type) = 38
    BY <1>4 DEF ModeAt
  <2>5. <<"light_mode", 38, 2>> \in layout
    BY <1>4, HueNames
  <2> QED  BY <2>1, <2>2, <2>3, <2>4, <2>5 DEF Shared
<1>5. CASE layout = BaseFields \cup HueFields(mode, 48) /\ mode \in 0..2 /\ e = "Pixel Fire" /\ type = Base
  <2>1. Apart(layout \cup {Id})
    BY <1>5, ColorApart
  <2>2. Shared \subseteq layout
    BY <1>5 DEF BaseFields
  <2>3. \A f \in layout : f[1] # "effect" /\ f[1] # "id"
    BY <1>5, OwnNames
  <2>4. ModeAt(e, type) = 48
    BY <1>5 DEF ModeAt, Color, Base
  <2>5. <<"light_mode", 48, 2>> \in layout
    BY <1>5, HueNames
  <2> QED  BY <2>1, <2>2, <2>3, <2>4, <2>5 DEF Shared
<1>6. \/ e = "Rainbow" /\ PixelLayout(e, type, mode) = RainbowFields
      \/ /\ e # "Rainbow" /\ type = Control
         /\ PixelLayout(e, type, mode) \in {FadeFields, CycleFields, ChaseFields, FireFields}
      \/ /\ e \in Common /\ type = Color /\ mode \in 0..2
         /\ PixelLayout(e, type, mode) = ColorFields \cup HueFields(mode, 44)
      \/ /\ e = "Pixel Fire" /\ type = Color /\ mode \in 0..2
         /\ PixelLayout(e, type, mode) = FireColorFields \cup HueFields(mode, 38)
      \/ /\ e = "Pixel Fire" /\ type = Base /\ mode \in 0..2
         /\ PixelLayout(e, type, mode) = BaseFields \cup HueFields(mode, 48)
  BY KindLayout
<1>7. \/ e = "Rainbow" /\ layout = RainbowFields
      \/ /\ e # "Rainbow" /\ type = Control
         /\ layout \in {FadeFields, CycleFields, ChaseFields, FireFields}
      \/ /\ e \in Common /\ type = Color /\ mode \in 0..2
         /\ layout = ColorFields \cup HueFields(mode, 44)
      \/ /\ e = "Pixel Fire" /\ type = Color /\ mode \in 0..2
         /\ layout = FireColorFields \cup HueFields(mode, 38)
      \/ /\ e = "Pixel Fire" /\ type = Base /\ mode \in 0..2
         /\ layout = BaseFields \cup HueFields(mode, 48)
  BY <1>6
<1> QED  BY <1>1, <1>2, <1>3, <1>4, <1>5, <1>7, Zenon

(* A layout without a colour does not depend on its mode.                  *)
LEMMA SameLayout ==
  ASSUME NEW e, NEW type, NEW mode, NEW t, NEW m, Kind(e, type, mode),
         e # "Rainbow" => t = type, e # "Rainbow" /\ type # Control => m = mode
  PROVE  PixelLayout(e, t, m) = PixelLayout(e, type, mode) /\ Kind(e, t, m)
<1>1. CASE e = "Rainbow"
  BY <1>1, RainbowLayout DEF Kind, Paged
<1>2. CASE e # "Rainbow" /\ type = Control
  <2>1. e \in {"Color Fade", "Color Cycle", "Pixel Fire"} \cup Chases
    BY <1>2, PixelCases DEF Kind, Common
  <2>2. PixelLayout(e, Control, m) = PixelLayout(e, Control, mode)
    BY <2>1, ControlLayout
  <2> QED  BY <1>2, <2>2 DEF Kind
<1>3. CASE e # "Rainbow" /\ type # Control
  BY <1>3
<1> QED  BY <1>1, <1>2, <1>3

(* The widths of two fields, and a name that no page has.                  *)
LEMMA Widths ==
  ASSUME NEW e, NEW type, NEW mode, Kind(e, type, mode), NEW f \in PixelLayout(e, type, mode)
  PROVE  (f[1] = "brightness" => f[3] = 10) /\ (f[1] = "serial" => f[3] = 4) /\ f[1] # "on"
<1> DEFINE layout == PixelLayout(e, type, mode)
           Sized(part) == \A g \in part : /\ g[1] = "brightness" => g[3] = 10
                                          /\ g[1] = "serial" => g[3] = 4
                                          /\ g[1] # "on"
<1>1. \A m, at : Sized(HueFields(m, at))
  BY DEF HueFields
<1>2. Sized(RainbowFields)
  BY DEF RainbowFields
<1>3. Sized(FadeFields) /\ Sized(CycleFields) /\ Sized(ChaseFields) /\ Sized(FireFields)
  BY DEF FadeFields, CycleFields, ChaseFields, FireFields, Shared
<1>4. Sized(ColorFields) /\ Sized(FireColorFields) /\ Sized(BaseFields)
  BY DEF ColorFields, FireColorFields, BaseFields, Shared
<1>5. \A a, b : Sized(a) /\ Sized(b) => Sized(a \cup b)
  OBVIOUS
<1> HIDE DEF Sized
<1>6. Sized(layout)
  <2>1. \/ layout = RainbowFields
        \/ layout \in {FadeFields, CycleFields, ChaseFields, FireFields}
        \/ layout = ColorFields \cup HueFields(mode, 44)
        \/ layout = FireColorFields \cup HueFields(mode, 38)
        \/ layout = BaseFields \cup HueFields(mode, 48)
    BY KindLayout
  <2> HIDE DEF layout
  <2> QED  BY <1>1, <1>2, <1>3, <1>4, <1>5, <2>1
<1>7. f \in layout
  OBVIOUS
<1> HIDE DEF layout
<1> QED  BY <1>6, <1>7, Zenon DEF Sized

-------------------------------------------------------------------------------
(* Pages read, and rebuilt.                                                *)

(* A page as the decoder returns it.                                       *)
TypeOf(s)   == Given(s, "packet_type", Control)
ModeOf(s)   == Given(s, "light_mode", 2)
LayoutOf(s) == PixelLayout(s.effect, TypeOf(s), ModeOf(s))
IsPage(s) ==
  /\ "effect" \in DOMAIN s /\ Kind(s.effect, TypeOf(s), ModeOf(s))
  /\ DOMAIN s = {f[1] : f \in LayoutOf(s)} \cup {"effect"}
  /\ \A f \in LayoutOf(s) : s[f[1]] \in 0..(2^f[3] - 1)

LEMMA ApartPart ==
  ASSUME NEW layout, NEW part \in SUBSET layout, Apart(layout)
  PROVE  Apart(part)
  BY DEF Apart

(* What a page says, where its fields and its kind are known.              *)
LEMMA DecodedPage ==
  ASSUME NEW p, PixelReadable(p), NEW s, s = DecodePixel(p),
         NEW e, e = PixelOf(p), NEW type, type = Value(p, 60, 2),
         NEW mode, mode = Value(p, ModeAt(e, type), 2),
         NEW layout, layout = PixelLayout(e, type, mode)
  PROVE  /\ s = Fields(layout, p) ++ [effect |-> e] /\ Kind(e, type, mode)
         /\ IsPage(s) /\ s.effect = e /\ LayoutOf(s) = layout
<1>1. s = Fields(layout, p) ++ [effect |-> e]
  BY DEF DecodePixel
<1>2. Kind(e, type, mode)
  <2>1. Value(p, 64, 8) \in {PixelId(known) : known \in Pixels} /\ Paged(e, type)
        /\ (e # "Rainbow" /\ type # Control => mode \in 0..2)
    BY DEF PixelReadable
  <2>2. e \in Pixels
    BY <2>1 DEF PixelOf
  <2> QED  BY <2>1, <2>2 DEF Kind
<1> DEFINE w == Fields(layout, p)
<1>3. /\ Apart(layout \cup {Id}) /\ \A f \in layout : f[1] # "effect"
      /\ e # "Rainbow" => <<"packet_type", 60, 2>> \in layout
      /\ e # "Rainbow" /\ type # Control => <<"light_mode", ModeAt(e, type), 2>> \in layout
  BY <1>2, KindFacts
<1>4. Apart(layout)
  BY <1>3, ApartPart
<1>5. DOMAIN w = {f[1] : f \in layout}
  BY FieldNames
<1>6. \A f \in layout : w[f[1]] = Value(p, f[2], f[3]) /\ w[f[1]] \in 0..(2^f[3] - 1)
  BY <1>4, ReadField, FieldBound
<1> HIDE DEF w
<1>7. /\ DOMAIN s = DOMAIN w \cup {"effect"} /\ s.effect = e
      /\ \A f \in layout : s[f[1]] = w[f[1]] /\ f[1] \in DOMAIN s
  BY <1>1, <1>3, <1>5 DEF ++, w
<1>8. e # "Rainbow" => TypeOf(s) = type
  <2>1. ASSUME e # "Rainbow" PROVE "packet_type" \in DOMAIN s /\ s["packet_type"] = Value(p, 60, 2)
    <3> DEFINE f == <<"packet_type", 60, 2>>
    <3>1. f \in layout /\ f[1] = "packet_type" /\ f[2] = 60 /\ f[3] = 2
      BY <1>3, <2>1
    <3> HIDE DEF f
    <3> QED  BY <1>6, <1>7, <3>1
  <2> QED  BY <2>1 DEF TypeOf, Given
<1>9. e # "Rainbow" /\ type # Control => ModeOf(s) = mode
  <2>1. ASSUME e # "Rainbow", type # Control
        PROVE  "light_mode" \in DOMAIN s /\ s["light_mode"] = Value(p, ModeAt(e, type), 2)
    <3> DEFINE f == <<"light_mode", ModeAt(e, type), 2>>
    <3>1. f \in layout /\ f[1] = "light_mode" /\ f[2] = ModeAt(e, type) /\ f[3] = 2
      BY <1>3, <2>1
    <3> HIDE DEF f
    <3> QED  BY <1>6, <1>7, <3>1
  <2> QED  BY <2>1 DEF ModeOf, Given
<1>10. LayoutOf(s) = layout /\ Kind(e, TypeOf(s), ModeOf(s))
  BY <1>2, <1>7, <1>8, <1>9, SameLayout DEF LayoutOf
<1>11. IsPage(s)
  BY <1>5, <1>6, <1>7, <1>10 DEF IsPage
<1> QED  BY <1>1, <1>2, <1>7, <1>10, <1>11

LEMMA PageDecoded ==
  ASSUME NEW p, PixelReadable(p), NEW s, s = DecodePixel(p)
  PROVE  IsPage(s) /\ s.effect = PixelOf(p)
<1>1. \A e, type, mode, layout :
        /\ e = PixelOf(p) /\ type = Value(p, 60, 2) /\ mode = Value(p, ModeAt(e, type), 2)
        /\ layout = PixelLayout(e, type, mode)
        => s.effect = e
  BY DecodedPage, Zenon
<1>2. IsPage(s)
  BY DecodedPage
<1>3. s.effect = PixelOf(p)
  BY <1>1
<1> QED  BY <1>2, <1>3

(* An effect is known by its number.                                       *)
LEMMA Ids ==
  /\ \A e \in Pixels : PixelId(e) \in 0..(2^8 - 1)
  /\ \A e, f \in Pixels : PixelId(e) = PixelId(f) => e = f
<1>1. /\ PixelId("Color Fade") = 0 /\ PixelId("Color Cycle") = 1 /\ PixelId("One Pixel Chase") = 2
      /\ PixelId("Two Pixel Chase") = 3 /\ PixelId("Three Pixel Chase") = 4
      /\ PixelId("Pixel Fire") = 5 /\ PixelId("Rainbow") = 7
  BY DEF PixelId
<1>2. \A e \in Pixels : PixelId(e) \in 0..(2^8 - 1)
  <2> SUFFICES ASSUME NEW e \in Pixels PROVE PixelId(e) \in 0..(2^8 - 1)
    OBVIOUS
  <2>1. PixelId(e) \in {0, 1, 2, 3, 4, 5, 7}
    BY <1>1, Zenon DEF Pixels, Chases
  <2>2. 2^8 = 256
    OBVIOUS
  <2> QED  BY <2>1, <2>2
<1> DEFINE Name(i) == <<"Color Fade", "Color Cycle", "One Pixel Chase", "Two Pixel Chase",
                        "Three Pixel Chase", "Pixel Fire", "none", "Rainbow">>[i + 1]
<1>5. /\ Name(0) = "Color Fade" /\ Name(1) = "Color Cycle" /\ Name(2) = "One Pixel Chase"
      /\ Name(3) = "Two Pixel Chase" /\ Name(4) = "Three Pixel Chase"
      /\ Name(5) = "Pixel Fire" /\ Name(7) = "Rainbow"
  OBVIOUS
<1> HIDE DEF Name
<1>3. \A e \in Pixels : Name(PixelId(e)) = e
  BY <1>1, <1>5, Zenon DEF Pixels, Chases
<1> HIDE DEF Name
<1>4. \A e, f \in Pixels : PixelId(e) = PixelId(f) => e = f
  <2> SUFFICES ASSUME NEW e \in Pixels, NEW f \in Pixels, PixelId(e) = PixelId(f) PROVE e = f
    OBVIOUS
  <2> QED  BY <1>3
<1> QED  BY <1>2, <1>4

(* A page with another playback and brightness.                            *)
Changed(s, t) ==
  /\ DOMAIN t = DOMAIN s
  /\ \A n \in DOMAIN s \ {"playback", "brightness"} : t[n] = s[n]

(* A page that is changed so, sent and decoded is the page but for that.   *)
LEMMA RoundTrip ==
  ASSUME NEW s, IsPage(s), NEW t, Changed(s, t), t.playback \in 0..3,
         NEW p, p = EncodePixel(t), NEW d, d = DecodePixel(p)
  PROVE  /\ PixelReadable(p) /\ p.command = 33 /\ IsPage(d) /\ Changed(s, d) /\ d.playback = t.playback
         /\ Value(p, 64, 8) = PixelId(s.effect)
         /\ "brightness" \in DOMAIN s /\ t["brightness"] \in 0..1023 => d["brightness"] = t["brightness"]
<1> DEFINE e == t.effect
           type == TypeOf(t)
           mode == ModeOf(t)
           layout == LayoutOf(t)
           whole == layout \cup {Id}
           width(n) == (CHOOSE f \in layout : f[1] = n)[3]
           wire == [n \in {f[1] : f \in layout} |-> Clamp(t[n], 0, 2^width(n) - 1)]
                     ++ [id |-> PixelId(e)]
<1>3. s.effect = e /\ TypeOf(s) = type /\ ModeOf(s) = mode /\ LayoutOf(s) = layout
  BY DEF Changed, TypeOf, ModeOf, LayoutOf, Given, IsPage
<1>1. Kind(e, type, mode) /\ layout = PixelLayout(e, type, mode)
  BY <1>3 DEF IsPage, LayoutOf
<1>2. /\ Apart(whole) /\ <<"playback", 62, 2>> \in layout
      /\ \A f \in layout : f[1] # "effect" /\ f[1] # "id"
      /\ e # "Rainbow" => <<"packet_type", 60, 2>> \in layout
      /\ e # "Rainbow" /\ type # Control => <<"light_mode", ModeAt(e, type), 2>> \in layout
  BY <1>1, KindFacts
<1>4. p = Packet(33, whole, wire)
  BY DEF EncodePixel, TypeOf, ModeOf, LayoutOf, Id
<1>5. p.command = 33
  BY <1>4 DEF Packet
<1>6. Apart(layout)
  BY <1>2, ApartPart
<1>7. \A f \in layout : width(f[1]) = f[3]
  <2> TAKE f \in layout
  <2>1. \A g \in layout : g[1] = f[1] => g = f
    BY <1>6 DEF Apart
  <2> QED  BY <2>1
<1> HIDE DEF width
<1>8. ASSUME NEW f \in layout, t[f[1]] \in 0..(2^f[3] - 1)
      PROVE  Value(p, f[2], f[3]) = t[f[1]]
  <2>1. wire[f[1]] = Clamp(t[f[1]], 0, 2^f[3] - 1)
    BY <1>2, <1>7 DEF ++
  <2> DEFINE v == t[f[1]]
             b == 2^f[3] - 1
  <2>2. Clamp(v, 0, b) = v
    <3>1. v \in 0..b
      BY <1>8
    <3>2. b \in Int
      <4>0. Place(f)
        BY <1>6 DEF Apart
      <4>1. f[3] \in 0..10
        BY <4>0 DEF Place
      <4>2. 2^f[3] = Pow(f[3]) /\ Pow(f[3]) \in Nat
        BY <4>1, Powers, Zenon
      <4> QED  BY <4>2
    <3> HIDE DEF v, b
    <3> QED  BY <3>1, <3>2 DEF Clamp
  <2>3. wire[f[1]] = t[f[1]]
    BY <2>1, <2>2
  <2> HIDE DEF wire
  <2>4. wire[f[1]] \in 0..(2^f[3] - 1)
    BY <1>8, <2>3
  <2>5. f \in whole
    OBVIOUS
  <2> HIDE DEF whole
  <2>6. Value(Packet(33, whole, wire), f[2], f[3]) = wire[f[1]]
    BY <1>2, <2>4, <2>5, ReadBack
  <2> QED  BY <1>4, <2>3, <2>6
<1>9. \A f \in layout : f[1] # "brightness" => t[f[1]] \in 0..(2^f[3] - 1)
  <2> SUFFICES ASSUME NEW f \in layout, f[1] # "brightness" PROVE t[f[1]] \in 0..(2^f[3] - 1)
    OBVIOUS
  <2>1. CASE f[1] = "playback"
    <3>1. f = <<"playback", 62, 2>>
      BY <1>2, <1>6, <2>1 DEF Apart
    <3> QED  BY <3>1
  <2>2. CASE f[1] # "playback"
    <3>1. t[f[1]] = s[f[1]]
      BY <1>3, <2>2 DEF Changed, IsPage
    <3> QED  BY <1>3, <3>1 DEF IsPage
  <2> QED  BY <2>1, <2>2
<1>10. Value(p, 64, 8) = PixelId(e)
  <2>1. wire["id"] = PixelId(e)
    BY <1>2 DEF ++
  <2>2. wire["id"] \in 0..(2^8 - 1)
    BY <1>1, <2>1, Ids DEF Kind
  <2> DEFINE f == Id
  <2>3. f[1] = "id" /\ f[2] = 64 /\ f[3] = 8
    BY DEF Id
  <2>6. f \in whole
    OBVIOUS
  <2> HIDE DEF wire, whole, f
  <2>4. wire[f[1]] \in 0..(2^f[3] - 1)
    BY <2>2, <2>3
  <2>5. Value(Packet(33, whole, wire), f[2], f[3]) = wire[f[1]]
    BY <1>2, <2>6, <2>4, ReadBack
  <2> QED  BY <1>4, <2>1, <2>3, <2>5
<1>11. PixelOf(p) = e
  BY <1>1, <1>10, Ids DEF PixelOf, Kind
<1>12. e # "Rainbow" => Value(p, 60, 2) = type
  <2> SUFFICES ASSUME e # "Rainbow" PROVE Value(p, 60, 2) = type
    OBVIOUS
  <2> DEFINE f == <<"packet_type", 60, 2>>
  <2>1. f \in layout /\ f[1] = "packet_type" /\ f[2] = 60 /\ f[3] = 2
    BY <1>2
  <2> HIDE DEF f
  <2>2. t[f[1]] = type
    BY <1>3, <2>1 DEF TypeOf, Given, Changed, IsPage
  <2> QED  BY <1>8, <1>9, <2>1, <2>2
<1>13. e # "Rainbow" /\ type # Control => Value(p, ModeAt(e, type), 2) = mode
  <2> SUFFICES ASSUME e # "Rainbow", type # Control PROVE Value(p, ModeAt(e, type), 2) = mode
    OBVIOUS
  <2> DEFINE f == <<"light_mode", ModeAt(e, type), 2>>
  <2>1. f \in layout /\ f[1] = "light_mode" /\ f[2] = ModeAt(e, type) /\ f[3] = 2
    BY <1>2
  <2> HIDE DEF f
  <2>2. t[f[1]] = mode
    BY <1>3, <2>1 DEF ModeOf, Given, Changed, IsPage
  <2> QED  BY <1>8, <1>9, <2>1, <2>2
<1> DEFINE rawType == Value(p, 60, 2)
           rawMode == Value(p, ModeAt(e, rawType), 2)
<1>14. PixelLayout(e, rawType, rawMode) = layout /\ Kind(e, rawType, rawMode)
  BY <1>1, <1>12, <1>13, SameLayout
<1>15. PixelReadable(p)
  BY <1>10, <1>11, <1>14 DEF PixelReadable, Kind
<1> HIDE DEF wire, whole, layout, rawType, rawMode, e, type, mode
<1>16. d = Fields(layout, p) ++ [effect |-> e] /\ IsPage(d)
  BY <1>11, <1>14, <1>15, DecodedPage DEF rawType, rawMode
<1> DEFINE w == Fields(layout, p)
<1>17. /\ DOMAIN w = {f[1] : f \in layout}
       /\ \A f \in layout : w[f[1]] = Value(p, f[2], f[3])
  BY <1>6, ReadField, FieldNames
<1> HIDE DEF w
<1>18. DOMAIN d = {f[1] : f \in layout} \cup {"effect"} /\ d.effect = e
       /\ \A f \in layout : d[f[1]] = Value(p, f[2], f[3])
  BY <1>2, <1>16, <1>17 DEF ++, w
<1>19. DOMAIN s = {f[1] : f \in layout} \cup {"effect"}
  BY <1>3 DEF IsPage
<1>20. \A f \in layout : f[1] # "brightness" => d[f[1]] = t[f[1]]
  BY <1>8, <1>9, <1>18
<1>21. d.playback = t.playback
  <2> DEFINE f == <<"playback", 62, 2>>
  <2>1. f \in layout /\ f[1] = "playback"
    BY <1>2
  <2> HIDE DEF f
  <2> QED  BY <1>20, <2>1
<1>22. Changed(s, d)
  <2>1. d.effect = s.effect
    BY <1>3, <1>18
  <2>2. ASSUME NEW n \in DOMAIN s \ {"playback", "brightness"} PROVE d[n] = s[n]
    <3>1. t[n] = s[n]
      BY DEF Changed
    <3> QED  BY <1>19, <1>20, <2>1, <3>1
  <2> QED  BY <1>18, <1>19, <2>2 DEF Changed
<1>23. ASSUME "brightness" \in DOMAIN s, t["brightness"] \in 0..1023
       PROVE  d["brightness"] = t["brightness"]
  <2>1. PICK f \in layout : f[1] = "brightness"
    BY <1>19, <1>23
  <2>2. f[3] = 10
    BY <1>1, <2>1, Widths
  <2>3. t[f[1]] \in 0..(2^f[3] - 1)
    <3>1. 2^10 - 1 = 1023
      OBVIOUS
    <3>2. t["brightness"] \in 0..(2^10 - 1)
      BY <1>23, <3>1, SMTT(30)
    <3> QED  BY <2>1, <2>2, <3>2, Zenon
  <2>4. Value(p, f[2], f[3]) = t[f[1]]
    BY <1>8, <2>3
  <2> QED  BY <1>18, <2>1, <2>4
<1>24. Value(p, 64, 8) = PixelId(s.effect)
  BY <1>3, <1>10
<1> QED  BY <1>5, <1>15, <1>16, <1>21, <1>22, <1>23, <1>24

(* The order of the pages of a program: the control page last.             *)
KeyList(keys, n) ==
  /\ n \in Nat \ {0} /\ DOMAIN keys = 1..n /\ keys[n] = 17
  /\ \A i, j \in 1..n : keys[i] = keys[j] => i = j

LEMMA ControlPage ==
  ASSUME NEW s, IsPage(s), PageKey(s) = 17, s.effect # "Rainbow"
  PROVE  TypeOf(s) = Control /\ LayoutOf(s) = PixelLayout(s.effect, Control, 2)
<1> DEFINE e == s.effect
           type == TypeOf(s)
           mode == ModeOf(s)
<1>1. Kind(e, type, mode) /\ e \in Pixels /\ LayoutOf(s) = PixelLayout(e, type, mode)
  BY DEF IsPage, Kind, LayoutOf
<1>2. <<"packet_type", 60, 2>> \in LayoutOf(s)
  BY <1>1, KindFacts
<1>3. "packet_type" \in DOMAIN s
  BY <1>2 DEF IsPage
<1>4. type = s.packet_type
  BY <1>3 DEF TypeOf, Given
<1>5. type # Base
  BY <1>4 DEF PageKey, Base, Color
<1>6. type # Color
  <2> SUFFICES ASSUME type = Color PROVE FALSE
    OBVIOUS
  <2>1. Given(s, "serial", 0) = 17
    BY <1>4 DEF PageKey
  <2>2. "serial" \in DOMAIN s /\ s["serial"] = 17
    BY <2>1 DEF Given
  <2>3. LayoutOf(s) = ColorFields \cup HueFields(mode, 44) \/ LayoutOf(s) = FireColorFields \cup HueFields(mode, 38)
    BY <1>1, PixelCases, ColorLayouts
  <2>4. PICK f \in LayoutOf(s) : f[1] = "serial"
    BY <2>2 DEF IsPage
  <2>5. f = <<"serial", 56, 4>>
    <3>1. f \notin HueFields(mode, 44) /\ f \notin HueFields(mode, 38)
      BY <2>4, HueNames, ZenonT(40)
    <3>2. f \in ColorFields \/ f \in FireColorFields
      BY <2>3, <3>1
    <3> QED  BY <2>4, <3>2 DEF ColorFields, FireColorFields, Shared
  <2>6. s["serial"] \in 0..(2^4 - 1)
    BY <2>4, <2>5 DEF IsPage
  <2> QED  BY <2>2, <2>6
<1>7. type = Control
  BY <1>1, <1>5, <1>6 DEF Kind, Paged
<1> QED  BY <1>1, <1>7, SameLayout

(* The pages a control page calls for differ, and end with it.             *)
LEMMA KeysOf ==
  ASSUME NEW s, IsPage(s), PageKey(s) = 17
  PROVE  \E n : KeyList(PixelKeys(s), n)
<1> DEFINE e == s.effect
<1>1. CASE e = "Rainbow"
  <2>1. PixelKeys(s) = <<17>>
    BY <1>1 DEF PixelKeys
  <2>2. KeyList(<<17>>, 1)
    BY DEF KeyList
  <2> QED  BY <2>1, <2>2
<1>2. CASE e = "Pixel Fire"
  <2>1. PixelKeys(s) = <<0, 16, 17>>
    BY <1>2 DEF PixelKeys
  <2>2. KeyList(<<0, 16, 17>>, 3)
    BY DEF KeyList
  <2> QED  BY <2>1, <2>2
<1>3. CASE e \in Common
  <2> DEFINE keys(colors) == [i \in 1..(colors + 1) |-> IF i <= colors THEN i - 1 ELSE 17]
  <2>1. \A colors \in 0..15 : KeyList(keys(colors), colors + 1)
    BY DEF KeyList
  <2>2. \E colors \in 0..15 : PixelKeys(s) = keys(colors)
    <3>1. CASE e \in Chases
      <4> DEFINE slots == CASE e = "One Pixel Chase" -> 2 [] e = "Two Pixel Chase" -> 3
                            [] e = "Three Pixel Chase" -> 4
                 colors == IF s.group = 0 THEN slots ELSE slots * 2 - 1
      <4>1. slots \in {2, 3, 4}
        BY <3>1 DEF Chases
      <4>2. PixelKeys(s) = keys(colors)
        BY <3>1 DEF PixelKeys, Chases
      <4> HIDE DEF slots
      <4>3. colors \in 0..15
        BY <4>1
      <4> QED  BY <4>2, <4>3
    <3>2. CASE e \in {"Color Fade", "Color Cycle"}
      <4>1. LayoutOf(s) \in {FadeFields, CycleFields}
        BY <3>2, ControlPage, ControlLayout
      <4>2. <<"color_count", 56, 4>> \in LayoutOf(s)
        BY <4>1 DEF FadeFields, CycleFields
      <4>3. s["color_count"] \in 0..(2^4 - 1)
        <5> DEFINE f == <<"color_count", 56, 4>>
        <5>1. f \in LayoutOf(s) /\ f[1] = "color_count" /\ f[3] = 4
          BY <4>2
        <5> HIDE DEF f
        <5> QED  BY <5>1 DEF IsPage
      <4>4. PixelKeys(s) = keys(s["color_count"])
        BY <3>2 DEF PixelKeys, Chases
      <4>5. s["color_count"] \in 0..15
        BY <4>3
      <4> QED  BY <4>4, <4>5
    <3> QED  BY <1>3, <3>1, <3>2 DEF Common
  <2> QED  BY <2>1, <2>2
<1>4. e \in Pixels
  BY DEF IsPage, Kind
<1> QED  BY <1>1, <1>2, <1>3, <1>4, PixelCases

(* The key, the pages called for and all that is not replaced stay.        *)
LEMMA ChangedSame ==
  ASSUME NEW s, IsPage(s), NEW t, Changed(s, t)
  PROVE  /\ t.effect = s.effect /\ PageKey(t) = PageKey(s)
         /\ PageKey(s) = 17 => PixelKeys(t) = PixelKeys(s)
         /\ Restrict(t, DOMAIN t \ {"playback", "brightness"}) =
            Restrict(s, DOMAIN s \ {"playback", "brightness"})
<1>1. "effect" \in DOMAIN s /\ t.effect = s.effect
  BY DEF IsPage, Changed
<1>2. \A n \in DOMAIN s \ {"playback", "brightness"} : t[n] = s[n]
  BY DEF Changed
<1>3. DOMAIN t = DOMAIN s
  BY DEF Changed
<1>4. Restrict(t, DOMAIN t \ {"playback", "brightness"}) =
      Restrict(s, DOMAIN s \ {"playback", "brightness"})
  BY <1>2, <1>3 DEF Restrict
<1>5. s.effect # "Rainbow" => "packet_type" \in DOMAIN s
  <2> SUFFICES ASSUME s.effect # "Rainbow" PROVE "packet_type" \in DOMAIN s
    OBVIOUS
  <2>1. <<"packet_type", 60, 2>> \in LayoutOf(s)
    BY KindFacts DEF IsPage, LayoutOf
  <2> QED  BY <2>1 DEF IsPage
<1>6. PageKey(t) = PageKey(s)
  <2>1. Given(t, "serial", 0) = Given(s, "serial", 0)
    BY <1>2, <1>3 DEF Given
  <2>2. s.effect # "Rainbow" => t.packet_type = s.packet_type
    BY <1>2, <1>5
  <2> QED  BY <1>1, <2>1, <2>2 DEF PageKey
<1>7. ASSUME PageKey(s) = 17 PROVE PixelKeys(t) = PixelKeys(s)
  <2>0. s.effect \in Pixels
    BY DEF IsPage, Kind
  <2>1. CASE s.effect \in Chases
    <3>1. <<"group", 58, 2>> \in LayoutOf(s)
      <4>1. s.effect # "Rainbow"
        BY <2>1 DEF Chases
      <4>2. LayoutOf(s) = ChaseFields
        BY <1>7, <2>1, <4>1, ControlPage, ControlLayout
      <4> QED  BY <4>2 DEF ChaseFields
    <3>2. "group" \in DOMAIN s
      BY <3>1 DEF IsPage
    <3>3. t.group = s.group
      BY <1>2, <3>2
    <3> QED  BY <1>1, <2>1, <3>3 DEF PixelKeys, Chases
  <2>2. CASE s.effect \in {"Color Fade", "Color Cycle"}
    <3>1. <<"color_count", 56, 4>> \in LayoutOf(s)
      <4>1. LayoutOf(s) \in {FadeFields, CycleFields}
        BY <1>7, <2>2, ControlPage, ControlLayout
      <4> QED  BY <4>1 DEF FadeFields, CycleFields
    <3>2. "color_count" \in DOMAIN s
      BY <3>1 DEF IsPage
    <3>3. t.color_count = s.color_count
      BY <1>2, <3>2
    <3> QED  BY <1>1, <2>2, <3>3 DEF PixelKeys, Chases
  <2>3. CASE s.effect \in {"Pixel Fire", "Rainbow"}
    BY <1>1, <2>3 DEF PixelKeys
  <2> QED  BY <2>0, <2>1, <2>2, <2>3 DEF Pixels
<1> QED  BY <1>1, <1>4, <1>6, <1>7

(* A program whose pages have keys of their own.                           *)
LEMMA ProgramOf ==
  ASSUME NEW n, NEW keys, KeyList(keys, n), NEW sent, DOMAIN sent = 1..n,
         \A i \in 1..n : PageKey(sent[i]) = keys[i],
         NEW program, program = PixelProgram(sent)
  PROVE  /\ program.family = "pixel" /\ program.effect = sent[1].effect
         /\ DOMAIN program.pages = {keys[i] : i \in 1..n}
         /\ \A i \in 1..n : program.pages[keys[i]] = sent[i]
<1> DEFINE Last(k, i) == /\ PageKey(sent[i]) = k
                         /\ \A j \in DOMAIN sent : PageKey(sent[j]) = k => j <= i
           Latest(k) == CHOOSE i \in DOMAIN sent : Last(k, i)
           merged == [k \in {PageKey(sent[i]) : i \in DOMAIN sent} |-> sent[Latest(k)]]
<1>1. program.family = "pixel" /\ program.effect = sent[1].effect /\ program.pages = merged
  BY DEF PixelProgram
<1>2. ASSUME NEW i \in 1..n PROVE Latest(keys[i]) = i
  <2>1. \A j \in 1..n : PageKey(sent[j]) = keys[i] => j = i
    BY DEF KeyList
  <2>2. i \in DOMAIN sent /\ Last(keys[i], i)
    BY <2>1 DEF KeyList
  <2>3. \A j \in DOMAIN sent : Last(keys[i], j) => j = i
    BY <2>1
  <2> QED  BY <2>2, <2>3
<1> HIDE DEF Latest
<1>3. DOMAIN merged = {keys[i] : i \in 1..n}
  OBVIOUS
<1>4. \A i \in 1..n : merged[keys[i]] = sent[i]
  BY <1>2
<1> QED  BY <1>1, <1>3, <1>4

-------------------------------------------------------------------------------
(* The pages of the app's defaults (pixelfx.py).                           *)
White == [light_mode |-> 0, cct_raw |-> 112, gm_raw |-> 100]
Warm  == [light_mode |-> 0, cct_raw |-> 64, gm_raw |-> 100]
Hue(h) == [light_mode |-> 1, hue |-> h, saturation |-> 100, hsi_cct_raw |-> 112]
Black == [light_mode |-> 2]
Slot(e, i, look) ==
  [effect |-> e, playback |-> Continue, packet_type |-> Color,
   serial |-> i, brightness |-> 180] ++ look
End(e, fields) == [effect |-> e, playback |-> Running, packet_type |-> Control] ++ fields

Fits(s, layout) == \A f \in layout : s[f[1]] \in 0..(2^f[3] - 1)
Small(s, layout) == \A f \in layout : f[3] \in 0..10 /\ s[f[1]] \in 0..(Pow(f[3]) - 1)

LEMMA SmallFits ==
  ASSUME NEW s, NEW layout, Small(s, layout)
  PROVE  Fits(s, layout)
  BY Powers DEF Small, Fits

(* The colour of a page.                                                   *)
IsLook(look, mode, at) ==
  /\ look["light_mode"] = mode /\ DOMAIN look = {f[1] : f \in HueFields(mode, at)}
  /\ Fits(look, HueFields(mode, at))

LEMMA Looks ==
  ASSUME NEW at
  PROVE  /\ IsLook(White, 0, at) /\ IsLook(Warm, 0, at) /\ IsLook(Black, 2, at)
         /\ \A h \in 0..360 : IsLook(Hue(h), 1, at)
<1>1. IsLook(White, 0, at)
  <2>1. Small(White, HueFields(0, at))
    BY DEF Small, HueFields, White, Pow
  <2>2. DOMAIN White = {f[1] : f \in HueFields(0, at)} /\ White["light_mode"] = 0
    BY DEF HueFields, White
  <2> QED  BY <2>1, <2>2, SmallFits DEF IsLook
<1>2. IsLook(Warm, 0, at)
  <2>1. Small(Warm, HueFields(0, at))
    BY DEF Small, HueFields, Warm, Pow
  <2>2. DOMAIN Warm = {f[1] : f \in HueFields(0, at)} /\ Warm["light_mode"] = 0
    BY DEF HueFields, Warm
  <2> QED  BY <2>1, <2>2, SmallFits DEF IsLook
<1>3. IsLook(Black, 2, at)
  <2>1. Small(Black, HueFields(2, at))
    BY DEF Small, HueFields, Black, Pow
  <2>2. DOMAIN Black = {f[1] : f \in HueFields(2, at)} /\ Black["light_mode"] = 2
    BY DEF HueFields, Black
  <2> QED  BY <2>1, <2>2, SmallFits DEF IsLook
<1>4. ASSUME NEW h \in 0..360 PROVE IsLook(Hue(h), 1, at)
  <2>1. Small(Hue(h), HueFields(1, at))
    BY DEF Small, HueFields, Hue, Pow
  <2>2. DOMAIN Hue(h) = {f[1] : f \in HueFields(1, at)} /\ Hue(h)["light_mode"] = 1
    BY DEF HueFields, Hue
  <2> QED  BY <2>1, <2>2, SmallFits DEF IsLook
<1> QED  BY <1>1, <1>2, <1>3, <1>4

(* The other fields of a page that has one.                                *)
IsHead(head, e, type, own) ==
  /\ DOMAIN head = {f[1] : f \in own} \cup {"effect"} /\ Fits(head, own)
  /\ "light_mode" \notin DOMAIN head /\ "packet_type" \in DOMAIN head
  /\ head["effect"] = e /\ head["packet_type"] = type

LEMMA ColorPage ==
  ASSUME NEW e, NEW type, NEW mode, Kind(e, type, mode), e # "Rainbow", type # Control,
         NEW own, NEW at, PixelLayout(e, type, mode) = own \cup HueFields(mode, at),
         NEW head, IsHead(head, e, type, own), NEW look, IsLook(look, mode, at)
  PROVE  IsPage(head ++ look) /\ \A n \in DOMAIN head : n \in DOMAIN (head ++ look) /\ (head ++ look)[n] = head[n]
<1> DEFINE layout == own \cup HueFields(mode, at)
           s == head ++ look
<1>0. layout = PixelLayout(e, type, mode)
  OBVIOUS
<1>13. Apart(layout \cup {Id}) /\ (\A f \in layout : f[1] # "effect")
  BY <1>0, KindFacts
<1>1. Apart(layout)
  BY <1>13, ApartPart
<1>2. \A f \in layout : f[1] # "effect"
  BY <1>13
<1>3. \A n \in DOMAIN head : n \in DOMAIN s /\ s[n] = head[n]
  BY DEF ++
<1>4. \A n \in DOMAIN look \ DOMAIN head : n \in DOMAIN s /\ s[n] = look[n]
  BY DEF ++
<1>5. DOMAIN s = DOMAIN head \cup DOMAIN look
  BY DEF ++
<1> HIDE DEF s
<1>6. DOMAIN s = {f[1] : f \in layout} \cup {"effect"}
  BY <1>5 DEF IsLook, IsHead
<1>7. \A f \in layout : s[f[1]] \in 0..(2^f[3] - 1)
  <2> SUFFICES ASSUME NEW f \in layout PROVE s[f[1]] \in 0..(2^f[3] - 1)
    OBVIOUS
  <2>1. CASE f[1] \in DOMAIN head
    <3>1. PICK g \in own : g[1] = f[1]
      BY <1>2, <2>1 DEF IsHead
    <3>2. g = f
      BY <1>1, <3>1 DEF Apart
    <3> QED  BY <1>3, <2>1, <3>2 DEF Fits, IsHead
  <2>2. CASE f[1] \notin DOMAIN head
    <3>1. f \in HueFields(mode, at) /\ f[1] \in DOMAIN look
      BY <2>2 DEF IsLook, IsHead
    <3> QED  BY <1>4, <2>2, <3>1 DEF IsLook, Fits
  <2> QED  BY <2>1, <2>2
<1>8. s.effect = e /\ s.packet_type = type /\ {"effect", "packet_type"} \subseteq DOMAIN s
  BY <1>3 DEF IsHead
<1>9. "light_mode" \in DOMAIN look
  <2> DEFINE f == <<"light_mode", at, 2>>
  <2>1. f \in HueFields(mode, at) /\ f[1] = "light_mode"
    BY HueNames
  <2> HIDE DEF f
  <2> QED  BY <2>1 DEF IsLook
<1>10. s["light_mode"] = mode /\ "light_mode" \in DOMAIN s
  BY <1>4, <1>9 DEF IsLook, IsHead
<1>11. TypeOf(s) = type /\ ModeOf(s) = mode
  BY <1>8, <1>10 DEF TypeOf, ModeOf, Given
<1>12. IsPage(s)
  BY <1>0, <1>6, <1>7, <1>8, <1>11 DEF IsPage, LayoutOf
<1> QED  BY <1>3, <1>12 DEF s

(* A colour page of a chase, a fade or a cycle.                            *)
LEMMA SlotPage ==
  ASSUME NEW e \in Common, NEW i \in 0..3, NEW look,
         look \in {White, Black, Hue(120), Hue(240), Hue(360)}, NEW s, s = Slot(e, i, look)
  PROVE  IsPage(s) /\ s.effect = e /\ PageKey(s) = i
<1>1. e \in Pixels /\ e # "Rainbow" /\ e # "Pixel Fire"
  BY DEF Common, Chases, Pixels
<1> DEFINE head == [effect |-> e, playback |-> Continue, packet_type |-> Color,
                    serial |-> i, brightness |-> 180]
<1>2. /\ DOMAIN head = {"effect", "playback", "packet_type", "serial", "brightness"}
      /\ head["effect"] = e /\ head["playback"] = 3 /\ head["packet_type"] = 1
      /\ head["serial"] = i /\ head["brightness"] = 180
  BY DEF Continue, Color
<1>3. s = head ++ look
  BY DEF Slot
<1> HIDE DEF head
<1>4. ColorFields = {<<"playback", 62, 2>>, <<"packet_type", 60, 2>>, <<"brightness", 46, 10>>,
                     <<"serial", 56, 4>>}
  BY DEF ColorFields, Shared
<1>5. DOMAIN head = {f[1] : f \in ColorFields} \cup {"effect"}
  BY <1>2, <1>4
<1>6. Small(head, ColorFields)
  BY <1>2, <1>4 DEF Small, Pow
<1>7. PICK mode \in 0..2 : IsLook(look, mode, 44)
  <2>1. 0 \in 0..2 /\ 1 \in 0..2 /\ 2 \in 0..2 /\ 120 \in 0..360 /\ 240 \in 0..360 /\ 360 \in 0..360
    OBVIOUS
  <2>2. IsLook(look, 0, 44) \/ IsLook(look, 1, 44) \/ IsLook(look, 2, 44)
    <3>1. CASE look = White
      BY <3>1, Looks
    <3>2. CASE look = Black
      BY <3>2, Looks
    <3>3. ASSUME NEW h \in 0..360, look = Hue(h) PROVE IsLook(look, 1, 44)
      BY <3>3, Looks
    <3> QED  BY <2>1, <3>1, <3>2, <3>3
  <2> QED  BY <2>1, <2>2
<1>8. Kind(e, Color, mode)
  BY <1>1 DEF Kind, Paged
<1>9. Fits(head, ColorFields)
  BY <1>6, SmallFits
<1>10. PixelLayout(e, Color, mode) = ColorFields \cup HueFields(mode, 44)
  BY ColorLayouts
<1>11. Color # Control /\ Color # Base /\ Color = 1
  BY DEF Color, Control, Base
<1>14. IsHead(head, e, Color, ColorFields)
  BY <1>2, <1>5, <1>9, <1>11 DEF IsHead
<1>12. IsPage(s) /\ \A n \in DOMAIN head : n \in DOMAIN s /\ s[n] = head[n]
  <2> HIDE DEF Slot
  <2>1. IsLook(look, mode, 44)
    BY <1>7
  <2>2. e # "Rainbow" /\ Color # Control
    BY <1>1, <1>11
  <2>3. IsPage(head ++ look) /\ \A n \in DOMAIN head : n \in DOMAIN (head ++ look) /\ (head ++ look)[n] = head[n]
    BY <2>2, <2>1, <1>8, <1>10, <1>14, ColorPage
  <2> QED  BY <1>3, <2>3
<1>15. s.effect = e /\ s.packet_type = 1 /\ s.serial = i /\ "serial" \in DOMAIN s
  BY <1>2, <1>12
<1>13. PageKey(s) = i
  BY <1>1, <1>11, <1>15 DEF PageKey, Given
<1> QED  BY <1>12, <1>13, <1>15

(* The other fields of a control page.                                     *)
IsEnd(fields, layout) ==
  /\ DOMAIN fields = {f[1] : f \in layout} \ {"playback", "packet_type"}
  /\ \A f \in layout : f[1] \in DOMAIN fields =>
       f[3] \in 0..10 /\ fields[f[1]] \in 0..(Pow(f[3]) - 1)

LEMMA EndPage ==
  ASSUME NEW e \in Pixels, e # "Rainbow", NEW fields, IsEnd(fields, PixelLayout(e, Control, 2))
  PROVE  /\ IsPage(End(e, fields)) /\ End(e, fields).effect = e /\ PageKey(End(e, fields)) = 17
         /\ \A n \in DOMAIN fields : End(e, fields)[n] = fields[n]
<1> DEFINE layout == PixelLayout(e, Control, 2)
           s == End(e, fields)
<1>0. /\ DOMAIN fields = {f[1] : f \in layout} \ {"playback", "packet_type"}
      /\ \A f \in layout : f[1] \in DOMAIN fields =>
           f[3] \in 0..10 /\ fields[f[1]] \in 0..(Pow(f[3]) - 1)
  BY DEF IsEnd
<1> DEFINE head == [effect |-> e, playback |-> Running, packet_type |-> Control]
<1>1. /\ DOMAIN head = {"effect", "playback", "packet_type"} /\ head["effect"] = e
      /\ head["playback"] = 2 /\ head["packet_type"] = 0 /\ s = head ++ fields
  BY DEF End, Running, Control
<1> HIDE DEF head, s
<1>2. Kind(e, Control, 2)
  BY DEF Kind, Paged
<1>3. /\ Apart(layout \cup {Id}) /\ \A f \in layout : f[1] # "effect"
      /\ <<"playback", 62, 2>> \in layout /\ <<"packet_type", 60, 2>> \in layout
  BY <1>2, KindFacts
<1>4. Apart(layout)
  BY <1>3, ApartPart
<1>5. "effect" \notin DOMAIN fields
  BY <1>0, <1>3
<1>6. DOMAIN s = DOMAIN head \cup DOMAIN fields
  BY <1>1 DEF ++
<1>7. \A n \in DOMAIN head : n \in DOMAIN s /\ s[n] = head[n]
  BY <1>1 DEF ++
<1>8. \A n \in DOMAIN fields : n \in DOMAIN s /\ s[n] = fields[n]
  <2>1. DOMAIN head \cap DOMAIN fields = {}
    BY <1>0, <1>1, <1>5
  <2> QED  BY <1>1, <2>1 DEF ++
<1>9. DOMAIN s = {f[1] : f \in layout} \cup {"effect"}
  BY <1>0, <1>1, <1>3, <1>6
<1>10. Small(s, layout)
  <2> SUFFICES ASSUME NEW f \in layout PROVE f[3] \in 0..10 /\ s[f[1]] \in 0..(Pow(f[3]) - 1)
    BY DEF Small
  <2>1. CASE f[1] \in DOMAIN fields
    BY <1>0, <1>8, <2>1
  <2>2. CASE f[1] \in {"playback", "packet_type"}
    <3>1. f \in {<<"playback", 62, 2>>, <<"packet_type", 60, 2>>}
      BY <1>3, <1>4, <2>2 DEF Apart
    <3>2. s["playback"] = 2 /\ s["packet_type"] = 0
      BY <1>1, <1>7
    <3> QED  BY <3>1, <3>2 DEF Pow
  <2> QED  BY <1>0, <2>1, <2>2
<1>11. s.effect = e /\ s.packet_type = 0 /\ "packet_type" \in DOMAIN s
  BY <1>1, <1>7
<1>12. TypeOf(s) = Control
  BY <1>11 DEF TypeOf, Given, Control
<1>13. LayoutOf(s) = layout /\ Kind(e, TypeOf(s), ModeOf(s))
  BY <1>2, <1>11, <1>12, SameLayout DEF LayoutOf
<1>14. IsPage(s)
  BY <1>9, <1>10, <1>11, <1>13, SmallFits DEF IsPage, Fits
<1>15. PageKey(s) = 17
  BY <1>11 DEF PageKey, Color, Base
<1> QED  BY <1>8, <1>11, <1>14, <1>15 DEF s

(* The pages of an effect, in the order of their keys.                     *)
Whole(pages, e, keys, n) ==
  /\ KeyList(keys, n) /\ DOMAIN pages = 1..n
  /\ \A i \in 1..n : IsPage(pages[i]) /\ PageKey(pages[i]) = keys[i] /\ pages[i].effect = e

LEMMA Three ==
  ASSUME NEW e, NEW a, NEW b, NEW c, NEW k,
         IsPage(a), IsPage(b), IsPage(c), a.effect = e, b.effect = e, c.effect = e,
         PageKey(a) = 0, PageKey(b) = k, PageKey(c) = 17, k \in {1, 16}
  PROVE  Whole(<<a, b, c>>, e, <<0, k, 17>>, 3)
<1>1. KeyList(<<0, k, 17>>, 3)
  BY DEF KeyList
<1>2. \A i \in 1..3 : i = 1 \/ i = 2 \/ i = 3
  OBVIOUS
<1> QED  BY <1>1, <1>2 DEF Whole

LEMMA ControlPages ==
  ASSUME NEW s
  PROVE  /\ s = End("Color Fade", [color_count |-> 2, direction |-> 1, speed |-> 100]) =>
              /\ IsPage(s) /\ s.effect = "Color Fade" /\ PageKey(s) = 17 /\ s.color_count = 2
         /\ s = End("Color Cycle", [color_count |-> 2, direction |-> 1, speed |-> 20, change_way |-> 0]) =>
              /\ IsPage(s) /\ s.effect = "Color Cycle" /\ PageKey(s) = 17 /\ s.color_count = 2
         /\ \A e \in Chases :
              s = End(e, [direction |-> 1, speed |-> 100, group |-> 0, pixel_length |-> 1]) =>
                /\ IsPage(s) /\ s.effect = e /\ PageKey(s) = 17 /\ s.group = 0
         /\ s = End("Pixel Fire", [frequency |-> 20, direction |-> 0]) =>
              /\ IsPage(s) /\ s.effect = "Pixel Fire" /\ PageKey(s) = 17
<1>1. ASSUME s = End("Color Fade", [color_count |-> 2, direction |-> 1, speed |-> 100])
      PROVE  IsPage(s) /\ s.effect = "Color Fade" /\ PageKey(s) = 17 /\ s.color_count = 2
  <2> DEFINE fields == [color_count |-> 2, direction |-> 1, speed |-> 100]
             layout == FadeFields
  <2>1. layout = PixelLayout("Color Fade", Control, 2)
    BY ControlLayout
  <2>2. DOMAIN fields = {f[1] : f \in layout} \ {"playback", "packet_type"}
    BY DEF FadeFields, Shared
  <2>3. \A f \in layout : f[1] \in DOMAIN fields => f[3] \in 0..10 /\ fields[f[1]] \in 0..(Pow(f[3]) - 1)
    BY DEF FadeFields, Shared, Pow
  <2>4. "Color Fade" \in Pixels /\ "Color Fade" # "Rainbow"
    BY DEF Pixels
  <2>7. fields["color_count"] = 2 /\ "color_count" \in DOMAIN fields
    OBVIOUS
  <2>5. s = End("Color Fade", fields)
    BY <1>1
  <2> DEFINE e == "Color Fade"
  <2> HIDE DEF fields, layout
  <2>6. IsEnd(fields, PixelLayout(e, Control, 2)) /\ e \in Pixels /\ e # "Rainbow" /\ s = End(e, fields)
    BY <2>1, <2>2, <2>3, <2>4, <2>5 DEF IsEnd
  <2> HIDE DEF e
  <2>8. IsPage(s) /\ s.effect = e /\ PageKey(s) = 17 /\ s["color_count"] = fields["color_count"]
    BY <2>6, <2>7, EndPage
  <2> QED  BY <2>7, <2>8 DEF e
<1>2. ASSUME s = End("Color Cycle", [color_count |-> 2, direction |-> 1, speed |-> 20, change_way |-> 0])
      PROVE  IsPage(s) /\ s.effect = "Color Cycle" /\ PageKey(s) = 17 /\ s.color_count = 2
  <2> DEFINE fields == [color_count |-> 2, direction |-> 1, speed |-> 20, change_way |-> 0]
             layout == CycleFields
  <2>1. layout = PixelLayout("Color Cycle", Control, 2)
    BY ControlLayout
  <2>2. DOMAIN fields = {f[1] : f \in layout} \ {"playback", "packet_type"}
    BY DEF CycleFields, FadeFields, Shared
  <2>3. \A f \in layout : f[1] \in DOMAIN fields => f[3] \in 0..10 /\ fields[f[1]] \in 0..(Pow(f[3]) - 1)
    BY DEF CycleFields, FadeFields, Shared, Pow
  <2>4. "Color Cycle" \in Pixels /\ "Color Cycle" # "Rainbow"
    BY DEF Pixels
  <2>7. fields["color_count"] = 2 /\ "color_count" \in DOMAIN fields
    OBVIOUS
  <2>5. s = End("Color Cycle", fields)
    BY <1>2
  <2> DEFINE e == "Color Cycle"
  <2> HIDE DEF fields, layout
  <2>6. IsEnd(fields, PixelLayout(e, Control, 2)) /\ e \in Pixels /\ e # "Rainbow" /\ s = End(e, fields)
    BY <2>1, <2>2, <2>3, <2>4, <2>5 DEF IsEnd
  <2> HIDE DEF e
  <2>8. IsPage(s) /\ s.effect = e /\ PageKey(s) = 17 /\ s["color_count"] = fields["color_count"]
    BY <2>6, <2>7, EndPage
  <2> QED  BY <2>7, <2>8 DEF e
<1>3. ASSUME NEW e \in Chases,
             s = End(e, [direction |-> 1, speed |-> 100, group |-> 0, pixel_length |-> 1])
      PROVE  IsPage(s) /\ s.effect = e /\ PageKey(s) = 17 /\ s.group = 0
  <2> DEFINE fields == [direction |-> 1, speed |-> 100, group |-> 0, pixel_length |-> 1]
             layout == ChaseFields
  <2>1. layout = PixelLayout(e, Control, 2)
    BY ControlLayout
  <2>2. DOMAIN fields = {f[1] : f \in layout} \ {"playback", "packet_type"}
    BY DEF ChaseFields, Shared
  <2>3. \A f \in layout : f[1] \in DOMAIN fields => f[3] \in 0..10 /\ fields[f[1]] \in 0..(Pow(f[3]) - 1)
    BY DEF ChaseFields, Shared, Pow
  <2>4. e \in Pixels /\ e # "Rainbow" /\ fields["group"] = 0 /\ "group" \in DOMAIN fields
    BY DEF Pixels, Chases
  <2>5. s = End(e, fields)
    BY <1>3
  <2> HIDE DEF fields, layout
  <2>6. IsEnd(fields, PixelLayout(e, Control, 2))
    BY <2>1, <2>2, <2>3 DEF IsEnd
  <2> QED  BY <2>4, <2>5, <2>6, EndPage
<1>4. ASSUME s = End("Pixel Fire", [frequency |-> 20, direction |-> 0])
      PROVE  IsPage(s) /\ s.effect = "Pixel Fire" /\ PageKey(s) = 17
  <2> DEFINE fields == [frequency |-> 20, direction |-> 0]
             layout == FireFields
  <2>1. layout = PixelLayout("Pixel Fire", Control, 2)
    BY ControlLayout
  <2>2. DOMAIN fields = {f[1] : f \in layout} \ {"playback", "packet_type"}
    BY DEF FireFields, Shared
  <2>3. \A f \in layout : f[1] \in DOMAIN fields => f[3] \in 0..10 /\ fields[f[1]] \in 0..(Pow(f[3]) - 1)
    BY DEF FireFields, Shared, Pow
  <2>4. "Pixel Fire" \in Pixels /\ "Pixel Fire" # "Rainbow"
    BY DEF Pixels
  <2>5. s = End("Pixel Fire", fields)
    BY <1>4
  <2> DEFINE e == "Pixel Fire"
  <2> HIDE DEF fields, layout
  <2>6. IsEnd(fields, PixelLayout(e, Control, 2)) /\ e \in Pixels /\ e # "Rainbow" /\ s = End(e, fields)
    BY <2>1, <2>2, <2>3, <2>4, <2>5 DEF IsEnd
  <2> HIDE DEF e
  <2>7. IsPage(s) /\ s.effect = e /\ PageKey(s) = 17
    BY <2>6, EndPage
  <2> QED  BY <2>7 DEF e
<1> QED  BY <1>1, <1>2, <1>3, <1>4

(* The defaults of the effects that have pages of their own kind.          *)
FireColor == [effect |-> "Pixel Fire", playback |-> Continue, packet_type |-> Color,
              max_brightness |-> 500, min_brightness |-> 180] ++ Warm
FireBase == [effect |-> "Pixel Fire", playback |-> Continue, packet_type |-> Base,
             brightness |-> 180] ++ Hue(360)
RainbowPage == [effect |-> "Rainbow", playback |-> Running, brightness |-> 180, direction |-> 0,
                speed |-> 100]

LEMMA FirePages ==
  /\ IsPage(FireColor) /\ FireColor.effect = "Pixel Fire" /\ PageKey(FireColor) = 0
  /\ IsPage(FireBase) /\ FireBase.effect = "Pixel Fire" /\ PageKey(FireBase) = 16
<1>0. "Pixel Fire" # "Rainbow" /\ Kind("Pixel Fire", Color, 0) /\ Kind("Pixel Fire", Base, 1)
  BY DEF Color, Control, Base, Kind, Paged, Pixels
<1>3. Color # Control /\ Base # Control /\ Color # Base
  BY DEF Color, Control, Base
<1>1. IsPage(FireColor) /\ FireColor.effect = "Pixel Fire" /\ PageKey(FireColor) = 0
  <2> DEFINE head == [effect |-> "Pixel Fire", playback |-> Continue, packet_type |-> Color,
                      max_brightness |-> 500, min_brightness |-> 180]
             s == head ++ Warm
  <2>1. DOMAIN head = {"effect", "playback", "packet_type", "max_brightness", "min_brightness"}
    OBVIOUS
  <2>13. head["effect"] = "Pixel Fire" /\ head["packet_type"] = Color
    OBVIOUS
  <2>14. /\ head["playback"] = 3 /\ head["packet_type"] = 1
         /\ head["max_brightness"] = 500 /\ head["min_brightness"] = 180
    BY DEF Continue, Color
  <2>2. FireColor = s
    BY DEF FireColor
  <2> HIDE DEF head
  <2>3. FireColorFields = {<<"playback", 62, 2>>, <<"packet_type", 60, 2>>,
                           <<"min_brightness", 40, 10>>, <<"max_brightness", 50, 10>>}
    BY DEF FireColorFields, Shared
  <2>4. Fits(head, FireColorFields)
    <3>1. Small(head, FireColorFields)
      BY <2>14, <2>3 DEF Small, Pow
    <3> QED  BY <3>1, SmallFits
  <2>12. DOMAIN head = {f[1] : f \in FireColorFields} \cup {"effect"}
    BY <2>1, <2>3
  <2>5. IsHead(head, "Pixel Fire", Color, FireColorFields)
    BY <2>1, <2>4, <2>12, <2>13 DEF IsHead
  <2>6. PixelLayout("Pixel Fire", Color, 0) = FireColorFields \cup HueFields(0, 38)
    BY ColorLayouts
  <2>7. IsLook(Warm, 0, 38)
    BY Looks
  <2>8. IsPage(s) /\ \A n \in DOMAIN head : n \in DOMAIN s /\ s[n] = head[n]
    <3> DEFINE e == "Pixel Fire"
               mode == 0
               at == 38
               look == Warm
    <3>1. Kind(e, Color, mode) /\ e # "Rainbow" /\ Color # Control
      BY <1>0, <1>3
    <3>2. PixelLayout(e, Color, mode) = FireColorFields \cup HueFields(mode, at)
      BY <2>6
    <3>3. IsHead(head, e, Color, FireColorFields) /\ IsLook(look, mode, at)
      BY <2>5, <2>7
    <3>5. s = head ++ look
      OBVIOUS
    <3> HIDE DEF e, mode, at, look, s
    <3>4. /\ IsPage(head ++ look)
          /\ \A n \in DOMAIN head : n \in DOMAIN (head ++ look) /\ (head ++ look)[n] = head[n]
      BY <3>1, <3>2, <3>3, ColorPage
    <3> QED  BY <3>4, <3>5
  <2>9. "serial" \notin DOMAIN s
    BY <2>1 DEF ++, Warm
  <2> HIDE DEF s
  <2>10. s.effect = "Pixel Fire" /\ s.packet_type = Color
    BY <2>1, <2>8, <2>13
  <2>11. PageKey(s) = 0
    BY <1>3, <2>9, <2>10 DEF PageKey, Given
  <2> QED  BY <2>2, <2>8, <2>10, <2>11
<1>2. IsPage(FireBase) /\ FireBase.effect = "Pixel Fire" /\ PageKey(FireBase) = 16
  <2> DEFINE head == [effect |-> "Pixel Fire", playback |-> Continue, packet_type |-> Base,
                      brightness |-> 180]
             s == head ++ Hue(360)
  <2>1. DOMAIN head = {"effect", "playback", "packet_type", "brightness"}
    OBVIOUS
  <2>13. head["effect"] = "Pixel Fire" /\ head["packet_type"] = Base
    OBVIOUS
  <2>14. head["playback"] = 3 /\ head["packet_type"] = 2 /\ head["brightness"] = 180
    BY DEF Continue, Base
  <2>2. FireBase = s
    BY DEF FireBase
  <2> HIDE DEF head
  <2>3. BaseFields = {<<"playback", 62, 2>>, <<"packet_type", 60, 2>>, <<"brightness", 50, 10>>}
    BY DEF BaseFields, Shared
  <2>4. Fits(head, BaseFields)
    <3>1. Small(head, BaseFields)
      BY <2>14, <2>3 DEF Small, Pow
    <3> QED  BY <3>1, SmallFits
  <2>12. DOMAIN head = {f[1] : f \in BaseFields} \cup {"effect"}
    BY <2>1, <2>3
  <2>5. IsHead(head, "Pixel Fire", Base, BaseFields)
    BY <2>1, <2>4, <2>12, <2>13 DEF IsHead
  <2>6. PixelLayout("Pixel Fire", Base, 1) = BaseFields \cup HueFields(1, 48)
    BY ColorLayouts
  <2>7. IsLook(Hue(360), 1, 48)
    BY Looks
  <2>8. IsPage(s) /\ \A n \in DOMAIN head : n \in DOMAIN s /\ s[n] = head[n]
    <3> DEFINE e == "Pixel Fire"
               mode == 1
               at == 48
               look == Hue(360)
    <3>1. Kind(e, Base, mode) /\ e # "Rainbow" /\ Base # Control
      BY <1>0, <1>3
    <3>2. PixelLayout(e, Base, mode) = BaseFields \cup HueFields(mode, at)
      BY <2>6
    <3>3. IsHead(head, e, Base, BaseFields) /\ IsLook(look, mode, at)
      BY <2>5, <2>7
    <3>5. s = head ++ look
      OBVIOUS
    <3> HIDE DEF e, mode, at, look, s
    <3>4. /\ IsPage(head ++ look)
          /\ \A n \in DOMAIN head : n \in DOMAIN (head ++ look) /\ (head ++ look)[n] = head[n]
      BY <3>1, <3>2, <3>3, ColorPage
    <3> QED  BY <3>4, <3>5
  <2> HIDE DEF s
  <2>10. s.effect = "Pixel Fire" /\ s.packet_type = Base
    BY <2>1, <2>8, <2>13
  <2>11. PageKey(s) = 16
    BY <1>3, <2>10 DEF PageKey
  <2> QED  BY <2>2, <2>8, <2>10, <2>11
<1> QED  BY <1>1, <1>2

LEMMA RainbowDefault ==
  IsPage(RainbowPage) /\ RainbowPage.effect = "Rainbow" /\ PageKey(RainbowPage) = 17
<1> DEFINE s == RainbowPage
<1>1. /\ DOMAIN s = {"effect", "playback", "brightness", "direction", "speed"}
      /\ s["effect"] = "Rainbow" /\ s["playback"] = 2 /\ s["brightness"] = 180
      /\ s["direction"] = 0 /\ s["speed"] = 100
  BY DEF RainbowPage, Running
<1> HIDE DEF s
<1>2. LayoutOf(s) = RainbowFields
  BY <1>1, RainbowLayout DEF LayoutOf
<1>3. Small(s, RainbowFields)
  BY <1>1 DEF Small, RainbowFields, Pow
<1>4. DOMAIN s = {f[1] : f \in RainbowFields} \cup {"effect"}
  BY <1>1 DEF RainbowFields
<1>5. Kind(s.effect, TypeOf(s), ModeOf(s))
  BY <1>1 DEF Kind, Paged, Pixels
<1>6. IsPage(s)
  BY <1>1, <1>2, <1>3, <1>4, <1>5, SmallFits DEF IsPage, Fits
<1>7. PageKey(s) = 17
  BY <1>1 DEF PageKey
<1> QED  BY <1>1, <1>6, <1>7 DEF s

(* All pages that the control page calls for are among the keys.           *)
Carries(keys, n, control) ==
  \A j \in DOMAIN PixelKeys(control) : PixelKeys(control)[j] \in {keys[i] : i \in 1..n}

LEMMA Four ==
  ASSUME NEW e, NEW a, NEW b, NEW c, NEW d,
         IsPage(a), IsPage(b), IsPage(c), IsPage(d),
         a.effect = e, b.effect = e, c.effect = e, d.effect = e,
         PageKey(a) = 0, PageKey(b) = 1, PageKey(c) = 2, PageKey(d) = 17
  PROVE  Whole(<<a, b, c, d>>, e, <<0, 1, 2, 17>>, 4)
<1>1. KeyList(<<0, 1, 2, 17>>, 4)
  BY DEF KeyList
<1>2. \A i \in 1..4 : i = 1 \/ i = 2 \/ i = 3 \/ i = 4
  OBVIOUS
<1> QED  BY <1>1, <1>2 DEF Whole

LEMMA Five ==
  ASSUME NEW e, NEW a, NEW b, NEW c, NEW d, NEW f,
         IsPage(a), IsPage(b), IsPage(c), IsPage(d), IsPage(f),
         a.effect = e, b.effect = e, c.effect = e, d.effect = e, f.effect = e,
         PageKey(a) = 0, PageKey(b) = 1, PageKey(c) = 2, PageKey(d) = 3, PageKey(f) = 17
  PROVE  Whole(<<a, b, c, d, f>>, e, <<0, 1, 2, 3, 17>>, 5)
<1>1. KeyList(<<0, 1, 2, 3, 17>>, 5)
  BY DEF KeyList
<1>2. \A i \in 1..5 : i = 1 \/ i = 2 \/ i = 3 \/ i = 4 \/ i = 5
  OBVIOUS
<1> QED  BY <1>1, <1>2 DEF Whole

(* The pages a control page of the defaults calls for.                     *)
LEMMA DefaultKeys ==
  ASSUME NEW s
  PROVE  /\ s.effect \in {"Color Fade", "Color Cycle"} /\ s.color_count = 2 =>
              Carries(<<0, 1, 17>>, 3, s)
         /\ s.effect = "One Pixel Chase" /\ s.group = 0 => Carries(<<0, 1, 17>>, 3, s)
         /\ s.effect = "Two Pixel Chase" /\ s.group = 0 => Carries(<<0, 1, 2, 17>>, 4, s)
         /\ s.effect = "Three Pixel Chase" /\ s.group = 0 => Carries(<<0, 1, 2, 3, 17>>, 5, s)
         /\ s.effect = "Pixel Fire" => Carries(<<0, 16, 17>>, 3, s)
         /\ s.effect = "Rainbow" => Carries(<<17>>, 1, s)
<1> DEFINE keys(colors) == [i \in 1..(colors + 1) |-> IF i <= colors THEN i - 1 ELSE 17]
<1>1. /\ \A i \in 1..3 : keys(2)[i] \in {<<0, 1, 17>>[j] : j \in 1..3}
      /\ DOMAIN keys(2) = 1..3
  <2>1. {<<0, 1, 17>>[j] : j \in 1..3} = {0, 1, 17}
    OBVIOUS
  <2> QED  BY <2>1
<1>2. /\ \A i \in 1..4 : keys(3)[i] \in {<<0, 1, 2, 17>>[j] : j \in 1..4}
      /\ DOMAIN keys(3) = 1..4
  <2>1. {<<0, 1, 2, 17>>[j] : j \in 1..4} = {0, 1, 2, 17}
    OBVIOUS
  <2> QED  BY <2>1
<1>3. /\ \A i \in 1..5 : keys(4)[i] \in {<<0, 1, 2, 3, 17>>[j] : j \in 1..5}
      /\ DOMAIN keys(4) = 1..5
  <2>1. {<<0, 1, 2, 3, 17>>[j] : j \in 1..5} = {0, 1, 2, 3, 17}
    OBVIOUS
  <2> QED  BY <2>1
<1>4. ASSUME s.effect \in {"Color Fade", "Color Cycle"}, s.color_count = 2
      PROVE  PixelKeys(s) = keys(2)
  BY <1>4 DEF PixelKeys, Chases
<1>5. ASSUME s.effect = "One Pixel Chase", s.group = 0 PROVE PixelKeys(s) = keys(2)
  BY <1>5 DEF PixelKeys, Chases
<1>6. ASSUME s.effect = "Two Pixel Chase", s.group = 0 PROVE PixelKeys(s) = keys(3)
  BY <1>6 DEF PixelKeys, Chases
<1>7. ASSUME s.effect = "Three Pixel Chase", s.group = 0 PROVE PixelKeys(s) = keys(4)
  BY <1>7 DEF PixelKeys, Chases
<1>8. ASSUME s.effect = "Pixel Fire" PROVE Carries(<<0, 16, 17>>, 3, s)
  <2>1. PixelKeys(s) = <<0, 16, 17>>
    BY <1>8 DEF PixelKeys
  <2> QED  BY <2>1 DEF Carries
<1>9. ASSUME s.effect = "Rainbow" PROVE Carries(<<17>>, 1, s)
  <2>1. PixelKeys(s) = <<17>>
    BY <1>9 DEF PixelKeys
  <2> QED  BY <2>1 DEF Carries
<1> HIDE DEF keys
<1>10. ASSUME s.effect \in {"Color Fade", "Color Cycle"}, s.color_count = 2
       PROVE  Carries(<<0, 1, 17>>, 3, s)
  BY <1>1, <1>4, <1>10 DEF Carries
<1>11. ASSUME s.effect = "One Pixel Chase", s.group = 0 PROVE Carries(<<0, 1, 17>>, 3, s)
  BY <1>1, <1>5, <1>11 DEF Carries
<1>12. ASSUME s.effect = "Two Pixel Chase", s.group = 0 PROVE Carries(<<0, 1, 2, 17>>, 4, s)
  BY <1>2, <1>6, <1>12 DEF Carries
<1>13. ASSUME s.effect = "Three Pixel Chase", s.group = 0 PROVE Carries(<<0, 1, 2, 3, 17>>, 5, s)
  BY <1>3, <1>7, <1>13 DEF Carries
<1> QED  BY <1>8, <1>9, <1>10, <1>11, <1>12, <1>13

(* The app's defaults are a whole program.                                 *)
LEMMA DefaultProgram ==
  ASSUME NEW e \in Pixels
  PROVE  \E keys, n : /\ Whole(PixelDefaults(e, TRUE), e, keys, n)
                      /\ Carries(keys, n, PixelDefaults(e, TRUE)[n])
<1> DEFINE pages == PixelDefaults(e, TRUE)
           Goal == \E keys, n : Whole(pages, e, keys, n) /\ Carries(keys, n, pages[n])
<1> SUFFICES Goal
  OBVIOUS
<1> HIDE DEF pages, Goal
<1>0. 0 \in 0..3 /\ 1 \in 0..3 /\ 2 \in 0..3 /\ 3 \in 0..3
  OBVIOUS
<1>1. CASE e = "Color Fade"
  <2> DEFINE a == Slot(e, 0, White)
             b == Slot(e, 1, Hue(120))
             c == End(e, [color_count |-> 2, direction |-> 1, speed |-> 100])
  <2>1. pages = <<a, b, c>>
    BY <1>1 DEF pages, PixelDefaults, Slot, End, White, Hue
  <2>2. e \in Common
    BY <1>1 DEF Common
  <2>3. IsPage(a) /\ a.effect = e /\ PageKey(a) = 0
    BY <1>0, <2>2, SlotPage
  <2>4. IsPage(b) /\ b.effect = e /\ PageKey(b) = 1
    BY <1>0, <2>2, SlotPage
  <2>5. IsPage(c) /\ c.effect = e /\ PageKey(c) = 17 /\ c.color_count = 2
    BY <1>1, ControlPages
  <2> HIDE DEF a, b, c
  <2>6. Whole(pages, e, <<0, 1, 17>>, 3)
    BY <2>1, <2>3, <2>4, <2>5, Three
  <2>7. Carries(<<0, 1, 17>>, 3, pages[3])
    <3>1. Carries(<<0, 1, 17>>, 3, c)
      BY <1>1, <2>5, DefaultKeys, Zenon
    <3>2. pages[3] = c
      BY <2>1
    <3> QED  BY <3>1, <3>2, Zenon
  <2> QED  BY <2>6, <2>7, Zenon DEF Goal
<1>2. CASE e = "Color Cycle"
  <2> DEFINE a == Slot(e, 0, White)
             b == Slot(e, 1, Hue(120))
             c == End(e, [color_count |-> 2, direction |-> 1, speed |-> 20, change_way |-> 0])
  <2>1. pages = <<a, b, c>>
    BY <1>2 DEF pages, PixelDefaults, Slot, End, White, Hue
  <2>2. e \in Common
    BY <1>2 DEF Common
  <2>3. IsPage(a) /\ a.effect = e /\ PageKey(a) = 0
    BY <1>0, <2>2, SlotPage
  <2>4. IsPage(b) /\ b.effect = e /\ PageKey(b) = 1
    BY <1>0, <2>2, SlotPage
  <2>5. IsPage(c) /\ c.effect = e /\ PageKey(c) = 17 /\ c.color_count = 2
    BY <1>2, ControlPages
  <2> HIDE DEF a, b, c
  <2>6. Whole(pages, e, <<0, 1, 17>>, 3)
    BY <2>1, <2>3, <2>4, <2>5, Three
  <2>7. Carries(<<0, 1, 17>>, 3, pages[3])
    <3>1. Carries(<<0, 1, 17>>, 3, c)
      BY <1>2, <2>5, DefaultKeys, Zenon
    <3>2. pages[3] = c
      BY <2>1
    <3> QED  BY <3>1, <3>2, Zenon
  <2> QED  BY <2>6, <2>7, Zenon DEF Goal
<1> DEFINE run == End(e, [direction |-> 1, speed |-> 100, group |-> 0, pixel_length |-> 1])
<1>3. CASE e = "One Pixel Chase"
  <2> DEFINE a == Slot(e, 0, Hue(120))
             b == Slot(e, 1, White)
  <2>1. pages = <<a, b, run>>
    BY <1>3 DEF pages, PixelDefaults, Slot, End, White, Hue
  <2>2. e \in Common /\ e \in Chases
    BY <1>3 DEF Common, Chases
  <2>3. IsPage(a) /\ a.effect = e /\ PageKey(a) = 0
    BY <1>0, <2>2, SlotPage
  <2>4. IsPage(b) /\ b.effect = e /\ PageKey(b) = 1
    BY <1>0, <2>2, SlotPage
  <2>5. IsPage(run) /\ run.effect = e /\ PageKey(run) = 17 /\ run.group = 0
    BY <2>2, ControlPages
  <2> HIDE DEF a, b, run
  <2>6. Whole(pages, e, <<0, 1, 17>>, 3)
    BY <2>1, <2>3, <2>4, <2>5, Three
  <2>7. Carries(<<0, 1, 17>>, 3, pages[3])
    <3>1. Carries(<<0, 1, 17>>, 3, run)
      BY <1>3, <2>5, DefaultKeys, Zenon
    <3>2. pages[3] = run
      BY <2>1
    <3> QED  BY <3>1, <3>2, Zenon
  <2> QED  BY <2>6, <2>7, Zenon DEF Goal
<1>4. CASE e = "Two Pixel Chase"
  <2> DEFINE a == Slot(e, 0, Black)
             b == Slot(e, 1, Hue(120))
             c == Slot(e, 2, Hue(240))
  <2>1. pages = <<a, b, c, run>>
    BY <1>4, ZenonT(40) DEF pages, PixelDefaults, Slot, End, Black, Hue
  <2>2. e \in Common /\ e \in Chases
    BY <1>4 DEF Common, Chases
  <2>3. IsPage(a) /\ a.effect = e /\ PageKey(a) = 0
    BY <1>0, <2>2, SlotPage
  <2>4. IsPage(b) /\ b.effect = e /\ PageKey(b) = 1
    BY <1>0, <2>2, SlotPage
  <2>8. IsPage(c) /\ c.effect = e /\ PageKey(c) = 2
    BY <1>0, <2>2, SlotPage
  <2>5. IsPage(run) /\ run.effect = e /\ PageKey(run) = 17 /\ run.group = 0
    BY <2>2, ControlPages
  <2> HIDE DEF a, b, c, run
  <2>6. Whole(pages, e, <<0, 1, 2, 17>>, 4)
    BY <2>1, <2>3, <2>4, <2>5, <2>8, Four
  <2>7. Carries(<<0, 1, 2, 17>>, 4, pages[4])
    <3>1. Carries(<<0, 1, 2, 17>>, 4, run)
      BY <1>4, <2>5, DefaultKeys, Zenon
    <3>2. pages[4] = run
      BY <2>1
    <3> QED  BY <3>1, <3>2, Zenon
  <2> QED  BY <2>6, <2>7, Zenon DEF Goal
<1>5. CASE e = "Three Pixel Chase"
  <2> DEFINE a == Slot(e, 0, Black)
             b == Slot(e, 1, Hue(120))
             c == Slot(e, 2, Hue(240))
             d == Slot(e, 3, Hue(360))
  <2>1. pages = <<a, b, c, d, run>>
    BY <1>5, ZenonT(40) DEF pages, PixelDefaults, Slot, End, Black, Hue
  <2>2. e \in Common /\ e \in Chases
    BY <1>5 DEF Common, Chases
  <2>3. IsPage(a) /\ a.effect = e /\ PageKey(a) = 0
    BY <1>0, <2>2, SlotPage
  <2>4. IsPage(b) /\ b.effect = e /\ PageKey(b) = 1
    BY <1>0, <2>2, SlotPage
  <2>8. IsPage(c) /\ c.effect = e /\ PageKey(c) = 2
    BY <1>0, <2>2, SlotPage
  <2>9. IsPage(d) /\ d.effect = e /\ PageKey(d) = 3
    BY <1>0, <2>2, SlotPage
  <2>5. IsPage(run) /\ run.effect = e /\ PageKey(run) = 17 /\ run.group = 0
    BY <2>2, ControlPages
  <2> HIDE DEF a, b, c, d, run
  <2>6. Whole(pages, e, <<0, 1, 2, 3, 17>>, 5)
    BY <2>1, <2>3, <2>4, <2>5, <2>8, <2>9, Five
  <2>7. Carries(<<0, 1, 2, 3, 17>>, 5, pages[5])
    <3>1. Carries(<<0, 1, 2, 3, 17>>, 5, run)
      BY <1>5, <2>5, DefaultKeys, Zenon
    <3>2. pages[5] = run
      BY <2>1
    <3> QED  BY <3>1, <3>2, Zenon
  <2> QED  BY <2>6, <2>7, Zenon DEF Goal
<1>6. CASE e = "Pixel Fire"
  <2> DEFINE c == End(e, [frequency |-> 20, direction |-> 0])
  <2>1. pages = <<FireColor, FireBase, c>>
    BY <1>6, ZenonT(40) DEF pages, PixelDefaults, FireColor, FireBase, End, Warm, Hue
  <2>5. IsPage(c) /\ c.effect = e /\ PageKey(c) = 17
    BY <1>6, ControlPages
  <2> HIDE DEF c
  <2>6. Whole(pages, e, <<0, 16, 17>>, 3)
    BY <1>6, <2>1, <2>5, FirePages, Three
  <2>7. Carries(<<0, 16, 17>>, 3, pages[3])
    <3>1. Carries(<<0, 16, 17>>, 3, c)
      BY <1>6, <2>5, DefaultKeys, Zenon
    <3>2. pages[3] = c
      BY <2>1
    <3> QED  BY <3>1, <3>2, Zenon
  <2> QED  BY <2>6, <2>7, Zenon DEF Goal
<1>7. CASE e = "Rainbow"
  <2>1. pages = <<RainbowPage>>
    BY <1>7 DEF pages, PixelDefaults, RainbowPage
  <2>2. KeyList(<<17>>, 1)
    BY DEF KeyList
  <2>6. Whole(pages, e, <<17>>, 1)
    <3>1. \A i \in 1..1 : i = 1
      OBVIOUS
    <3>2. pages[1] = RainbowPage /\ DOMAIN pages = 1..1 /\ <<17>>[1] = 17
      BY <2>1
    <3> QED  BY <1>7, <2>2, <3>1, <3>2, RainbowDefault DEF Whole
  <2>7. Carries(<<17>>, 1, pages[1])
    <3>1. Carries(<<17>>, 1, RainbowPage)
      BY <1>7, RainbowDefault, DefaultKeys, Zenon
    <3>2. pages[1] = RainbowPage
      BY <2>1
    <3> QED  BY <3>1, <3>2, Zenon
  <2> QED  BY <2>6, <2>7, Zenon DEF Goal
<1> QED  BY <1>1, <1>2, <1>3, <1>4, <1>5, <1>6, <1>7 DEF Pixels, Chases

-------------------------------------------------------------------------------
(* Programs sent.                                                          *)

(* Pages of one effect, each under its own key.                            *)
Good(e, pages) ==
  \A k \in DOMAIN pages : IsPage(pages[k]) /\ PageKey(pages[k]) = k /\ pages[k].effect = e

(* The program that _pixel_payloads sends.                                 *)
DefaultPages(e) == PixelProgram(PixelDefaults(e, TRUE)).pages
SourceOf(current) ==
  IF PixelComplete(current.pages) THEN current.pages ELSE DefaultPages(current.effect)
(* A program that has all the pages it calls for.                          *)
Closed(e, source) ==
  /\ Good(e, source) /\ 17 \in DOMAIN source
  /\ \A j \in DOMAIN PixelKeys(source[17]) : PixelKeys(source[17])[j] \in DOMAIN source

LEMMA WholeClosed ==
  ASSUME NEW e, NEW sent, NEW keys, NEW n, Whole(sent, e, keys, n), Carries(keys, n, sent[n]),
         NEW program, program = PixelProgram(sent)
  PROVE  Closed(e, program.pages) /\ program.family = "pixel" /\ program.effect = e
<1>1. KeyList(keys, n) /\ DOMAIN sent = 1..n /\ n \in Nat \ {0} /\ keys[n] = 17
  BY DEF Whole, KeyList
<1>2. \A i \in 1..n : IsPage(sent[i]) /\ PageKey(sent[i]) = keys[i] /\ sent[i].effect = e
  BY DEF Whole
<1>3. /\ program.family = "pixel" /\ program.effect = sent[1].effect
      /\ DOMAIN program.pages = {keys[i] : i \in 1..n}
      /\ \A i \in 1..n : program.pages[keys[i]] = sent[i]
  BY <1>1, <1>2, ProgramOf
<1>4. 1 \in 1..n /\ n \in 1..n
  BY <1>1
<1>5. program.effect = e
  BY <1>2, <1>3, <1>4
<1>6. Good(e, program.pages)
  BY <1>2, <1>3 DEF Good
<1>7. program.pages[17] = sent[n] /\ 17 \in DOMAIN program.pages
  BY <1>1, <1>3, <1>4
<1>8. \A j \in DOMAIN PixelKeys(program.pages[17]) : PixelKeys(program.pages[17])[j] \in DOMAIN program.pages
  BY <1>3, <1>7 DEF Carries
<1> QED  BY <1>3, <1>5, <1>6, <1>7, <1>8 DEF Closed

LEMMA DefaultClosed ==
  ASSUME NEW e \in Pixels
  PROVE  /\ Closed(e, DefaultPages(e)) /\ PixelProgram(PixelDefaults(e, TRUE)).family = "pixel"
         /\ PixelProgram(PixelDefaults(e, TRUE)).effect = e
<1> DEFINE sent == PixelDefaults(e, TRUE)
           program == PixelProgram(sent)
<1>1. \E keys, n : Whole(sent, e, keys, n) /\ Carries(keys, n, sent[n])
  BY DefaultProgram, Zenon
<1>2. DefaultPages(e) = program.pages
  BY Zenon DEF DefaultPages
<1> HIDE DEF sent
<1>3. Closed(e, program.pages) /\ program.family = "pixel" /\ program.effect = e
  BY <1>1, WholeClosed
<1> QED  BY <1>2, <1>3, Zenon DEF sent

LEMMA SourceClosed ==
  ASSUME NEW current, current.effect \in Pixels, Good(current.effect, current.pages)
  PROVE  Closed(current.effect, SourceOf(current))
<1>1. CASE PixelComplete(current.pages)
  <2>1. SourceOf(current) = current.pages
    BY <1>1 DEF SourceOf
  <2>2. 17 \in DOMAIN current.pages /\ PixelPages(current.pages[17]) \subseteq DOMAIN current.pages
    BY <1>1 DEF PixelComplete
  <2>3. \A j \in DOMAIN PixelKeys(current.pages[17]) :
          PixelKeys(current.pages[17])[j] \in DOMAIN current.pages
    BY <2>2 DEF PixelPages, Range
  <2> QED  BY <2>1, <2>2, <2>3 DEF Closed
<1>2. CASE ~PixelComplete(current.pages)
  BY <1>2, DefaultClosed DEF SourceOf
<1> QED  BY <1>1, <1>2

(* The packets of a program.                                               *)
Sends(packets, source, keys, n) ==
  /\ KeyList(keys, n) /\ keys = PixelKeys(source[17]) /\ DOMAIN packets = 1..n
  /\ \A i \in 1..n :
       /\ keys[i] \in DOMAIN source
       /\ packets[i].command = 33 /\ PixelReadable(packets[i])
       /\ IsPage(DecodePixel(packets[i]))
       /\ Changed(source[keys[i]], DecodePixel(packets[i]))
       /\ DecodePixel(packets[i]).playback = IF i = n THEN Running ELSE Continue

(* Packets of one effect, at one brightness.                               *)
Marked(packets, e, intensity) ==
  \A i \in DOMAIN packets :
    LET d == DecodePixel(packets[i])
    IN /\ Value(packets[i], 64, 8) = PixelId(e)
       /\ "brightness" \in DOMAIN d /\ intensity \in 0..1023 => d["brightness"] = intensity

LEMMA Payloads ==
  ASSUME NEW current, current.effect \in Pixels, Good(current.effect, current.pages),
         NEW intensity, NEW packets, packets = PixelPayloads(current, intensity),
         NEW source, source = SourceOf(current)
  PROVE  /\ \E keys, n : Sends(packets, source, keys, n)
         /\ Marked(packets, current.effect, intensity)
<1> DEFINE keys == PixelKeys(source[17])
           Set(k, page) == [n \in DOMAIN page |->
             CASE n = "playback" -> IF k = 17 THEN Running ELSE Continue
               [] n = "brightness" -> intensity
               [] OTHER -> page[n]]
<1>1. /\ Good(current.effect, source) /\ 17 \in DOMAIN source
      /\ \A j \in DOMAIN keys : keys[j] \in DOMAIN source
  BY SourceClosed DEF Closed
<1>2. packets = [i \in DOMAIN keys |-> EncodePixel(Set(keys[i], source[keys[i]]))]
  BY DEF PixelPayloads, SourceOf, DefaultPages
<1>3. PICK n : KeyList(keys, n)
  <2>1. IsPage(source[17]) /\ PageKey(source[17]) = 17
    BY <1>1 DEF Good
  <2> QED  BY <2>1, KeysOf
<1> HIDE DEF keys
<1>4. DOMAIN keys = 1..n /\ n \in Nat \ {0} /\ \A i \in 1..n : keys[i] = 17 <=> i = n
  BY <1>3 DEF KeyList
<1>5. ASSUME NEW i \in 1..n
      PROVE  /\ keys[i] \in DOMAIN source
             /\ packets[i].command = 33 /\ PixelReadable(packets[i])
             /\ IsPage(DecodePixel(packets[i]))
             /\ Changed(source[keys[i]], DecodePixel(packets[i]))
             /\ DecodePixel(packets[i]).playback = IF i = n THEN Running ELSE Continue
             /\ Value(packets[i], 64, 8) = PixelId(current.effect)
             /\ "brightness" \in DOMAIN DecodePixel(packets[i]) /\ intensity \in 0..1023 =>
                  DecodePixel(packets[i])["brightness"] = intensity
  <2> DEFINE s == source[keys[i]]
             t == Set(keys[i], s)
             p == packets[i]
  <2>1. keys[i] \in DOMAIN source /\ IsPage(s) /\ s.effect = current.effect
    BY <1>1, <1>4 DEF Good
  <2>2. p = EncodePixel(t)
    BY <1>2, <1>4
  <2>3. Changed(s, t)
    BY DEF Changed
  <2>4. "playback" \in DOMAIN s
    <3>1. <<"playback", 62, 2>> \in LayoutOf(s)
      BY <2>1, KindFacts DEF IsPage, LayoutOf
    <3> QED  BY <2>1, <3>1 DEF IsPage
  <2>5. t.playback = IF i = n THEN Running ELSE Continue
    BY <1>4, <2>4
  <2>6. t.playback \in 0..3
    BY <2>5 DEF Running, Continue
  <2>8. "brightness" \in DOMAIN s => t["brightness"] = intensity
    OBVIOUS
  <2> HIDE DEF s, t, p
  <2>7. /\ PixelReadable(p) /\ p.command = 33 /\ IsPage(DecodePixel(p))
        /\ Changed(s, DecodePixel(p)) /\ DecodePixel(p).playback = t.playback
        /\ Value(p, 64, 8) = PixelId(s.effect)
        /\ "brightness" \in DOMAIN s /\ t["brightness"] \in 0..1023 =>
             DecodePixel(p)["brightness"] = t["brightness"]
    BY <2>1, <2>2, <2>3, <2>6, RoundTrip
  <2>9. "brightness" \in DOMAIN DecodePixel(p) /\ intensity \in 0..1023 =>
          DecodePixel(p)["brightness"] = intensity
    BY <2>7, <2>8 DEF Changed
  <2> QED  BY <2>1, <2>5, <2>7, <2>9 DEF s, p
<1>6. DOMAIN packets = 1..n
  BY <1>2, <1>4
<1> HIDE DEF Set
<1>7. Sends(packets, source, keys, n)
  BY <1>3, <1>5, <1>6 DEF Sends, keys
<1>8. Marked(packets, current.effect, intensity)
  BY <1>5, <1>6 DEF Marked
<1> QED  BY <1>7, <1>8

(* A page but for its playback and brightness, and pages taken from others. *)
Unpainted(page) == Restrict(page, DOMAIN page \ {"playback", "brightness"})
Taken(pages, source) ==
  \A k \in DOMAIN pages : k \in DOMAIN source /\ Unpainted(pages[k]) = Unpainted(source[k])
Pages(packets) == [i \in DOMAIN packets |-> DecodePixel(packets[i])]
(* What PixelProgramWhole says of the packets of a call.                   *)
Complete(sent, pages) ==
  /\ PageKey(sent[Len(sent)]) = 17
  /\ DOMAIN pages = PixelPages(pages[17])
  /\ \A i \in DOMAIN sent : sent[i].playback = IF i = Len(sent) THEN Running ELSE Continue

LEMMA SentComplete ==
  ASSUME NEW e, NEW source, Good(e, source), NEW packets, NEW keys, NEW n,
         Sends(packets, source, keys, n), NEW pages, pages = PixelProgram(Pages(packets)).pages
  PROVE  Complete(Pages(packets), pages) /\ Taken(pages, source) /\ Good(e, pages)
<1> DEFINE sent == Pages(packets)
           program == PixelProgram(sent)
<1>1. /\ KeyList(keys, n) /\ keys = PixelKeys(source[17]) /\ DOMAIN sent = 1..n
      /\ n \in Nat \ {0} /\ keys[n] = 17 /\ DOMAIN keys = 1..n
  BY DEF Sends, KeyList, Pages
<1>2. ASSUME NEW i \in 1..n
      PROVE  /\ keys[i] \in DOMAIN source /\ IsPage(sent[i]) /\ sent[i].effect = e
             /\ PageKey(sent[i]) = keys[i] /\ Unpainted(sent[i]) = Unpainted(source[keys[i]])
             /\ keys[i] = 17 => PixelKeys(sent[i]) = PixelKeys(source[17])
             /\ sent[i].playback = IF i = n THEN Running ELSE Continue
  <2>1. sent[i] = DecodePixel(packets[i])
    BY DEF Sends, Pages
  <2> HIDE DEF sent
  <2>2. /\ keys[i] \in DOMAIN source /\ IsPage(sent[i]) /\ Changed(source[keys[i]], sent[i])
        /\ sent[i].playback = IF i = n THEN Running ELSE Continue
    BY <2>1 DEF Sends
  <2> DEFINE s == source[keys[i]]
             t == sent[i]
  <2>3. IsPage(s) /\ PageKey(s) = keys[i] /\ s.effect = e
    BY <2>2 DEF Good
  <2>4. Changed(s, t)
    BY <2>2
  <2> HIDE DEF s, t
  <2>5. /\ t.effect = s.effect /\ PageKey(t) = PageKey(s)
        /\ PageKey(s) = 17 => PixelKeys(t) = PixelKeys(s)
        /\ Unpainted(t) = Unpainted(s)
    BY <2>3, <2>4, ChangedSame DEF Unpainted
  <2> QED  BY <2>2, <2>3, <2>5 DEF s, t
<1> HIDE DEF sent
<1>3. /\ DOMAIN program.pages = {keys[i] : i \in 1..n}
      /\ \A i \in 1..n : program.pages[keys[i]] = sent[i]
  BY <1>1, <1>2, ProgramOf
<1>4. pages = program.pages
  BY DEF sent
<1> HIDE DEF program
<1>5. Len(sent) = n
  <2>1. sent = [i \in 1..n |-> DecodePixel(packets[i])]
    BY <1>1 DEF sent, Pages
  <2> QED  BY <1>1, <2>1
<1>6. n \in 1..n
  BY <1>1
<1>7. PageKey(sent[n]) = 17
  BY <1>1, <1>2, <1>6
<1>8. DOMAIN pages = PixelPages(pages[17])
  <2>1. PixelKeys(pages[17]) = keys
    BY <1>1, <1>2, <1>3, <1>4, <1>6
  <2>2. PixelPages(pages[17]) = {keys[i] : i \in 1..n}
    BY <1>1, <2>1 DEF PixelPages, Range
  <2> QED  BY <1>3, <1>4, <2>2
<1>9. Complete(sent, pages)
  BY <1>1, <1>2, <1>5, <1>7, <1>8 DEF Complete
<1>10. Taken(pages, source)
  BY <1>2, <1>3, <1>4 DEF Taken
<1>11. Good(e, pages)
  BY <1>2, <1>3, <1>4 DEF Good
<1> QED  BY <1>9, <1>10, <1>11 DEF sent

(* A call of a pixel effect.                                               *)
SentWhole(packets, e, exact, before) ==
  LET pages == PixelProgram(Pages(packets)).pages
  IN /\ Complete(Pages(packets), pages) /\ Good(e, pages)
     /\ \/ Taken(pages, DefaultPages(e))
        \/ exact /\ Taken(pages, before.pages)
     /\ \A i \in DOMAIN packets : packets[i].command = 33 /\ PixelReadable(packets[i])

LEMMA PixelSent ==
  ASSUME NEW e \in Pixels, NEW before, NEW exact \in BOOLEAN,
         exact => before.effect = e /\ Good(e, before.pages),
         NEW current,
         current = IF exact THEN before ELSE PixelProgram(PixelDefaults(e, TRUE)),
         NEW intensity, NEW packets, packets = PixelPayloads(current, intensity)
  PROVE  SentWhole(packets, e, exact, before)
<1> DEFINE source == SourceOf(current)
           pages == PixelProgram(Pages(packets)).pages
<1>1. current.effect = e /\ Good(e, current.pages)
  <2>1. CASE exact
    BY <2>1
  <2>2. CASE ~exact
    BY <2>2, DefaultClosed DEF Closed, DefaultPages
  <2> QED  BY <2>1, <2>2
<1>2. Good(e, source)
  BY <1>1, SourceClosed DEF Closed
<1>3. source = DefaultPages(e) \/ (exact /\ source = before.pages)
  <2>1. source = current.pages \/ source = DefaultPages(e)
    BY <1>1 DEF SourceOf
  <2>2. ~exact => current.pages = DefaultPages(e)
    BY DEF DefaultPages
  <2> QED  BY <2>1, <2>2
<1> HIDE DEF source
<1>4. PICK keys, n : Sends(packets, source, keys, n)
  BY <1>1, Payloads DEF source
<1>5. Complete(Pages(packets), pages) /\ Taken(pages, source) /\ Good(e, pages)
  BY <1>2, <1>4, SentComplete
<1>6. \A i \in DOMAIN packets : packets[i].command = 33 /\ PixelReadable(packets[i])
  BY <1>4 DEF Sends
<1> HIDE DEF pages
<1>7. Taken(pages, DefaultPages(e)) \/ (exact /\ Taken(pages, before.pages))
  BY <1>3, <1>5
<1> QED  BY <1>5, <1>6, <1>7 DEF SentWhole, pages

-------------------------------------------------------------------------------
(* The invariant.                                                          *)


Known(packet) ==
  /\ packet.command \in Commands /\ DOMAIN packet = {"command", "bits"}
  /\ packet.command = 33 => PixelReadable(packet)
CallKnown ==
  call.phase # "idle" =>
    /\ {"phase", "family", "effect", "packets", "sent", "want", "exact", "fresh", "news",
        "clean", "before"} \subseteq DOMAIN call
    /\ \A i \in DOMAIN call.packets : Known(call.packets[i])

(* What is shown of a pixel effect are pages of it; a call of one sends a  *)
(* whole program, and keeps in want the pages it sends.                    *)
ShownGood ==
  shown.family = "pixel" =>
    /\ "effect" \in DOMAIN shown /\ Good(shown.effect, shown.pages)
    /\ call.phase # "idle" => call.fresh \subseteq DOMAIN shown.pages
CallWhole ==
  call.phase # "idle" /\ call.family = "pixel" =>
    /\ SentWhole(call.packets, call.effect, call.exact, call.before)
    /\ call.want.pages = PixelProgram(Pages(call.packets)).pages

(* What is shown of a page that was reported, by family.                   *)
ShowsLook(s)    == shown = NoEffect /\ steady = s
ShowsEffect(s)  == shown = [family |-> "effect", state |-> s]
ShowsEffect2(k, s) ==
  /\ shown.family = "effect2"
  /\ \A n \in DOMAIN s \ {"package", "state", "on"} :
       n \in DOMAIN shown.state /\ shown.state[n] = s[n]
  /\ "package" \in DOMAIN shown.state => shown.state.package = k
ShowsPixel(k, s) ==
  /\ shown.family = "pixel" /\ "effect" \in DOMAIN shown /\ shown.effect = s.effect
  /\ k \in DOMAIN shown.pages /\ shown.pages[k] = s
  /\ k = 17 => shown.playback = s.playback
  /\ call.phase # "idle" => k \in call.fresh
Shows(k) ==
  LET s == Decoded(fixture[k])
      command == fixture[k].command
  IN /\ command \in {1, 2} => ShowsLook(s)
     /\ command = 7 => ShowsEffect(s)
     /\ command = 34 => ShowsEffect2(k, s)
     /\ command = 33 => ShowsPixel(k, s)

IInv == /\ WellFormed(fixture) /\ CallKnown /\ ShownGood /\ CallWhole
        /\ told \subseteq DOMAIN fixture /\ \A k \in told : Shows(k)

-------------------------------------------------------------------------------
(* Packets and pages.                                                      *)

(* Programs.                                                               *)

LEMMA Decoding ==
  ASSUME NEW p
  PROVE  /\ p.command = 34 => Decoded(p) = DecodeEffect2(p) /\ Page(p) = Given(Decoded(p), "package", 0)
         /\ p.command = 33 => Decoded(p) = DecodePixel(p) /\ Page(p) = PageKey(Decoded(p))
         /\ p.command \in {1, 2, 7} => Page(p) = 0
  BY DEF Decoded, Page

(* The pages of a program of command 34.                                   *)
LEMMA Effect2Pages ==
  ASSUME NEW program, WellFormed(program), NEW k \in DOMAIN program, program[k].command = 34,
         NEW s, s = Decoded(program[k])
  PROVE  /\ EveryPage \ {"package"} \subseteq DOMAIN s /\ s.effect = Effect2Of(program[k])
         /\ s.effect \in Dual => OfPage(s, k) /\ k \in {0, 1}
         /\ s.effect \notin Dual => "package" \notin DOMAIN s /\ k = 0
<1>1. s = DecodeEffect2(program[k]) /\ Given(s, "package", 0) = k
  BY Decoding DEF WellFormed
<1>2. /\ EveryPage \ {"package"} \subseteq DOMAIN s /\ s.effect = Effect2Of(program[k])
      /\ s.effect \notin Dual => "package" \notin DOMAIN s
      /\ s.effect \in Dual => OfPage(s, 0) \/ OfPage(s, 1)
  BY <1>1, Effect2Facts
<1> QED  BY <1>1, <1>2 DEF Given, OfPage

LEMMA Effect2Same ==
  ASSUME NEW p, NEW q, Value(p, 64, 8) = Value(q, 64, 8)
  PROVE  Effect2Of(p) = Effect2Of(q) /\ PixelOf(p) = PixelOf(q)
  BY DEF Effect2Of, PixelOf

LEMMA PixelPagesOf ==
  ASSUME NEW program, WellFormed(program), NEW k \in DOMAIN program, program[k].command = 33,
         NEW s, s = Decoded(program[k])
  PROVE  "effect" \in DOMAIN s /\ s.effect = PixelOf(program[k]) /\ PageKey(s) = k /\ IsPage(s)
<1>1. s = DecodePixel(program[k]) /\ PageKey(s) = k /\ PixelReadable(program[k])
  BY Decoding DEF WellFormed
<1> DEFINE p == program[k]
<1>2. s = DecodePixel(p) /\ PixelReadable(p)
  BY <1>1
<1> HIDE DEF p
<1>3. IsPage(s) /\ s.effect = PixelOf(p)
  BY <1>2, PageDecoded
<1> QED  BY <1>1, <1>3 DEF IsPage, p

-------------------------------------------------------------------------------
(* The merge of two pages (systemfx2.py:1125-1155).                        *)

Told == {"package", "state", "on"}

(* The page that was just reported is shown as it says.                    *)
LEMMA MergeShows ==
  ASSUME NEW before, NEW s, "effect" \in DOMAIN s, NEW m, m = MergeEffect2(before, s)
  PROVE  /\ \A n \in DOMAIN s \ Told : n \in DOMAIN m /\ m[n] = s[n]
         /\ "package" \in DOMAIN m => m = s
<1>1. CASE m = s
  BY <1>1
<1>2. CASE m # s
  <2> DEFINE power == IF s.package = 1 THEN s ELSE before
             named == (DOMAIN s \cup DOMAIN before) \ {"package"}
  <2>1. m = [n \in named |-> IF n \in {"state", "on"} THEN power[n]
                             ELSE Given(s, n, Given(before, n, 0))]
    BY <1>2 DEF MergeEffect2
  <2> HIDE DEF power
  <2> QED  BY <2>1 DEF Told, Given
<1> QED  BY <1>1, <1>2

(* What the other page said stays.                                         *)
LEMMA MergeKeeps ==
  ASSUME NEW before, NEW s, NEW j \in {0, 1}, OfPage(s, j), s.effect \in Dual, "effect" \in DOMAIN s,
         NEW other, NEW k \in {0, 1}, OfPage(other, k), k # j, other.effect = s.effect,
         "effect" \in DOMAIN other,
         \A n \in DOMAIN other \ Told : n \in DOMAIN before /\ before[n] = other[n],
         "package" \in DOMAIN before => before.package = k,
         NEW m, m = MergeEffect2(before, s)
  PROVE  /\ \A n \in DOMAIN other \ Told : n \in DOMAIN m /\ m[n] = other[n]
         /\ "package" \notin DOMAIN m
<1>1. "effect" \in DOMAIN before /\ before.effect = s.effect
  BY DEF Told
<1> DEFINE power == IF s.package = 1 THEN s ELSE before
           named == (DOMAIN s \cup DOMAIN before) \ {"package"}
<1>2. m = [n \in named |-> IF n \in {"state", "on"} THEN power[n]
                           ELSE Given(s, n, Given(before, n, 0))]
  <2>1. ~("package" \in DOMAIN before /\ before.package = s.package)
    BY DEF OfPage
  <2>2. Given(before, "effect", "none") = s.effect
    BY <1>1 DEF Given
  <2> QED  BY <2>1, <2>2 DEF MergeEffect2
<1>3. DOMAIN s \cap DOMAIN other \subseteq EveryPage
  BY DEF OfPage, EveryPage, Page0, Page1
<1> HIDE DEF power
<1>4. "package" \notin DOMAIN m
  BY <1>2
<1>5. ASSUME NEW n \in DOMAIN other \ Told PROVE n \in DOMAIN m /\ m[n] = other[n]
  <2>1. n \in named /\ n \notin {"state", "on"} /\ n \in DOMAIN before /\ before[n] = other[n]
    BY <1>5 DEF Told
  <2>2. m[n] = Given(s, n, Given(before, n, 0)) /\ n \in DOMAIN m
    BY <1>2, <2>1
  <2>3. CASE n \in DOMAIN s
    <3>1. n = "effect"
      BY <1>3, <2>3 DEF EveryPage, Told
    <3> QED  BY <2>2, <2>3, <3>1 DEF Given
  <2>4. CASE n \notin DOMAIN s
    BY <2>1, <2>2, <2>4 DEF Given
  <2> QED  BY <2>3, <2>4
<1> QED  BY <1>4, <1>5

-------------------------------------------------------------------------------
(* Calls.                                                                  *)

LEMMA Encoded ==
  /\ \A e, s : Known(EncodeEffect(e, s))
  /\ \A kelvin, intensity, gm, flag : Known(Cct(kelvin, intensity, gm, flag))
  /\ \A hue, saturation, intensity : Known(Hsi(hue, saturation, intensity))
  /\ \A e, page, state, s : Known(Effect2Packet(e, page, state, s))
<1>1. {1, 2, 7, 33, 34} \subseteq Commands
  BY DEF Commands
<1>2. ASSUME NEW e, NEW s PROVE Known(EncodeEffect(e, s))
  BY <1>1 DEF EncodeEffect, Packet, Known
<1>3. ASSUME NEW kelvin, NEW intensity, NEW gm, NEW flag
      PROVE  Known(Cct(kelvin, intensity, gm, flag))
  BY <1>1 DEF Cct, Packet, Known
<1>4. ASSUME NEW hue, NEW saturation, NEW intensity PROVE Known(Hsi(hue, saturation, intensity))
  BY <1>1 DEF Hsi, Packet, Known
<1>5. ASSUME NEW e, NEW page, NEW state, NEW s PROVE Known(Effect2Packet(e, page, state, s))
  BY <1>1 DEF Effect2Packet, Packet, Known
<1> QED  BY <1>2, <1>3, <1>4, <1>5

AllKnown(packets) == \A i \in DOMAIN packets : Known(packets[i])

LEMMA Effect2Known ==
  ASSUME NEW e, NEW s, NEW on
  PROVE  AllKnown(Effect2(e, s, on))
  BY Encoded DEF Effect2, AllKnown

LEMMA PixelKnown ==
  ASSUME NEW current, NEW intensity, NEW packets, packets = PixelPayloads(current, intensity),
         NEW e, NEW exact, NEW before, SentWhole(packets, e, exact, before)
  PROVE  AllKnown(packets)
<1>1. ASSUME NEW i \in DOMAIN packets PROVE DOMAIN packets[i] = {"command", "bits"}
  <2>1. \A s : DOMAIN EncodePixel(s) = {"command", "bits"}
    BY SMTT(30) DEF EncodePixel, Packet
  <2>2. \E s : packets[i] = EncodePixel(s)
    BY DEF PixelPayloads
  <2> QED  BY <2>1, <2>2
<1>2. \A i \in DOMAIN packets : packets[i].command = 33 /\ PixelReadable(packets[i])
  BY DEF SentWhole
<1> QED  BY <1>1, <1>2 DEF AllKnown, Known, Commands

LEMMA BeginStep ==
  ASSUME IInv, NEW family, NEW effect, NEW packets, NEW want, NEW exact, NEW asked,
         Begins(family, effect, packets, want, exact, asked), AllKnown(packets),
         family = "pixel" => /\ SentWhole(packets, effect, exact, shown)
                             /\ want.pages = PixelProgram(Pages(packets)).pages
  PROVE  IInv'
<1>1. told' = {} /\ fixture' = fixture /\ shown' = shown
  BY DEF Begins
<1>2. call' = [phase |-> "send", family |-> family, effect |-> effect, packets |-> packets,
               sent |-> 0, want |-> want, exact |-> exact, fresh |-> {}, news |-> FALSE,
               asked |-> asked, clean |-> exact /\ told = DOMAIN fixture,
               base |-> Look(fixture), before |-> shown]
  BY DEF Begins
<1>3. CallKnown'
  BY <1>2 DEF CallKnown, AllKnown
<1>4. ShownGood'
  <2>1. call'.fresh = {}
    BY <1>2
  <2> QED  BY <1>1, <2>1 DEF IInv, ShownGood
<1>5. CallWhole'
  <2>1. /\ call'.family = family /\ call'.packets = packets /\ call'.effect = effect
        /\ call'.exact = exact /\ call'.before = shown /\ call'.want = want
    BY <1>2
  <2> QED  BY <2>1 DEF CallWhole
<1> QED  BY <1>1, <1>3, <1>4, <1>5 DEF IInv

LEMMA CallsStep ==
  ASSUME IInv, NEW field, NEW e, NEW given,
         \/ SetEffect(field) \/ SetEffect2(field) \/ ApplyEffect(e, given) \/ ApplyEffect2(e, given)
         \/ ApplyPixel(e, given) \/ ExitEffect(given)
  PROVE  IInv'
<1>1. \A packet : Known(packet) => AllKnown(<<packet>>)
  BY DEF AllKnown
<1>2. CASE SetEffect(field)
  <2>1. PICK state, patch, want :
          Begins("effect", state.effect, <<EffectPayload(state, patch)>>, want, TRUE, patch)
    BY <1>2 DEF SetEffect
  <2>2. Known(EffectPayload(state, patch))
    BY Encoded DEF EffectPayload
  <2> QED  BY <1>1, <2>1, <2>2, BeginStep
<1>3. CASE SetEffect2(field)
  <2>1. PICK state, patch, want :
          Begins("effect2", state.effect, Effect2Payloads(state, patch), want, TRUE, patch)
    BY <1>3, ZenonT(40) DEF SetEffect2
  <2>2. AllKnown(Effect2Payloads(state, patch))
    BY Effect2Known DEF Effect2Payloads
  <2> QED  BY <2>1, <2>2, BeginStep
<1>4. CASE ApplyEffect(e, given)
  <2>1. PICK packet, want, same, asked :
          /\ Begins("effect", e, <<packet>>, want, same, asked)
          /\ \/ \E state, patch : packet = EffectPayload(state, patch)
             \/ \E s : packet = EncodeEffect(e, s)
    BY <1>4, ZenonT(40) DEF ApplyEffect
  <2>2. Known(packet)
    BY <2>1, Encoded DEF EffectPayload
  <2> QED  BY <1>1, <2>1, <2>2, BeginStep
<1>5. CASE ApplyEffect2(e, given)
  <2>1. PICK packets, want, same, asked :
          /\ Begins("effect2", e, packets, want, same, asked)
          /\ \/ \E state, patch : packets = Effect2Payloads(state, patch)
             \/ \E s : packets = Effect2(e, s, 1)
    BY <1>5 DEF ApplyEffect2
  <2>2. AllKnown(packets)
    BY <2>1, Effect2Known DEF Effect2Payloads
  <2> QED  BY <2>1, <2>2, BeginStep
<1>6. CASE ApplyPixel(e, given)
  <2> DEFINE same == shown.family = "pixel" /\ Given(shown, "effect", "none") = e
             current == IF same THEN shown ELSE PixelProgram(PixelDefaults(e, TRUE))
             intensity == IF given = NotGiven THEN KeptIntensity ELSE given
             packets == PixelPayloads(current, intensity)
             want == PixelProgram(Pages(packets))
  <2>1. e \in Pixels /\ Begins("pixel", e, packets, want, same, [brightness |-> intensity])
    BY <1>6, Zenon DEF ApplyPixel, Pages
  <2>2. same \in BOOLEAN
    OBVIOUS
  <2>3. same => shown.effect = e /\ Good(e, shown.pages)
    BY DEF IInv, ShownGood, Given
  <2> HIDE DEF same, current, intensity, packets, want
  <2>4. SentWhole(packets, e, same, shown)
    BY <2>1, <2>2, <2>3, PixelSent DEF current, packets
  <2>5. AllKnown(packets)
    BY <2>4, PixelKnown DEF packets
  <2> QED  BY <2>1, <2>4, <2>5, BeginStep DEF want
<1>7. CASE ExitEffect(given)
  <2>1. PICK packet, want, asked :
          /\ Begins("steady", "off", <<packet>>, want, FALSE, asked)
          /\ Known(packet)
    <3> DEFINE look == steady # NoLook
               kept == IF look THEN steady.intensity
                       ELSE IF ShownIntensity > 0 THEN ShownIntensity ELSE 180
               intensity == IF given = NotGiven THEN kept ELSE given
               packet == IF look /\ steady.hsi
                         THEN Hsi(steady.hue, steady.saturation, intensity)
                         ELSE Cct(IF look THEN steady.kelvin ELSE DefaultKelvin,
                                  intensity, preferredGm, GmV2)
    <3>1. Begins("steady", "off", <<packet>>, DecodeStatus(packet), FALSE,
                 [intensity |-> intensity])
      BY <1>7, Zenon DEF ExitEffect
    <3>2. Known(packet)
      BY Encoded
    <3> QED  BY <3>1, <3>2
  <2> QED  BY <1>1, <2>1, BeginStep
<1> QED  BY <1>2, <1>3, <1>4, <1>5, <1>6, <1>7

-------------------------------------------------------------------------------
(* The steps after a call began.                                           *)

LEMMA StaysShown ==
  ASSUME NEW k, Shows(k), fixture'[k] = fixture[k], shown' = shown, steady' = steady,
         \/ call'.phase = "idle"
         \/ call.phase # "idle" /\ call.fresh \subseteq call'.fresh
  PROVE  Shows(k)'
  BY DEF Shows, ShowsLook, ShowsEffect, ShowsEffect2, ShowsPixel

(* A call that goes on, with what it sends and waits for.                  *)
GoesOn ==
  /\ call.phase # "idle" /\ call'.family = call.family /\ call'.effect = call.effect
  /\ call'.packets = call.packets /\ call'.want = call.want /\ call'.exact = call.exact
  /\ call'.before = call.before

LEMMA StaysGood ==
  ASSUME ShownGood, shown' = shown,
         call'.phase = "idle" \/ (call.phase # "idle" /\ call'.fresh = call.fresh)
  PROVE  ShownGood'
  BY DEF ShownGood

LEMMA StaysWhole ==
  ASSUME CallWhole, call'.phase = "idle" \/ GoesOn
  PROVE  CallWhole'
  BY DEF CallWhole, GoesOn

LEMMA Advances ==
  ASSUME CallKnown, call.phase = "send", NEW known, call' = Advance(known)
  PROVE  CallKnown' /\ call'.fresh = call.fresh /\ GoesOn
  BY DEF CallKnown, Advance, GoesOn

LEMMA DeliverStep ==
  ASSUME IInv, Deliver
  PROVE  IInv'
<1> DEFINE packet == call.packets[call.sent + 1]
           taken  == IF packet.command \in {1, 2} THEN [packet EXCEPT !.bits = @ \cup {8}]
                     ELSE packet
           Same(other) == other.command = packet.command /\ packet.command \in {7, 33, 34}
                          /\ Value(other, 64, 8) = Value(packet, 64, 8)
           goesOn == \E k \in DOMAIN fixture : Same(fixture[k])
           j == Page(taken)
<1>1. /\ fixture' = At(j, taken) ++ IF goesOn THEN fixture ELSE <<>>
      /\ told' = IF goesOn THEN told \ {j} ELSE {}
      /\ call.phase = "send" /\ call.sent + 1 \in DOMAIN call.packets /\ call' = Advance(TRUE)
      /\ shown' = shown /\ steady' = steady
  BY DEF Deliver
<1>2. CallKnown' /\ call'.fresh = call.fresh /\ GoesOn
  BY <1>1, Advances DEF IInv
<1>7. ShownGood' /\ CallWhole'
  BY <1>1, <1>2, StaysGood, StaysWhole DEF IInv
<1>3. Known(packet)
  BY <1>1 DEF IInv, CallKnown
<1>4. /\ taken.command = packet.command /\ taken.command \in Commands
      /\ taken.command = 33 => PixelReadable(taken)
  BY <1>3 DEF Known
<1>5. CASE goesOn
  <2>1. PICK k0 \in DOMAIN fixture : Same(fixture[k0])
    BY <1>5
  <2>2. taken = packet
    BY <2>1
  <2> HIDE DEF packet, taken, goesOn, j
  <2>3. fixture' = [n \in DOMAIN fixture \cup {j} |-> IF n = j THEN taken ELSE fixture[n]]
    BY <1>1, <1>5 DEF ++, At
  <2>4. Page(taken) = j
    BY DEF j
  <2>5. WellFormed(fixture')
    BY <1>4, <2>1, <2>2, <2>3, <2>4 DEF IInv, WellFormed
  <2>6. told' = told \ {j}
    BY <1>1, <1>5
  <2>7. ASSUME NEW k \in told' PROVE Shows(k)'
    <3>1. fixture'[k] = fixture[k] /\ Shows(k)
      BY <2>3, <2>6 DEF IInv
    <3> QED  BY <1>1, <1>2, <3>1, StaysShown
  <2> QED  BY <1>2, <1>7, <2>3, <2>5, <2>6, <2>7 DEF IInv
<1>6. CASE ~goesOn
  <2> HIDE DEF packet, taken, goesOn, j
  <2>1. fixture' = [n \in {j} |-> taken]
    BY <1>1, <1>6 DEF ++, At
  <2>2. Page(taken) = j
    BY DEF j
  <2>3. WellFormed(fixture')
    BY <1>4, <2>1, <2>2 DEF WellFormed
  <2> QED  BY <1>1, <1>2, <1>6, <1>7, <2>3 DEF IInv
<1> QED  BY <1>5, <1>6

LEMMA QuietStep ==
  ASSUME IInv, Lose \/ SendFails \/ Unconfirmed
  PROVE  IInv'
<1>1. fixture' = fixture /\ told' = told /\ shown' = shown /\ steady' = steady
  BY DEF Lose, SendFails, Unconfirmed
<1>2. /\ CallKnown'
      /\ \/ call'.phase = "idle"
         \/ GoesOn /\ call'.fresh = call.fresh
  <2>1. CASE Lose
    BY <2>1, Advances DEF Lose, IInv
  <2>2. CASE SendFails \/ Unconfirmed
    BY <2>2 DEF SendFails, Unconfirmed, Idle, CallKnown
  <2> QED  BY <2>1, <2>2
<1>3. ASSUME NEW k \in told' PROVE Shows(k)'
  <2>1. \/ call'.phase = "idle"
        \/ call.phase # "idle" /\ call.fresh \subseteq call'.fresh
    BY <1>2 DEF GoesOn
  <2> QED  BY <1>1, <1>3, <2>1, StaysShown DEF IInv
<1>4. ShownGood' /\ CallWhole'
  BY <1>1, <1>2, StaysGood, StaysWhole DEF IInv, GoesOn
<1> QED  BY <1>1, <1>2, <1>3, <1>4 DEF IInv

LEMMA PanelStep ==
  ASSUME IInv, PanelTurns
  PROVE  IInv'
<1>1. WellFormed(fixture') /\ told' = {}
  BY ProgramsAssumption DEF PanelTurns
<1>2. /\ CallKnown' /\ shown' = shown
      /\ \/ call'.phase = "idle"
         \/ GoesOn /\ call'.fresh = call.fresh
  BY DEF PanelTurns, CallKnown, IInv, GoesOn
<1>3. ShownGood' /\ CallWhole'
  BY <1>2, StaysGood, StaysWhole DEF IInv, GoesOn
<1> QED  BY <1>1, <1>2, <1>3 DEF IInv

LEMMA ConfirmedStep ==
  ASSUME IInv, Confirmed
  PROVE  IInv'
<1>1. fixture' = fixture /\ told' = told /\ steady' = steady /\ call' = Idle
  BY DEF Confirmed
<1>2. CallKnown' /\ call'.phase = "idle"
  BY <1>1 DEF CallKnown, Idle
<1>3. ASSUME NEW k \in told' PROVE Shows(k)'
  <2>1. Shows(k)
    BY <1>1, <1>3 DEF IInv
  <2>2. CASE call.family # "pixel"
    BY <1>1, <1>2, <2>1, <2>2, StaysShown DEF Confirmed
  <2>3. CASE call.family = "pixel"
    <3> DEFINE s == Decoded(fixture[k])
               reported == [n \in call.fresh |-> shown.pages[n]]
    <3>1. /\ shown' = [family |-> "pixel", effect |-> call.effect,
                       pages |-> reported ++ call.want.pages,
                       playback |-> reported[17].playback]
          /\ Matches /\ call.phase = "confirm"
      BY <2>3 DEF Confirmed
    <3>2. /\ shown.family = "pixel" /\ Given(shown, "effect", "none") = call.effect
          /\ 17 \in call.fresh
      BY <2>3, <3>1 DEF Matches
    <3>3. fixture[k].command \in Commands
      BY <1>1, <1>3 DEF IInv, WellFormed
    <3>4. fixture[k].command = 33
      BY <2>1, <3>2, <3>3 DEF Shows, ShowsLook, ShowsEffect, ShowsEffect2, NoEffect, Commands
    <3> HIDE DEF s, reported
    <3>5. ShowsPixel(k, s)
      BY <2>1, <3>4 DEF Shows, s
    <3>6. k \in call.fresh /\ k \in DOMAIN reported /\ reported[k] = s /\ call.effect = s.effect
      BY <3>1, <3>2, <3>5 DEF ShowsPixel, Given, reported
    <3>7. k \in DOMAIN shown'.pages /\ shown'.pages[k] = s
      BY <3>1, <3>6 DEF ++
    <3>8. k = 17 => shown'.playback = s.playback
      BY <3>1, <3>6
    <3>9. ShowsPixel(k, s)'
      BY <1>1, <1>2, <3>1, <3>6, <3>7, <3>8 DEF ShowsPixel, s
    <3> QED  BY <1>1, <3>4, <3>9 DEF Shows, s
  <2> QED  BY <2>2, <2>3
<1>4. ShownGood'
  <2>1. CASE call.family # "pixel"
    BY <1>2, <2>1, StaysGood DEF Confirmed, IInv
  <2>2. CASE call.family = "pixel"
    <3> DEFINE reported == [n \in call.fresh |-> shown.pages[n]]
               pages == reported ++ call.want.pages
    <3>1. /\ shown' = [family |-> "pixel", effect |-> call.effect, pages |-> pages,
                       playback |-> reported[17].playback]
          /\ Matches /\ call.phase = "confirm"
      BY <2>2 DEF Confirmed
    <3>2. shown.family = "pixel" /\ Given(shown, "effect", "none") = call.effect
      BY <2>2, <3>1 DEF Matches
    <3>3. /\ "effect" \in DOMAIN shown /\ Good(shown.effect, shown.pages)
          /\ call.fresh \subseteq DOMAIN shown.pages
      BY <3>1, <3>2 DEF IInv, ShownGood
    <3>4. shown.effect = call.effect
      BY <3>2, <3>3 DEF Given
    <3>5. Good(call.effect, call.want.pages)
      BY <2>2, <3>1 DEF IInv, CallWhole, SentWhole
    <3>6. Good(call.effect, pages)
      <4>1. Good(call.effect, reported)
        BY <3>3, <3>4 DEF Good
      <4> HIDE DEF reported
      <4> QED  BY <3>5, <4>1 DEF Good, ++
    <3> HIDE DEF pages
    <3>7. "effect" \in DOMAIN shown' /\ shown'.effect = call.effect /\ shown'.pages = pages
      BY <3>1
    <3> QED  BY <1>2, <3>6, <3>7 DEF ShownGood
  <2> QED  BY <2>1, <2>2
<1>5. CallWhole'
  BY <1>2 DEF CallWhole
<1> QED  BY <1>1, <1>2, <1>3, <1>4, <1>5 DEF IInv

LEMMA ReportStep ==
  ASSUME IInv, NEW k, Report(k)
  PROVE  IInv'
<1> DEFINE s == Decoded(fixture[k])
           command == fixture[k].command
<1>1. /\ k \in DOMAIN fixture /\ fixture' = fixture /\ told' = told \cup {k}
      /\ Show(s, command)
      /\ call' = IF call.phase = "idle" THEN call
                 ELSE [call EXCEPT !.news = call.phase = "confirm",
                         !.fresh = IF command # 33 THEN {}
                                   ELSE IF /\ command = 33 /\ shown.family = "pixel"
                                           /\ Given(shown, "effect", "none") = s.effect
                                   THEN @ \cup {k} ELSE {k}]
  BY DEF Report
<1>2. CallKnown'
  BY <1>1 DEF CallKnown, IInv
<1>3. WellFormed(fixture) /\ command \in Commands
  BY <1>1 DEF IInv, WellFormed
<1>4. \A j \in told' : j \in DOMAIN fixture /\ fixture[j].command = command /\ (j = k \/ Shows(j))
  BY <1>1, <1>3 DEF IInv, WellFormed
<1>5. \A j \in DOMAIN fixture : Value(fixture[j], 64, 8) = Value(fixture[k], 64, 8)
  BY <1>1, <1>3 DEF WellFormed
<1> HIDE DEF command
<1>6. ASSUME NEW j \in told' PROVE Shows(j)'
  <2> DEFINE other == Decoded(fixture[j])
  <2>1. other' = other /\ fixture'[j].command = command
    BY <1>1, <1>4
  <2>2. CASE command \in {1, 2, 7}
    <3>1. Page(fixture[k]) = 0 /\ Page(fixture[j]) = 0
      BY <1>4, <2>2, Decoding DEF command
    <3>2. j = k
      BY <1>1, <1>3, <1>4, <3>1 DEF WellFormed
    <3> HIDE DEF s
    <3>3. CASE command \in {1, 2}
      <4>1. shown' = NoEffect /\ steady' = s
        BY <1>1, <3>3 DEF Show
      <4> QED  BY <2>1, <3>2, <3>3, <4>1 DEF Shows, ShowsLook, s
    <3>4. CASE command = 7
      <4>1. shown' = [family |-> "effect", state |-> s]
        BY <1>1, <3>4 DEF Show
      <4> QED  BY <2>1, <3>2, <3>4, <4>1 DEF Shows, ShowsEffect, s
    <3> QED  BY <2>2, <3>3, <3>4
  <2>3. CASE command = 34
    <3> DEFINE before == IF shown.family = "effect2" THEN shown.state ELSE <<>>
               m == MergeEffect2(before, s)
    <3>1. /\ EveryPage \ {"package"} \subseteq DOMAIN s /\ s.effect = Effect2Of(fixture[k])
          /\ s.effect \in Dual => OfPage(s, k) /\ k \in {0, 1}
          /\ s.effect \notin Dual => "package" \notin DOMAIN s /\ k = 0
      BY <1>1, <1>3, <2>3, Effect2Pages DEF command
    <3>2. /\ EveryPage \ {"package"} \subseteq DOMAIN other /\ other.effect = Effect2Of(fixture[j])
          /\ other.effect \in Dual => OfPage(other, j) /\ j \in {0, 1}
          /\ other.effect \notin Dual => "package" \notin DOMAIN other /\ j = 0
      BY <1>3, <1>4, <2>3, Effect2Pages
    <3>3. other.effect = s.effect
      BY <1>4, <1>5, <3>1, <3>2, Effect2Same
    <3> HIDE DEF s, other
    <3>4. shown' = [family |-> "effect2", state |-> m]
      BY <1>1, <2>3 DEF Show
    <3>5. "effect" \in DOMAIN s /\ "effect" \in DOMAIN other
      BY <3>1, <3>2 DEF EveryPage
    <3>6. ShowsEffect2(j, other)'
      <4>1. CASE j = k
        <5>1. other = s
          BY <4>1 DEF other, s
        <5>2. /\ \A n \in DOMAIN s \ Told : n \in DOMAIN m /\ m[n] = s[n]
              /\ "package" \in DOMAIN m => m = s
          BY <3>5, MergeShows
        <5> HIDE DEF m
        <5>3. "package" \in DOMAIN m => m.package = k
          BY <3>1, <5>2 DEF OfPage
        <5> QED  BY <2>1, <3>4, <4>1, <5>1, <5>2, <5>3 DEF ShowsEffect2, Told
      <4>2. CASE j # k
        <5>1. ShowsEffect2(j, other)
          BY <1>4, <2>3, <4>2 DEF Shows, other
        <5>2. /\ \A n \in DOMAIN other \ Told : n \in DOMAIN before /\ before[n] = other[n]
              /\ "package" \in DOMAIN before => before.package = j
          BY <5>1 DEF ShowsEffect2, Told
        <5>3. s.effect \in Dual /\ OfPage(s, k) /\ OfPage(other, j) /\ k \in {0, 1} /\ j \in {0, 1}
          BY <3>1, <3>2, <3>3, <4>2
        <5> HIDE DEF before
        <5>4. /\ \A n \in DOMAIN other \ Told : n \in DOMAIN m /\ m[n] = other[n]
              /\ "package" \notin DOMAIN m
          BY <3>3, <3>5, <4>2, <5>2, <5>3, MergeKeeps
        <5> HIDE DEF m
        <5> QED  BY <2>1, <3>4, <5>4 DEF ShowsEffect2, Told
      <4> QED  BY <4>1, <4>2
    <3> QED  BY <2>1, <2>3, <3>6 DEF Shows, other
  <2>4. CASE command = 33
    <3> DEFINE same  == shown.family = "pixel" /\ Given(shown, "effect", "none") = s.effect
               pages == At(k, s) ++ IF same THEN shown.pages ELSE <<>>
    <3>1. "effect" \in DOMAIN s /\ s.effect = PixelOf(fixture[k]) /\ PageKey(s) = k
      BY <1>1, <1>3, <2>4, PixelPagesOf DEF command
    <3>2. "effect" \in DOMAIN other /\ other.effect = PixelOf(fixture[j])
      BY <1>3, <1>4, <2>4, PixelPagesOf
    <3>3. other.effect = s.effect
      BY <1>4, <1>5, <3>1, <3>2, Effect2Same
    <3> HIDE DEF s, other
    <3>4. shown' = MergePixel(shown, s)
      BY <1>1, <2>4 DEF Show
    <3>5. shown' = [family |-> "pixel", effect |-> s.effect, pages |-> pages,
                    playback |-> IF 17 \in DOMAIN pages THEN pages[17].playback
                                 ELSE IF same THEN shown.playback ELSE s.playback]
      BY <3>1, <3>4 DEF MergePixel
    <3>6. call'.phase = call.phase
          /\ (call.phase # "idle" => call'.fresh = IF same THEN call.fresh \cup {k} ELSE {k})
      BY <1>1, <2>4 DEF CallKnown, IInv
    <3>7. k \in DOMAIN pages /\ pages[k] = s
      BY DEF ++, At
    <3>8. ASSUME j # k PROVE same /\ j \in DOMAIN pages /\ pages[j] = other
                             /\ (call.phase # "idle" => j \in call.fresh)
      <4>1. ShowsPixel(j, other)
        BY <1>4, <2>4, <3>8 DEF Shows, other
      <4>2. same
        BY <3>3, <4>1 DEF ShowsPixel, Given
      <4> QED  BY <3>8, <4>1, <4>2 DEF ShowsPixel, ++, At
    <3>9. j = k => other = s
      BY DEF other, s
    <3> HIDE DEF pages, same
    <3>10. ShowsPixel(j, other)'
      <4>1. j \in DOMAIN pages /\ pages[j] = other
        BY <3>7, <3>8, <3>9
      <4>2. call'.phase # "idle" => j \in call'.fresh
        BY <3>6, <3>8
      <4> QED  BY <2>1, <3>3, <3>5, <4>1, <4>2 DEF ShowsPixel
    <3> QED  BY <2>1, <2>4, <3>10 DEF Shows, other
  <2> QED  BY <1>3, <2>2, <2>3, <2>4 DEF Commands
<1>7. CallWhole'
  <2>1. call' = call \/ GoesOn
    BY <1>1 DEF CallKnown, IInv, GoesOn
  <2> QED  BY <2>1, StaysWhole DEF IInv, CallWhole
<1>8. ShownGood'
  <2>1. CASE command # 33
    <3>1. shown'.family # "pixel"
      BY <1>1, <1>3, <2>1 DEF Show, NoEffect, Commands
    <3> QED  BY <3>1 DEF ShownGood
  <2>2. CASE command = 33
    <3> DEFINE same  == shown.family = "pixel" /\ Given(shown, "effect", "none") = s.effect
               pages == At(k, s) ++ IF same THEN shown.pages ELSE <<>>
    <3>1. PageKey(s) = k /\ IsPage(s)
      BY <1>1, <1>3, <2>2, PixelPagesOf DEF command
    <3> HIDE DEF s
    <3>2. shown' = MergePixel(shown, s)
      BY <1>1, <2>2 DEF Show
    <3>3. /\ "effect" \in DOMAIN shown' /\ shown'.effect = s.effect /\ shown'.pages = pages
      BY <3>1, <3>2 DEF MergePixel
    <3>4. same => Good(s.effect, shown.pages)
                  /\ (call.phase # "idle" => call.fresh \subseteq DOMAIN shown.pages)
      BY DEF IInv, ShownGood, Given
    <3>5. Good(s.effect, pages) /\ k \in DOMAIN pages /\ (same => DOMAIN shown.pages \subseteq DOMAIN pages)
      BY <3>1, <3>4 DEF Good, ++, At
    <3>6. call'.phase # "idle" =>
            call.phase # "idle" /\ call'.fresh = IF same THEN call.fresh \cup {k} ELSE {k}
      BY <1>1, <2>2 DEF CallKnown, IInv
    <3> HIDE DEF pages, same
    <3>7. call'.phase # "idle" => call'.fresh \subseteq DOMAIN pages
      BY <3>4, <3>5, <3>6
    <3> QED  BY <3>3, <3>5, <3>7 DEF ShownGood
  <2> QED  BY <2>1, <2>2
<1> QED  BY <1>1, <1>2, <1>3, <1>6, <1>7, <1>8 DEF IInv

-------------------------------------------------------------------------------
(* What every step keeps.                                                  *)

LEMMA Begin == Init => IInv
<1> SUFFICES ASSUME Init PROVE IInv
  OBVIOUS
<1>1. WellFormed(fixture)
  BY ProgramsAssumption DEF Init
<1>2. CallKnown
  BY DEF Init, CallKnown, Idle
<1>3. ShownGood /\ CallWhole
  BY DEF Init, ShownGood, CallWhole, NoEffect, Idle
<1> QED  BY <1>1, <1>2, <1>3 DEF Init, IInv

LEMMA Step == IInv /\ [Next]_vars => IInv'
<1> SUFFICES ASSUME IInv, [Next]_vars PROVE IInv'
  OBVIOUS
<1>1. CASE Next
  <2>1. CASE \E field \in DOMAIN Asked \ {"intensity"} : SetEffect(field) \/ SetEffect2(field)
    BY <2>1, CallsStep
  <2>2. CASE \E given \in Asked["intensity"] \cup {NotGiven} :
               \/ \E e \in Effects : ApplyEffect(e, given) \/ ApplyEffect2(e, given)
                                       \/ ApplyPixel(e, given)
               \/ ExitEffect(given)
    BY <2>2, CallsStep
  <2>3. CASE Deliver
    BY <2>3, DeliverStep
  <2>4. CASE Lose \/ SendFails \/ Unconfirmed
    BY <2>4, QuietStep
  <2>5. CASE \E k \in DOMAIN fixture : Report(k)
    BY <2>5, ReportStep
  <2>6. CASE Confirmed
    BY <2>6, ConfirmedStep
  <2>7. CASE PanelTurns
    BY <2>7, PanelStep
  <2> QED  BY <1>1, <2>1, <2>2, <2>3, <2>4, <2>5, <2>6, <2>7 DEF Next
<1>2. CASE UNCHANGED vars
  BY <1>2 DEF vars, IInv, CallKnown, ShownGood, CallWhole, Shows, ShowsLook, ShowsEffect,
     ShowsEffect2, ShowsPixel
<1> QED  BY <1>1, <1>2

LEMMA Agrees == IInv => ShownIsReported
<1> SUFFICES ASSUME IInv, told = DOMAIN fixture PROVE ShownIsReported
  BY DEF ShownIsReported
<1> DEFINE look == Look(fixture)
           first == CHOOSE k \in DOMAIN fixture : TRUE
           command == fixture[first].command
<1>1. first \in DOMAIN fixture /\ WellFormed(fixture)
  BY DEF IInv, WellFormed
<1>2. command \in Commands /\ \A k \in DOMAIN fixture : fixture[k].command = command
  BY <1>1 DEF WellFormed
<1>3. DOMAIN look = DOMAIN fixture /\ \A k \in DOMAIN fixture : look[k] = Decoded(fixture[k])
  BY DEF Look
<1>4. \A k \in DOMAIN fixture : Shows(k)
  BY DEF IInv
<1>5. command \in {1, 2, 7} => 0 \in DOMAIN fixture
  <2>1. Page(fixture[first]) = first
    BY <1>1 DEF WellFormed
  <2> QED  BY <1>1, <2>1, Decoding
<1> HIDE DEF look, first, command
<1>6. command \in {1, 2} => shown = NoEffect /\ steady = look[0]
  BY <1>2, <1>3, <1>4, <1>5 DEF Shows, ShowsLook
<1>7. command = 7 => shown = [family |-> "effect", state |-> look[0]]
  BY <1>2, <1>3, <1>4, <1>5 DEF Shows, ShowsEffect
<1>8. ASSUME command = 34
      PROVE  /\ shown.family = "effect2"
             /\ \A k \in DOMAIN look : \A n \in DOMAIN look[k] \ {"package", "state", "on"} :
                  Given(shown.state, n, NotGiven) = look[k][n]
  <2>1. \A k \in DOMAIN fixture : ShowsEffect2(k, look[k])
    BY <1>2, <1>3, <1>4, <1>8 DEF Shows
  <2> QED  BY <1>1, <1>3, <2>1 DEF ShowsEffect2, Given
<1>9. ASSUME command = 33
      PROVE  /\ shown.family = "pixel"
             /\ \A k \in DOMAIN look : shown.pages[k] = look[k]
             /\ 17 \in DOMAIN look => shown.playback = look[17].playback
  <2>1. \A k \in DOMAIN fixture : ShowsPixel(k, look[k])
    BY <1>2, <1>3, <1>4, <1>9 DEF Shows
  <2> QED  BY <1>1, <1>3, <2>1 DEF ShowsPixel
<1> QED  BY <1>2, <1>6, <1>7, <1>8, <1>9 DEF ShownIsReported, Commands, look, first, command

LEMMA SendsWhole == IInv => PixelProgramWhole
<1> SUFFICES ASSUME IInv, call.phase = "send", call.family = "pixel" PROVE PixelProgramWhole
  BY DEF PixelProgramWhole
<1>1. SentWhole(call.packets, call.effect, call.exact, call.before)
  BY DEF IInv, CallWhole
<1> QED  BY <1>1, Zenon DEF PixelProgramWhole, SentWhole, Complete, Taken, Unpainted, Pages,
           DefaultPages

-------------------------------------------------------------------------------
(* The packets of command 7.                                               *)

(* What the layouts are made of.                                           *)
Head7       == {<<"on", 8, 1>>, <<"id", 64, 8>>}
AtFifty     == {<<"frequency", 50, 4>>, <<"intensity", 54, 10>>}
AtFiftySix  == {<<"intensity", 46, 10>>, <<"frequency", 56, 4>>, <<"mode", 60, 4>>}
VariantLow  == {<<"variant", 46, 4>>}
VariantMid  == {<<"variant", 42, 8>>}
VariantWide == {<<"variant", 40, 10>>}
HueLow      == {<<"saturation", 43, 7>>}
PapPart     == {<<"high", 30, 1>>, <<"gmFlag", 31, 1>>, <<"gmHigh", 32, 1>>, <<"gm", 33, 7>>,
                <<"cct", 40, 10>>}
BoltPart    == {<<"high", 24, 1>>, <<"gmFlag", 25, 1>>, <<"gmHigh", 26, 1>>, <<"speed", 27, 4>>,
                <<"trigger", 31, 2>>, <<"gm", 33, 7>>, <<"cct", 40, 10>>}
HuePart     == {<<"trigger", 28, 2>>, <<"saturation", 30, 7>>, <<"hue", 37, 9>>}
CctPart(at) == {<<"high", at, 1>>, <<"gmFlag", at + 1, 1>>, <<"gmHigh", at + 2, 1>>,
                <<"trigger", 27, 2>>, <<"gm", 29, 7>>, <<"cct", 36, 10>>}
Speed(at, width) == {<<"speed", at, width>>}

(* The fifteen effects of command 7, by name.                            *)
LEMMA Names7 ==
  Effects1 = ColorModes1 \cup
    {"Club Lights", "Cop Car", "Color Chase", "Party Lights", "Candle", "TV", "Fire",
     "Fireworks", "Paparazzi", "Lightning"}
  BY DEF Effects1, EffectIds, ColorModes1

(* Builder and decoder have the same places, which lie apart; fields of a  *)
(* name have a width of their own.                                         *)
Width7(e, n) ==
  CASE n \in {"high", "gmFlag", "gmHigh"} -> 1
    [] n = "trigger" -> 2
    [] n \in {"frequency", "mode"} -> 4
    [] n \in {"gm", "saturation"} -> 7
    [] n = "hue" -> 9
    [] n \in {"intensity", "cct"} -> 10
    [] n = "speed" -> IF e = "Welding" THEN 7 ELSE 4
    [] n = "variant" -> IF e \in {"Club Lights", "Cop Car"} THEN 4
                        ELSE IF e = "Fireworks" THEN 8 ELSE 10
Raw7 == {"high", "gmFlag", "gmHigh", "trigger", "frequency", "mode", "gm", "saturation", "hue",
         "intensity", "cct", "speed", "variant"}
Sound7(e, part) ==
  /\ Apart(Head7 \cup part)
  /\ \A f \in part : f[1] \in Raw7 /\ f[3] = Width7(e, f[1])
  /\ \A n \in {"high", "gmFlag", "gmHigh", "gm"} :
       (\E f \in part : f[1] = n) <=> (\E f \in part : f[1] = "cct")
  /\ e \in ColorModes1 => <<"mode", 60, 4>> \in part
  /\ <<"intensity", 54, 10>> \in part \/ <<"intensity", 46, 10>> \in part

(* An effect without colours has one layout.                             *)
LEMMA SingleLayouts7 ==
  ASSUME NEW e \in Effects1 \ ColorModes1, NEW mode
  PROVE  /\ EncodeLayout(e, mode) = Head7 \cup DecodeLayout(e, mode)
         /\ Sound7(e, DecodeLayout(e, mode)) /\ DecodeLayout(e, 0) = DecodeLayout(e, mode)
<1>11. e \notin ColorModes1
  OBVIOUS
<1>1. CASE e = "Club Lights"
  <2> DEFINE part == AtFifty \cup VariantLow
  <2>1. \A m : DecodeLayout("Club Lights", m) = part
    BY DEF DecodeLayout, AtFifty, VariantLow
  <2>2. EncodeLayout("Club Lights", mode) = Head7 \cup part
    BY DEF EncodeLayout, Head7, AtFifty, VariantLow
  <2>3. Apart(Head7 \cup part)
    BY DEF Apart, Place, Head7, AtFifty, VariantLow
  <2>4. \A f \in part : f[1] \in Raw7 /\ f[3] = Width7("Club Lights", f[1])
    BY DEF AtFifty, VariantLow, Raw7, Width7
  <2>5. \A n \in {"high", "gmFlag", "gmHigh", "gm"} :
          (\E f \in part : f[1] = n) <=> (\E f \in part : f[1] = "cct")
    BY DEF AtFifty, VariantLow
  <2>6. <<"intensity", 54, 10>> \in part
    BY DEF AtFifty
  <2> HIDE DEF part
  <2> QED  BY <2>6, <1>11, <1>1, <2>1, <2>2, <2>3, <2>4, <2>5 DEF Sound7
<1>2. CASE e = "Cop Car"
  <2> DEFINE part == AtFifty \cup VariantLow
  <2>1. \A m : DecodeLayout("Cop Car", m) = part
    BY DEF DecodeLayout, AtFifty, VariantLow
  <2>2. EncodeLayout("Cop Car", mode) = Head7 \cup part
    BY DEF EncodeLayout, Head7, AtFifty, VariantLow
  <2>3. Apart(Head7 \cup part)
    BY DEF Apart, Place, Head7, AtFifty, VariantLow
  <2>4. \A f \in part : f[1] \in Raw7 /\ f[3] = Width7("Cop Car", f[1])
    BY DEF AtFifty, VariantLow, Raw7, Width7
  <2>5. \A n \in {"high", "gmFlag", "gmHigh", "gm"} :
          (\E f \in part : f[1] = n) <=> (\E f \in part : f[1] = "cct")
    BY DEF AtFifty, VariantLow
  <2>6. <<"intensity", 54, 10>> \in part
    BY DEF AtFifty
  <2> HIDE DEF part
  <2> QED  BY <2>6, <1>11, <1>2, <2>1, <2>2, <2>3, <2>4, <2>5 DEF Sound7
<1>3. CASE e = "Color Chase"
  <2> DEFINE part == AtFifty \cup HueLow
  <2>1. \A m : DecodeLayout("Color Chase", m) = part
    BY DEF DecodeLayout, AtFifty, HueLow
  <2>2. EncodeLayout("Color Chase", mode) = Head7 \cup part
    BY DEF EncodeLayout, Head7, AtFifty, HueLow
  <2>3. Apart(Head7 \cup part)
    BY DEF Apart, Place, Head7, AtFifty, HueLow
  <2>4. \A f \in part : f[1] \in Raw7 /\ f[3] = Width7("Color Chase", f[1])
    BY DEF AtFifty, HueLow, Raw7, Width7
  <2>5. \A n \in {"high", "gmFlag", "gmHigh", "gm"} :
          (\E f \in part : f[1] = n) <=> (\E f \in part : f[1] = "cct")
    BY DEF AtFifty, HueLow
  <2>6. <<"intensity", 54, 10>> \in part
    BY DEF AtFifty
  <2> HIDE DEF part
  <2> QED  BY <2>6, <1>11, <1>3, <2>1, <2>2, <2>3, <2>4, <2>5 DEF Sound7
<1>4. CASE e = "Party Lights"
  <2> DEFINE part == AtFifty \cup HueLow
  <2>1. \A m : DecodeLayout("Party Lights", m) = part
    BY DEF DecodeLayout, AtFifty, HueLow
  <2>2. EncodeLayout("Party Lights", mode) = Head7 \cup part
    BY DEF EncodeLayout, Head7, AtFifty, HueLow
  <2>3. Apart(Head7 \cup part)
    BY DEF Apart, Place, Head7, AtFifty, HueLow
  <2>4. \A f \in part : f[1] \in Raw7 /\ f[3] = Width7("Party Lights", f[1])
    BY DEF AtFifty, HueLow, Raw7, Width7
  <2>5. \A n \in {"high", "gmFlag", "gmHigh", "gm"} :
          (\E f \in part : f[1] = n) <=> (\E f \in part : f[1] = "cct")
    BY DEF AtFifty, HueLow
  <2>6. <<"intensity", 54, 10>> \in part
    BY DEF AtFifty
  <2> HIDE DEF part
  <2> QED  BY <2>6, <1>11, <1>4, <2>1, <2>2, <2>3, <2>4, <2>5 DEF Sound7
<1>5. CASE e = "Candle"
  <2> DEFINE part == AtFifty \cup VariantWide
  <2>1. \A m : DecodeLayout("Candle", m) = part
    BY DEF DecodeLayout, AtFifty, VariantWide
  <2>2. EncodeLayout("Candle", mode) = Head7 \cup part
    BY DEF EncodeLayout, Head7, AtFifty, VariantWide
  <2>3. Apart(Head7 \cup part)
    BY DEF Apart, Place, Head7, AtFifty, VariantWide
  <2>4. \A f \in part : f[1] \in Raw7 /\ f[3] = Width7("Candle", f[1])
    BY DEF AtFifty, VariantWide, Raw7, Width7
  <2>5. \A n \in {"high", "gmFlag", "gmHigh", "gm"} :
          (\E f \in part : f[1] = n) <=> (\E f \in part : f[1] = "cct")
    BY DEF AtFifty, VariantWide
  <2>6. <<"intensity", 54, 10>> \in part
    BY DEF AtFifty
  <2> HIDE DEF part
  <2> QED  BY <2>6, <1>11, <1>5, <2>1, <2>2, <2>3, <2>4, <2>5 DEF Sound7
<1>6. CASE e = "TV"
  <2> DEFINE part == AtFifty \cup VariantWide
  <2>1. \A m : DecodeLayout("TV", m) = part
    BY DEF DecodeLayout, AtFifty, VariantWide
  <2>2. EncodeLayout("TV", mode) = Head7 \cup part
    BY DEF EncodeLayout, Head7, AtFifty, VariantWide
  <2>3. Apart(Head7 \cup part)
    BY DEF Apart, Place, Head7, AtFifty, VariantWide
  <2>4. \A f \in part : f[1] \in Raw7 /\ f[3] = Width7("TV", f[1])
    BY DEF AtFifty, VariantWide, Raw7, Width7
  <2>5. \A n \in {"high", "gmFlag", "gmHigh", "gm"} :
          (\E f \in part : f[1] = n) <=> (\E f \in part : f[1] = "cct")
    BY DEF AtFifty, VariantWide
  <2>6. <<"intensity", 54, 10>> \in part
    BY DEF AtFifty
  <2> HIDE DEF part
  <2> QED  BY <2>6, <1>11, <1>6, <2>1, <2>2, <2>3, <2>4, <2>5 DEF Sound7
<1>7. CASE e = "Fire"
  <2> DEFINE part == AtFifty \cup VariantWide
  <2>1. \A m : DecodeLayout("Fire", m) = part
    BY DEF DecodeLayout, AtFifty, VariantWide
  <2>2. EncodeLayout("Fire", mode) = Head7 \cup part
    BY DEF EncodeLayout, Head7, AtFifty, VariantWide
  <2>3. Apart(Head7 \cup part)
    BY DEF Apart, Place, Head7, AtFifty, VariantWide
  <2>4. \A f \in part : f[1] \in Raw7 /\ f[3] = Width7("Fire", f[1])
    BY DEF AtFifty, VariantWide, Raw7, Width7
  <2>5. \A n \in {"high", "gmFlag", "gmHigh", "gm"} :
          (\E f \in part : f[1] = n) <=> (\E f \in part : f[1] = "cct")
    BY DEF AtFifty, VariantWide
  <2>6. <<"intensity", 54, 10>> \in part
    BY DEF AtFifty
  <2> HIDE DEF part
  <2> QED  BY <2>6, <1>11, <1>7, <2>1, <2>2, <2>3, <2>4, <2>5 DEF Sound7
<1>8. CASE e = "Fireworks"
  <2> DEFINE part == AtFifty \cup VariantMid
  <2>1. \A m : DecodeLayout("Fireworks", m) = part
    BY DEF DecodeLayout, AtFifty, VariantMid
  <2>2. EncodeLayout("Fireworks", mode) = Head7 \cup part
    BY DEF EncodeLayout, Head7, AtFifty, VariantMid
  <2>3. Apart(Head7 \cup part)
    BY DEF Apart, Place, Head7, AtFifty, VariantMid
  <2>4. \A f \in part : f[1] \in Raw7 /\ f[3] = Width7("Fireworks", f[1])
    BY DEF AtFifty, VariantMid, Raw7, Width7
  <2>5. \A n \in {"high", "gmFlag", "gmHigh", "gm"} :
          (\E f \in part : f[1] = n) <=> (\E f \in part : f[1] = "cct")
    BY DEF AtFifty, VariantMid
  <2>6. <<"intensity", 54, 10>> \in part
    BY DEF AtFifty
  <2> HIDE DEF part
  <2> QED  BY <2>6, <1>11, <1>8, <2>1, <2>2, <2>3, <2>4, <2>5 DEF Sound7
<1>9. CASE e = "Paparazzi"
  <2> DEFINE part == AtFifty \cup PapPart
  <2>1. \A m : DecodeLayout("Paparazzi", m) = part
    BY DEF DecodeLayout, AtFifty, PapPart
  <2>2. EncodeLayout("Paparazzi", mode) = Head7 \cup part
    BY DEF EncodeLayout, Head7, AtFifty, PapPart
  <2>3. Apart(Head7 \cup part)
    BY DEF Apart, Place, Head7, AtFifty, PapPart
  <2>4. \A f \in part : f[1] \in Raw7 /\ f[3] = Width7("Paparazzi", f[1])
    BY DEF AtFifty, PapPart, Raw7, Width7
  <2>5. \A n \in {"high", "gmFlag", "gmHigh", "gm"} :
          (\E f \in part : f[1] = n) <=> (\E f \in part : f[1] = "cct")
    BY DEF AtFifty, PapPart
  <2>6. <<"intensity", 54, 10>> \in part
    BY DEF AtFifty
  <2> HIDE DEF part
  <2> QED  BY <2>6, <1>11, <1>9, <2>1, <2>2, <2>3, <2>4, <2>5 DEF Sound7
<1>10. CASE e = "Lightning"
  <2> DEFINE part == AtFifty \cup BoltPart
  <2>1. \A m : DecodeLayout("Lightning", m) = part
    BY DEF DecodeLayout, AtFifty, BoltPart
  <2>2. EncodeLayout("Lightning", mode) = Head7 \cup part
    BY DEF EncodeLayout, Head7, AtFifty, BoltPart
  <2>3. Apart(Head7 \cup part)
    BY DEF Apart, Place, Head7, AtFifty, BoltPart
  <2>4. \A f \in part : f[1] \in Raw7 /\ f[3] = Width7("Lightning", f[1])
    BY DEF AtFifty, BoltPart, Raw7, Width7
  <2>5. \A n \in {"high", "gmFlag", "gmHigh", "gm"} :
          (\E f \in part : f[1] = n) <=> (\E f \in part : f[1] = "cct")
    BY DEF AtFifty, BoltPart
  <2>6. <<"intensity", 54, 10>> \in part
    BY DEF AtFifty
  <2> HIDE DEF part
  <2> QED  BY <2>6, <1>11, <1>10, <2>1, <2>2, <2>3, <2>4, <2>5 DEF Sound7
<1> QED  BY <1>11, <1>1, <1>2, <1>3, <1>4, <1>5, <1>6, <1>7, <1>8, <1>9, <1>10, Names7

(* The two colour modes differ.                                          *)
LEMMA ZeroOne == 0 # 1
  OBVIOUS

(* What is built in a colour mode has the places it is read from.        *)
LEMMA EncodeDual ==
  \A mode \in {0, 1} : \A e \in ColorModes1 : EncodeLayout(e, mode) = Head7 \cup DecodeLayout(e, mode)
<1>1. ASSUME NEW mode, mode = 0
      PROVE  EncodeLayout("Welding", mode) = Head7 \cup DecodeLayout("Welding", mode)
  BY <1>1, SMTT(20) DEF DecodeLayout, EncodeLayout, Head7
<1>2. ASSUME NEW mode, mode = 1
      PROVE  EncodeLayout("Welding", mode) = Head7 \cup DecodeLayout("Welding", mode)
  BY <1>2, SMTT(20) DEF DecodeLayout, EncodeLayout, Head7
<1>3. ASSUME NEW mode, mode = 0
      PROVE  EncodeLayout("Faulty Bulb", mode) = Head7 \cup DecodeLayout("Faulty Bulb", mode)
  BY <1>3, SMTT(20) DEF DecodeLayout, EncodeLayout, Head7
<1>4. ASSUME NEW mode, mode = 1
      PROVE  EncodeLayout("Faulty Bulb", mode) = Head7 \cup DecodeLayout("Faulty Bulb", mode)
  BY <1>4, SMTT(20) DEF DecodeLayout, EncodeLayout, Head7
<1>5. ASSUME NEW mode, mode = 0
      PROVE  EncodeLayout("Pulsing", mode) = Head7 \cup DecodeLayout("Pulsing", mode)
  BY <1>5, SMTT(20) DEF DecodeLayout, EncodeLayout, Head7
<1>6. ASSUME NEW mode, mode = 1
      PROVE  EncodeLayout("Pulsing", mode) = Head7 \cup DecodeLayout("Pulsing", mode)
  BY <1>6, SMTT(20) DEF DecodeLayout, EncodeLayout, Head7
<1>7. ASSUME NEW mode, mode = 0
      PROVE  EncodeLayout("Strobe", mode) = Head7 \cup DecodeLayout("Strobe", mode)
  BY <1>7, SMTT(20) DEF DecodeLayout, EncodeLayout, Head7
<1>8. ASSUME NEW mode, mode = 1
      PROVE  EncodeLayout("Strobe", mode) = Head7 \cup DecodeLayout("Strobe", mode)
  BY <1>8, SMTT(20) DEF DecodeLayout, EncodeLayout, Head7
<1>9. ASSUME NEW mode, mode = 0
      PROVE  EncodeLayout("Explosion", mode) = Head7 \cup DecodeLayout("Explosion", mode)
  BY <1>9, SMTT(20) DEF DecodeLayout, EncodeLayout, Head7
<1>10. ASSUME NEW mode, mode = 1
       PROVE  EncodeLayout("Explosion", mode) = Head7 \cup DecodeLayout("Explosion", mode)
  BY <1>10, SMTT(20) DEF DecodeLayout, EncodeLayout, Head7
<1> QED BY <1>1, <1>2, <1>3, <1>4, <1>5, <1>6, <1>7, <1>8, <1>9, <1>10, Zenon DEF ColorModes1

(* An effect with colours has one layout for each mode.                  *)
LEMMA DualLayouts7 ==
  ASSUME NEW e \in ColorModes1, NEW mode \in {0, 1}
  PROVE  /\ EncodeLayout(e, mode) = Head7 \cup DecodeLayout(e, mode)
         /\ Sound7(e, DecodeLayout(e, mode))
         /\ \A m : DecodeLayout(e, m) = DecodeLayout(e, 0) \/ DecodeLayout(e, m) = DecodeLayout(e, 1)
<1>6. EncodeLayout(e, mode) = Head7 \cup DecodeLayout(e, mode)
  BY EncodeDual
<1>1. CASE e = "Welding"
  <2>1. ASSUME NEW m
        PROVE  DecodeLayout("Welding", m) = AtFiftySix \cup IF m = 0 THEN CctPart(17)
                 \cup Speed(20, 7) ELSE HuePart \cup Speed(21, 7)
    BY DEF DecodeLayout, AtFiftySix, HuePart, CctPart, Speed
  <2>4. ASSUME NEW m
        PROVE  DecodeLayout("Welding", m) = DecodeLayout("Welding", 0)
                 \/ DecodeLayout("Welding", m) = DecodeLayout("Welding", 1)
    <3>1. CASE m = 0
      BY <3>1
    <3>2. CASE m # 0
      <4>1. DecodeLayout("Welding", m) = AtFiftySix \cup (HuePart \cup Speed(21, 7))
        BY <2>1, <3>2, Zenon
      <4>2. DecodeLayout("Welding", 1) = AtFiftySix \cup (HuePart \cup Speed(21, 7))
        BY <2>1, ZeroOne, Zenon
      <4> QED  BY <4>1, <4>2, Zenon
    <3> QED  BY <3>1, <3>2
  <2>2. CASE mode = 0
    <3> DEFINE part == AtFiftySix \cup (CctPart(17) \cup Speed(20, 7))
    <3>2. DecodeLayout("Welding", 0) = part
      BY <2>1, ZeroOne, Zenon
    <3>3. Apart(Head7 \cup part)
      BY DEF Apart, Place, Head7, AtFiftySix, CctPart, Speed
    <3>4. \A f \in part : f[1] \in Raw7 /\ f[3] = Width7("Welding", f[1])
      BY DEF AtFiftySix, CctPart, Speed, Raw7, Width7
    <3>5. \A n \in {"high", "gmFlag", "gmHigh", "gm"} :
            (\E f \in part : f[1] = n) <=> (\E f \in part : f[1] = "cct")
      BY DEF AtFiftySix, CctPart, Speed
    <3>6. <<"mode", 60, 4>> \in part
      BY DEF AtFiftySix
    <3>7. <<"intensity", 46, 10>> \in part
      BY DEF AtFiftySix
    <3> HIDE DEF part
    <3> QED  BY <3>7, <1>1, <1>6, <2>4, <2>2, <3>2, <3>3, <3>4, <3>5, <3>6 DEF Sound7
  <2>3. CASE mode = 1
    <3> DEFINE part == AtFiftySix \cup (HuePart \cup Speed(21, 7))
    <3>2. DecodeLayout("Welding", 1) = part
      BY <2>1, ZeroOne, Zenon
    <3>3. Apart(Head7 \cup part)
      BY DEF Apart, Place, Head7, AtFiftySix, HuePart, Speed
    <3>4. \A f \in part : f[1] \in Raw7 /\ f[3] = Width7("Welding", f[1])
      BY DEF AtFiftySix, HuePart, Speed, Raw7, Width7
    <3>5. \A n \in {"high", "gmFlag", "gmHigh", "gm"} :
            (\E f \in part : f[1] = n) <=> (\E f \in part : f[1] = "cct")
      BY DEF AtFiftySix, HuePart, Speed
    <3>6. <<"mode", 60, 4>> \in part
      BY DEF AtFiftySix
    <3>7. <<"intensity", 46, 10>> \in part
      BY DEF AtFiftySix
    <3> HIDE DEF part
    <3> QED  BY <3>7, <1>1, <1>6, <2>4, <2>3, <3>2, <3>3, <3>4, <3>5, <3>6 DEF Sound7
  <2> QED  BY <2>2, <2>3
<1>2. CASE e = "Faulty Bulb"
  <2>1. ASSUME NEW m
        PROVE  DecodeLayout("Faulty Bulb", m) = AtFiftySix \cup IF m = 1 THEN HuePart
                 \cup Speed(24, 4) ELSE CctPart(20) \cup Speed(23, 4)
    BY DEF DecodeLayout, AtFiftySix, HuePart, CctPart, Speed
  <2>4. ASSUME NEW m
        PROVE  DecodeLayout("Faulty Bulb", m) = DecodeLayout("Faulty Bulb", 0)
                 \/ DecodeLayout("Faulty Bulb", m) = DecodeLayout("Faulty Bulb", 1)
    <3>1. CASE m = 1
      BY <3>1
    <3>2. CASE m # 1
      <4>1. DecodeLayout("Faulty Bulb", m) = AtFiftySix \cup (CctPart(20) \cup Speed(23, 4))
        BY <2>1, <3>2, Zenon
      <4>2. DecodeLayout("Faulty Bulb", 0) = AtFiftySix \cup (CctPart(20) \cup Speed(23, 4))
        BY <2>1, ZeroOne, Zenon
      <4> QED  BY <4>1, <4>2, Zenon
    <3> QED  BY <3>1, <3>2
  <2>2. CASE mode = 0
    <3> DEFINE part == AtFiftySix \cup (CctPart(20) \cup Speed(23, 4))
    <3>2. DecodeLayout("Faulty Bulb", 0) = part
      BY <2>1, ZeroOne, Zenon
    <3>3. Apart(Head7 \cup part)
      BY DEF Apart, Place, Head7, AtFiftySix, CctPart, Speed
    <3>4. \A f \in part : f[1] \in Raw7 /\ f[3] = Width7("Faulty Bulb", f[1])
      BY DEF AtFiftySix, CctPart, Speed, Raw7, Width7
    <3>5. \A n \in {"high", "gmFlag", "gmHigh", "gm"} :
            (\E f \in part : f[1] = n) <=> (\E f \in part : f[1] = "cct")
      BY DEF AtFiftySix, CctPart, Speed
    <3>6. <<"mode", 60, 4>> \in part
      BY DEF AtFiftySix
    <3>7. <<"intensity", 46, 10>> \in part
      BY DEF AtFiftySix
    <3> HIDE DEF part
    <3> QED  BY <3>7, <1>2, <1>6, <2>4, <2>2, <3>2, <3>3, <3>4, <3>5, <3>6 DEF Sound7
  <2>3. CASE mode = 1
    <3> DEFINE part == AtFiftySix \cup (HuePart \cup Speed(24, 4))
    <3>2. DecodeLayout("Faulty Bulb", 1) = part
      BY <2>1, ZeroOne, Zenon
    <3>3. Apart(Head7 \cup part)
      BY DEF Apart, Place, Head7, AtFiftySix, HuePart, Speed
    <3>4. \A f \in part : f[1] \in Raw7 /\ f[3] = Width7("Faulty Bulb", f[1])
      BY DEF AtFiftySix, HuePart, Speed, Raw7, Width7
    <3>5. \A n \in {"high", "gmFlag", "gmHigh", "gm"} :
            (\E f \in part : f[1] = n) <=> (\E f \in part : f[1] = "cct")
      BY DEF AtFiftySix, HuePart, Speed
    <3>6. <<"mode", 60, 4>> \in part
      BY DEF AtFiftySix
    <3>7. <<"intensity", 46, 10>> \in part
      BY DEF AtFiftySix
    <3> HIDE DEF part
    <3> QED  BY <3>7, <1>2, <1>6, <2>4, <2>3, <3>2, <3>3, <3>4, <3>5, <3>6 DEF Sound7
  <2> QED  BY <2>2, <2>3
<1>3. CASE e = "Pulsing"
  <2>1. ASSUME NEW m
        PROVE  DecodeLayout("Pulsing", m) = AtFiftySix \cup IF m = 1 THEN HuePart
                 \cup Speed(24, 4) ELSE CctPart(20) \cup Speed(23, 4)
    BY DEF DecodeLayout, AtFiftySix, HuePart, CctPart, Speed
  <2>4. ASSUME NEW m
        PROVE  DecodeLayout("Pulsing", m) = DecodeLayout("Pulsing", 0)
                 \/ DecodeLayout("Pulsing", m) = DecodeLayout("Pulsing", 1)
    <3>1. CASE m = 1
      BY <3>1
    <3>2. CASE m # 1
      <4>1. DecodeLayout("Pulsing", m) = AtFiftySix \cup (CctPart(20) \cup Speed(23, 4))
        BY <2>1, <3>2, Zenon
      <4>2. DecodeLayout("Pulsing", 0) = AtFiftySix \cup (CctPart(20) \cup Speed(23, 4))
        BY <2>1, ZeroOne, Zenon
      <4> QED  BY <4>1, <4>2, Zenon
    <3> QED  BY <3>1, <3>2
  <2>2. CASE mode = 0
    <3> DEFINE part == AtFiftySix \cup (CctPart(20) \cup Speed(23, 4))
    <3>2. DecodeLayout("Pulsing", 0) = part
      BY <2>1, ZeroOne, Zenon
    <3>3. Apart(Head7 \cup part)
      BY DEF Apart, Place, Head7, AtFiftySix, CctPart, Speed
    <3>4. \A f \in part : f[1] \in Raw7 /\ f[3] = Width7("Pulsing", f[1])
      BY DEF AtFiftySix, CctPart, Speed, Raw7, Width7
    <3>5. \A n \in {"high", "gmFlag", "gmHigh", "gm"} :
            (\E f \in part : f[1] = n) <=> (\E f \in part : f[1] = "cct")
      BY DEF AtFiftySix, CctPart, Speed
    <3>6. <<"mode", 60, 4>> \in part
      BY DEF AtFiftySix
    <3>7. <<"intensity", 46, 10>> \in part
      BY DEF AtFiftySix
    <3> HIDE DEF part
    <3> QED  BY <3>7, <1>3, <1>6, <2>4, <2>2, <3>2, <3>3, <3>4, <3>5, <3>6 DEF Sound7
  <2>3. CASE mode = 1
    <3> DEFINE part == AtFiftySix \cup (HuePart \cup Speed(24, 4))
    <3>2. DecodeLayout("Pulsing", 1) = part
      BY <2>1, ZeroOne, Zenon
    <3>3. Apart(Head7 \cup part)
      BY DEF Apart, Place, Head7, AtFiftySix, HuePart, Speed
    <3>4. \A f \in part : f[1] \in Raw7 /\ f[3] = Width7("Pulsing", f[1])
      BY DEF AtFiftySix, HuePart, Speed, Raw7, Width7
    <3>5. \A n \in {"high", "gmFlag", "gmHigh", "gm"} :
            (\E f \in part : f[1] = n) <=> (\E f \in part : f[1] = "cct")
      BY DEF AtFiftySix, HuePart, Speed
    <3>6. <<"mode", 60, 4>> \in part
      BY DEF AtFiftySix
    <3>7. <<"intensity", 46, 10>> \in part
      BY DEF AtFiftySix
    <3> HIDE DEF part
    <3> QED  BY <3>7, <1>3, <1>6, <2>4, <2>3, <3>2, <3>3, <3>4, <3>5, <3>6 DEF Sound7
  <2> QED  BY <2>2, <2>3
<1>4. CASE e = "Strobe"
  <2>1. ASSUME NEW m
        PROVE  DecodeLayout("Strobe", m) = AtFiftySix \cup IF m = 1 THEN HuePart ELSE CctPart(24)
    BY DEF DecodeLayout, AtFiftySix, HuePart, CctPart, Speed
  <2>4. ASSUME NEW m
        PROVE  DecodeLayout("Strobe", m) = DecodeLayout("Strobe", 0)
                 \/ DecodeLayout("Strobe", m) = DecodeLayout("Strobe", 1)
    <3>1. CASE m = 1
      BY <3>1
    <3>2. CASE m # 1
      <4>1. DecodeLayout("Strobe", m) = AtFiftySix \cup (CctPart(24))
        BY <2>1, <3>2, Zenon
      <4>2. DecodeLayout("Strobe", 0) = AtFiftySix \cup (CctPart(24))
        BY <2>1, ZeroOne, Zenon
      <4> QED  BY <4>1, <4>2, Zenon
    <3> QED  BY <3>1, <3>2
  <2>2. CASE mode = 0
    <3> DEFINE part == AtFiftySix \cup (CctPart(24))
    <3>2. DecodeLayout("Strobe", 0) = part
      BY <2>1, ZeroOne, Zenon
    <3>3. Apart(Head7 \cup part)
      BY DEF Apart, Place, Head7, AtFiftySix, CctPart
    <3>4. \A f \in part : f[1] \in Raw7 /\ f[3] = Width7("Strobe", f[1])
      BY DEF AtFiftySix, CctPart, Raw7, Width7
    <3>5. \A n \in {"high", "gmFlag", "gmHigh", "gm"} :
            (\E f \in part : f[1] = n) <=> (\E f \in part : f[1] = "cct")
      BY DEF AtFiftySix, CctPart
    <3>6. <<"mode", 60, 4>> \in part
      BY DEF AtFiftySix
    <3>7. <<"intensity", 46, 10>> \in part
      BY DEF AtFiftySix
    <3> HIDE DEF part
    <3> QED  BY <3>7, <1>4, <1>6, <2>4, <2>2, <3>2, <3>3, <3>4, <3>5, <3>6 DEF Sound7
  <2>3. CASE mode = 1
    <3> DEFINE part == AtFiftySix \cup (HuePart)
    <3>2. DecodeLayout("Strobe", 1) = part
      BY <2>1, ZeroOne, Zenon
    <3>3. Apart(Head7 \cup part)
      BY DEF Apart, Place, Head7, AtFiftySix, HuePart
    <3>4. \A f \in part : f[1] \in Raw7 /\ f[3] = Width7("Strobe", f[1])
      BY DEF AtFiftySix, HuePart, Raw7, Width7
    <3>5. \A n \in {"high", "gmFlag", "gmHigh", "gm"} :
            (\E f \in part : f[1] = n) <=> (\E f \in part : f[1] = "cct")
      BY DEF AtFiftySix, HuePart
    <3>6. <<"mode", 60, 4>> \in part
      BY DEF AtFiftySix
    <3>7. <<"intensity", 46, 10>> \in part
      BY DEF AtFiftySix
    <3> HIDE DEF part
    <3> QED  BY <3>7, <1>4, <1>6, <2>4, <2>3, <3>2, <3>3, <3>4, <3>5, <3>6 DEF Sound7
  <2> QED  BY <2>2, <2>3
<1>5. CASE e = "Explosion"
  <2>1. ASSUME NEW m
        PROVE  DecodeLayout("Explosion", m) = AtFiftySix \cup IF m = 1 THEN HuePart ELSE CctPart(24)
    BY DEF DecodeLayout, AtFiftySix, HuePart, CctPart, Speed
  <2>4. ASSUME NEW m
        PROVE  DecodeLayout("Explosion", m) = DecodeLayout("Explosion", 0)
                 \/ DecodeLayout("Explosion", m) = DecodeLayout("Explosion", 1)
    <3>1. CASE m = 1
      BY <3>1
    <3>2. CASE m # 1
      <4>1. DecodeLayout("Explosion", m) = AtFiftySix \cup (CctPart(24))
        BY <2>1, <3>2, Zenon
      <4>2. DecodeLayout("Explosion", 0) = AtFiftySix \cup (CctPart(24))
        BY <2>1, ZeroOne, Zenon
      <4> QED  BY <4>1, <4>2, Zenon
    <3> QED  BY <3>1, <3>2
  <2>2. CASE mode = 0
    <3> DEFINE part == AtFiftySix \cup (CctPart(24))
    <3>2. DecodeLayout("Explosion", 0) = part
      BY <2>1, ZeroOne, Zenon
    <3>3. Apart(Head7 \cup part)
      BY DEF Apart, Place, Head7, AtFiftySix, CctPart
    <3>4. \A f \in part : f[1] \in Raw7 /\ f[3] = Width7("Explosion", f[1])
      BY DEF AtFiftySix, CctPart, Raw7, Width7
    <3>5. \A n \in {"high", "gmFlag", "gmHigh", "gm"} :
            (\E f \in part : f[1] = n) <=> (\E f \in part : f[1] = "cct")
      BY DEF AtFiftySix, CctPart
    <3>6. <<"mode", 60, 4>> \in part
      BY DEF AtFiftySix
    <3>7. <<"intensity", 46, 10>> \in part
      BY DEF AtFiftySix
    <3> HIDE DEF part
    <3> QED  BY <3>7, <1>5, <1>6, <2>4, <2>2, <3>2, <3>3, <3>4, <3>5, <3>6 DEF Sound7
  <2>3. CASE mode = 1
    <3> DEFINE part == AtFiftySix \cup (HuePart)
    <3>2. DecodeLayout("Explosion", 1) = part
      BY <2>1, ZeroOne, Zenon
    <3>3. Apart(Head7 \cup part)
      BY DEF Apart, Place, Head7, AtFiftySix, HuePart
    <3>4. \A f \in part : f[1] \in Raw7 /\ f[3] = Width7("Explosion", f[1])
      BY DEF AtFiftySix, HuePart, Raw7, Width7
    <3>5. \A n \in {"high", "gmFlag", "gmHigh", "gm"} :
            (\E f \in part : f[1] = n) <=> (\E f \in part : f[1] = "cct")
      BY DEF AtFiftySix, HuePart
    <3>6. <<"mode", 60, 4>> \in part
      BY DEF AtFiftySix
    <3>7. <<"intensity", 46, 10>> \in part
      BY DEF AtFiftySix
    <3> HIDE DEF part
    <3> QED  BY <3>7, <1>5, <1>6, <2>4, <2>3, <3>2, <3>3, <3>4, <3>5, <3>6 DEF Sound7
  <2> QED  BY <2>2, <2>3
<1> QED  BY <1>1, <1>2, <1>3, <1>4, <1>5 DEF ColorModes1

(* What effect() makes of the parameters: values that fit their fields,    *)
(* and the parameters themselves where they are in range.                  *)
Plain7 == {"intensity", "frequency", "speed", "trigger", "variant", "saturation", "hue", "mode",
           "gmFlag"}
Numbers(t) ==
  /\ \A n \in DOMAIN t \cap (Plain7 \cup {"kelvin", "gm"}) : t[n] \in Int
  /\ "gmFlag" \in DOMAIN t => t["gmFlag"] \in {0, 1}

(* The identifiers 0..14 are those of the effects, one each.             *)
LEMMA EffectId ==
  /\ \A e \in Effects1 : EffectIds[e] \in 0..14
  /\ \A i \in 0..14 : \E e \in Effects1 : EffectIds[e] = i
  /\ \A e, f \in Effects1 : EffectIds[e] = EffectIds[f] => e = f
<1> DEFINE Name(i) ==
     <<"Club Lights", "Paparazzi", "Lightning", "TV", "Candle", "Fire", "Strobe", "Explosion",
       "Faulty Bulb", "Pulsing", "Welding", "Cop Car", "Color Chase", "Party Lights",
       "Fireworks">>[i + 1]
           Named(e, i) == e \in Effects1 /\ EffectIds[e] = i /\ i \in 0..14 /\ Name(i) = e
           Listed(e) == \E i : Named(e, i)
           Used(i) == \E e : Named(e, i)
<1>1. Named("Club Lights", 0)
  BY DEF EffectIds, Effects1
<1>2. Named("Paparazzi", 1)
  BY DEF EffectIds, Effects1
<1>3. Named("Lightning", 2)
  BY DEF EffectIds, Effects1
<1>4. Named("TV", 3)
  BY DEF EffectIds, Effects1
<1>5. Named("Candle", 4)
  BY DEF EffectIds, Effects1
<1>6. Named("Fire", 5)
  BY DEF EffectIds, Effects1
<1>7. Named("Strobe", 6)
  BY DEF EffectIds, Effects1
<1>8. Named("Explosion", 7)
  BY DEF EffectIds, Effects1
<1>9. Named("Faulty Bulb", 8)
  BY DEF EffectIds, Effects1
<1>10. Named("Pulsing", 9)
  BY DEF EffectIds, Effects1
<1>11. Named("Welding", 10)
  BY DEF EffectIds, Effects1
<1>12. Named("Cop Car", 11)
  BY DEF EffectIds, Effects1
<1>13. Named("Color Chase", 12)
  BY DEF EffectIds, Effects1
<1>14. Named("Party Lights", 13)
  BY DEF EffectIds, Effects1
<1>15. Named("Fireworks", 14)
  BY DEF EffectIds, Effects1
<1> HIDE DEF Named
<1>16. Effects1 = {"Club Lights", "Paparazzi", "Lightning", "TV", "Candle", "Fire", "Strobe",
                   "Explosion", "Faulty Bulb", "Pulsing", "Welding", "Cop Car", "Color Chase",
                   "Party Lights", "Fireworks"}
  BY DEF Effects1, EffectIds
<1>17. \A e \in Effects1 : Listed(e)
  BY <1>1, <1>2, <1>3, <1>4, <1>5, <1>6, <1>7, <1>8, <1>9, <1>10, <1>11, <1>12,
     <1>13, <1>14, <1>15, <1>16, Zenon
<1>18. /\ Used(0) /\ Used(1) /\ Used(2) /\ Used(3) /\ Used(4) /\ Used(5) /\ Used(6) /\ Used(7)
       /\ Used(8) /\ Used(9) /\ Used(10) /\ Used(11) /\ Used(12) /\ Used(13) /\ Used(14)
  BY <1>1, <1>2, <1>3, <1>4, <1>5, <1>6, <1>7, <1>8, <1>9, <1>10, <1>11, <1>12,
     <1>13, <1>14, <1>15, Zenon
<1> HIDE DEF Listed, Used
<1>19. \A i \in 0..14 : Used(i)
  BY <1>18
<1> USE DEF Listed, Used
<1> HIDE DEF Name
<1>20. ASSUME NEW e \in Effects1 PROVE EffectIds[e] \in 0..14 /\ Name(EffectIds[e]) = e
  BY <1>17, Zenon DEF Named
<1>21. ASSUME NEW i \in 0..14 PROVE \E e \in Effects1 : EffectIds[e] = i
  BY <1>19, Zenon DEF Named
<1> QED  BY <1>20, <1>21, Zenon

(* The bounds that depend on the effect.                                 *)
LEMMA Limits ==
  ASSUME NEW e \in Effects1
  PROVE  /\ MaxRate(e) \in {10, 11} /\ MaxVariant(e) \in 0..7 /\ DefaultTrigger(e) \in 0..2
         /\ EffectIds[e] \in 0..14
<1>1. MaxRate(e) \in {10, 11}
  BY DEF MaxRate
<1>2. MaxVariant(e) \in 0..7
  BY DEF MaxVariant
<1>3. DefaultTrigger(e) \in 0..2
  BY DEF DefaultTrigger
<1>4. EffectIds[e] \in 0..14
  BY EffectId
<1> QED  BY <1>1, <1>2, <1>3, <1>4

(* A clamped value is in its range, and is the value where that was.     *)
LEMMA Clamps ==
  ASSUME NEW low \in Int, NEW high \in Int, low <= high, NEW v \in Int
  PROVE  Clamp(v, low, high) \in low..high /\ (v \in low..high => Clamp(v, low, high) = v)
  BY DEF Clamp

(* So is a parameter, or its default.                                    *)
LEMMA Clamped ==
  ASSUME NEW t, Numbers(t), NEW n \in Plain7, NEW low \in Int, NEW high \in Int, low <= high,
         NEW d \in Int
  PROVE  /\ Clamp(Given(t, n, d), low, high) \in low..high
         /\ n \in DOMAIN t /\ t[n] \in low..high => Clamp(Given(t, n, d), low, high) = t[n]
<1> DEFINE given == Given(t, n, d)
<1>1. given \in Int /\ (n \in DOMAIN t => given = t[n])
  BY DEF Given, Numbers
<1> HIDE DEF given
<1>2. Clamp(given, low, high) \in low..high /\ (given \in low..high => Clamp(given, low, high) = given)
  BY <1>1 DEF Clamp
<1> QED  BY <1>1, <1>2 DEF given

(* A parameter other than the colour temperature and the shift is sent   *)
(* as given where it is in range, and in range where it is not.          *)
LEMMA WirePlain ==
  ASSUME NEW e \in Effects1, NEW t, Numbers(t), NEW n \in Plain7
  PROVE  /\ EffectWire(e, t)[n] \in EffectRange(e, n)
         /\ n \in DOMAIN t /\ t[n] \in EffectRange(e, n) => EffectWire(e, t)[n] = t[n]
<1> DEFINE v == EffectWire(e, t)[n]
           range == EffectRange(e, n)
<1> SUFFICES v \in range /\ (n \in DOMAIN t /\ t[n] \in range => v = t[n])
  OBVIOUS
<1> HIDE DEF v, range
<1>10. ASSUME NEW d \in Int, NEW low \in Int, NEW high \in Int, low <= high,
             v = Clamp(Given(t, n, d), low, high), range = low..high
      PROVE  v \in range /\ (n \in DOMAIN t /\ t[n] \in range => v = t[n])
  <2>1. /\ Clamp(Given(t, n, d), low, high) \in low..high
        /\ n \in DOMAIN t /\ t[n] \in low..high => Clamp(Given(t, n, d), low, high) = t[n]
    BY <1>10, Clamped
  <2> QED  BY <1>10, <2>1, Zenon
<1>1. CASE n = "intensity"
  <2> DEFINE d == 180
             low == 0
             high == 1000
  <2>1. v = Clamp(Given(t, n, d), low, high)
    BY <1>1 DEF EffectWire, v
  <2>2. range = low..high
    BY <1>1 DEF EffectRange, range
  <2>3. d \in Int /\ low \in Int /\ high \in Int /\ low <= high
    BY Limits
  <2> HIDE DEF d, low, high
  <2> QED  BY <2>1, <2>2, <2>3, <1>10
<1>2. CASE n = "frequency"
  <2> DEFINE d == 5
             low == 1
             high == MaxRate(e)
  <2>1. v = Clamp(Given(t, n, d), low, high)
    BY <1>2 DEF EffectWire, v
  <2>2. range = low..high
    BY <1>2 DEF EffectRange, range
  <2>3. d \in Int /\ low \in Int /\ high \in Int /\ low <= high
    BY Limits
  <2> HIDE DEF d, low, high
  <2> QED  BY <2>1, <2>2, <2>3, <1>10
<1>3. CASE n = "speed"
  <2> DEFINE d == IF e = "Welding" THEN 18 ELSE 5
             low == IF e = "Welding" THEN 0 ELSE 1
             high == IF e = "Welding" THEN 127 ELSE 10
  <2>1. v = Clamp(Given(t, n, d), low, high)
    BY <1>3 DEF EffectWire, v
  <2>2. range = low..high
    <3>1. range = IF e = "Welding" THEN 0..127 ELSE 1..10
      BY <1>3 DEF EffectRange, range
    <3> QED  BY <3>1, Zenon
  <2>3. d \in Int /\ low \in Int /\ high \in Int /\ low <= high
    BY Limits
  <2> HIDE DEF d, low, high
  <2> QED  BY <2>1, <2>2, <2>3, <1>10
<1>4. CASE n = "trigger"
  <2> DEFINE d == DefaultTrigger(e)
             low == 0
             high == 3
  <2>1. v = Clamp(Given(t, n, d), low, high)
    BY <1>4 DEF EffectWire, v
  <2>2. range = low..high
    BY <1>4 DEF EffectRange, range
  <2>3. d \in Int /\ low \in Int /\ high \in Int /\ low <= high
    BY Limits
  <2> HIDE DEF d, low, high
  <2> QED  BY <2>1, <2>2, <2>3, <1>10
<1>5. CASE n = "variant"
  <2> DEFINE d == IF e = "Cop Car" THEN 2 ELSE 0
             low == 0
             high == MaxVariant(e)
  <2>1. v = Clamp(Given(t, n, d), low, high)
    BY <1>5 DEF EffectWire, v
  <2>2. range = low..high
    BY <1>5 DEF EffectRange, range
  <2>3. d \in Int /\ low \in Int /\ high \in Int /\ low <= high
    BY Limits
  <2> HIDE DEF d, low, high
  <2> QED  BY <2>1, <2>2, <2>3, <1>10
<1>6. CASE n = "saturation"
  <2> DEFINE d == 100
             low == 0
             high == 100
  <2>1. v = Clamp(Given(t, n, d), low, high)
    BY <1>6 DEF EffectWire, v
  <2>2. range = low..high
    BY <1>6 DEF EffectRange, range
  <2>3. d \in Int /\ low \in Int /\ high \in Int /\ low <= high
    BY Limits
  <2> HIDE DEF d, low, high
  <2> QED  BY <2>1, <2>2, <2>3, <1>10
<1>7. CASE n = "hue"
  <2> DEFINE d == 0
             low == 0
             high == 360
  <2>1. v = Clamp(Given(t, n, d), low, high)
    BY <1>7 DEF EffectWire, v
  <2>2. range = low..high
    BY <1>7 DEF EffectRange, range
  <2>3. d \in Int /\ low \in Int /\ high \in Int /\ low <= high
    BY Limits
  <2> HIDE DEF d, low, high
  <2> QED  BY <2>1, <2>2, <2>3, <1>10
<1>8. CASE n = "mode"
  <2> DEFINE d == 1
             low == 0
             high == 1
  <2>1. v = Clamp(Given(t, n, d), low, high)
    BY <1>8 DEF EffectWire, v
  <2>2. range = low..high
    BY <1>8 DEF EffectRange, range
  <2>3. d \in Int /\ low \in Int /\ high \in Int /\ low <= high
    BY Limits
  <2> HIDE DEF d, low, high
  <2> QED  BY <2>1, <2>2, <2>3, <1>10
<1>9. CASE n = "gmFlag"
  <2>1. EffectWire(e, t)[n] = Given(t, n, 0)
    BY <1>9 DEF EffectWire
  <2>2. EffectRange(e, n) = {0, 1}
    BY <1>9 DEF EffectRange
  <2>3. Given(t, n, 0) \in {0, 1} /\ (n \in DOMAIN t => Given(t, n, 0) = t[n])
    BY <1>9 DEF Given, Numbers
  <2> QED  BY <2>1, <2>2, <2>3, Zenon DEF v, range
<1> QED  BY <1>1, <1>2, <1>3, <1>4, <1>5, <1>6, <1>7, <1>8, <1>9, Zenon DEF Plain7

(* Temperature and green/magenta, as they are read back.                   *)
KelvinOf(w) == (w["cct"] + 1000 * w["high"]) * 10
GmOf(w) == IF w["gmFlag"] = 0 THEN w["gm"] * 10 ELSE w["gm"] + 100 * w["gmHigh"]
Tenfold(v, low, high) == \E n \in low..high : v = 10 * n

(* A temperature is sent in tens of kelvin.                              *)
LEMMA Tenths ==
  ASSUME NEW v \in Int
  PROVE  LET tens == Clamp(v, 800, 20000) \div 10
         IN /\ tens \in 80..2000 /\ Tenfold(10 * tens, 80, 2000)
            /\ Tenfold(v, 80, 2000) => v = 10 * tens
<1> DEFINE least == 800
           most == 20000
<1>1. least \in Int /\ most \in Int /\ least <= most
  OBVIOUS
<1> HIDE DEF least, most
<1> DEFINE near == Clamp(v, least, most)
<1>2. near \in least..most /\ (v \in least..most => near = v)
  BY <1>1, Clamps
<1> HIDE DEF near
<1>3. near \div 10 \in 80..2000
  BY <1>2 DEF least, most
<1>4. ASSUME NEW m \in 80..2000, v = 10 * m PROVE v = 10 * (near \div 10)
  BY <1>2, <1>4 DEF least, most
<1>5. Tenfold(10 * (near \div 10), 80, 2000)
  BY <1>3, SMTT(30) DEF Tenfold
<1>6. Tenfold(v, 80, 2000) => v = 10 * (near \div 10)
  BY <1>4 DEF Tenfold
<1> QED  BY <1>3, <1>5, <1>6 DEF near, least, most

(* A shift without the flag is sent in tens.                             *)
LEMMA CoarseTens ==
  ASSUME NEW gm \in 0..200
  PROVE  CoarseGm(gm) \in 0..20 /\ (Tenfold(gm, 0, 20) => gm = 10 * CoarseGm(gm))
<1>1. CoarseGm(gm) \in 0..20
  BY DEF CoarseGm
<1>2. ASSUME NEW m \in 0..20, gm = 10 * m PROVE gm = 10 * CoarseGm(gm)
  BY <1>2 DEF CoarseGm
<1> QED  BY <1>1, <1>2 DEF Tenfold

(* The fields of a white colour: they fit, and read as a temperature and *)
(* a shift in range, those given where they can be sent.                 *)
LEMMA WireColor ==
  ASSUME NEW e \in Effects1, NEW t, Numbers(t)
  PROVE  LET w == EffectWire(e, t)
         IN /\ w["cct"] \in 0..1000 /\ w["high"] \in {0, 1} /\ w["gmHigh"] \in {0, 1}
            /\ w["gm"] \in 0..100 /\ w["gmFlag"] \in {0, 1}
            /\ Tenfold(KelvinOf(w), 80, 2000) /\ GmOf(w) \in 0..200
            /\ w["gmFlag"] = 0 => Tenfold(GmOf(w), 0, 20)
            /\ "kelvin" \in DOMAIN t /\ Tenfold(t["kelvin"], 80, 2000) => KelvinOf(w) = t["kelvin"]
            /\ /\ "gm" \in DOMAIN t /\ t["gm"] \in 0..200
               /\ w["gmFlag"] = 0 => Tenfold(t["gm"], 0, 20)
               => GmOf(w) = t["gm"]
<1> DEFINE asked == Given(t, "kelvin", 5600)
           tens  == Clamp(asked, 800, 20000) \div 10
           given == Given(t, "gm", 100)
           gm    == Clamp(given, 0, 200)
           flag  == Given(t, "gmFlag", 0)
           w     == EffectWire(e, t)
<1>1. w["cct"] = IF tens > 1000 THEN tens - 1000 ELSE tens
  BY DEF EffectWire
<1>2. w["high"] = IF tens > 1000 THEN 1 ELSE 0
  BY DEF EffectWire
<1>3. w["gmFlag"] = flag
  BY DEF EffectWire
<1>4. w["gmHigh"] = IF flag = 1 /\ gm > 100 THEN 1 ELSE 0
  BY DEF EffectWire
<1>5. w["gm"] = IF flag = 0 THEN CoarseGm(gm) ELSE IF gm > 100 THEN gm - 100 ELSE gm
  BY DEF EffectWire
<1>6. asked \in Int /\ given \in Int /\ flag \in {0, 1}
  BY DEF Given, Numbers
<1>7. "kelvin" \in DOMAIN t => asked = t["kelvin"]
  BY DEF Given
<1>8. "gm" \in DOMAIN t => given = t["gm"]
  BY DEF Given
<1> HIDE DEF asked, given, flag, w
<1>9. gm \in 0..200 /\ (given \in 0..200 => given = gm)
  BY <1>6 DEF Clamp
<1> HIDE DEF gm
<1>10. tens \in 80..2000 /\ Tenfold(10 * tens, 80, 2000) /\ (Tenfold(asked, 80, 2000) => asked = 10 * tens)
  BY <1>6, Tenths
<1> HIDE DEF tens
<1>11. CoarseGm(gm) \in 0..20 /\ (Tenfold(gm, 0, 20) => gm = 10 * CoarseGm(gm))
  BY <1>9, CoarseTens
<1>12. w["cct"] \in 0..1000 /\ w["high"] \in {0, 1} /\ KelvinOf(w) = 10 * tens
  BY <1>1, <1>2, <1>10 DEF KelvinOf
<1>13. /\ w["gmHigh"] \in {0, 1} /\ w["gm"] \in 0..100 /\ w["gmFlag"] \in {0, 1}
       /\ GmOf(w) = IF flag = 0 THEN 10 * CoarseGm(gm) ELSE gm
  BY <1>3, <1>4, <1>5, <1>6, <1>9, <1>11 DEF GmOf
<1>14. GmOf(w) \in 0..200 /\ (w["gmFlag"] = 0 => Tenfold(GmOf(w), 0, 20))
  BY <1>3, <1>6, <1>9, <1>11, <1>13 DEF Tenfold
<1>15. "kelvin" \in DOMAIN t /\ Tenfold(t["kelvin"], 80, 2000) => KelvinOf(w) = t["kelvin"]
  BY <1>7, <1>10, <1>12
<1>16. /\ "gm" \in DOMAIN t /\ t["gm"] \in 0..200
       /\ w["gmFlag"] = 0 => Tenfold(t["gm"], 0, 20)
       => GmOf(w) = t["gm"]
  BY <1>8, <1>3, <1>9, <1>11, <1>13
<1> QED  BY <1>10, <1>12, <1>13, <1>14, <1>15, <1>16 DEF w

(* A wire value fits every field of its name.                              *)
LEMMA WireFits ==
  ASSUME NEW e \in Effects1, NEW t, Numbers(t), NEW n \in Raw7
  PROVE  EffectWire(e, t)[n] \in 0..(2^Width7(e, n) - 1) /\ Width7(e, n) \in 1..10
<1> DEFINE v == EffectWire(e, t)[n]
<1>1. Width7(e, n) \in 1..10
  BY DEF Width7, Raw7
<1>2. v \in 0..(Pow(Width7(e, n)) - 1)
  <2>1. ASSUME n \in Plain7 PROVE v \in EffectRange(e, n)
    BY <2>1, WirePlain
  <2>2. /\ n = "cct" => v \in 0..1000
        /\ n \in {"high", "gmHigh"} => v \in {0, 1}
        /\ n = "gm" => v \in 0..100
    BY WireColor
  <2> HIDE DEF v
  <2>3. CASE n = "cct"
    BY <2>2, <2>3 DEF Width7, Pow
  <2>4. CASE n = "high"
    BY <2>2, <2>4 DEF Width7, Pow
  <2>15. CASE n = "gmHigh"
    BY <2>2, <2>15 DEF Width7, Pow
  <2>5. CASE n = "gm"
    BY <2>2, <2>5 DEF Width7, Pow
  <2>6. CASE n = "gmFlag"
    BY <2>1, <2>6 DEF Width7, Pow, EffectRange, Plain7
  <2>7. CASE n = "trigger"
    BY <2>1, <2>7 DEF Width7, Pow, EffectRange, Plain7
  <2>8. CASE n = "frequency"
    BY <2>1, <2>8, Limits DEF Width7, Pow, EffectRange, Plain7
  <2>9. CASE n = "mode"
    BY <2>1, <2>9 DEF Width7, Pow, EffectRange, Plain7
  <2>10. CASE n = "saturation"
    BY <2>1, <2>10 DEF Width7, Pow, EffectRange, Plain7
  <2>11. CASE n = "hue"
    BY <2>1, <2>11 DEF Width7, Pow, EffectRange, Plain7
  <2>12. CASE n = "intensity"
    BY <2>1, <2>12 DEF Width7, Pow, EffectRange, Plain7
  <2>13. CASE n = "speed"
    BY <2>1, <2>13 DEF Width7, Pow, EffectRange, Plain7
  <2>14. CASE n = "variant"
    <3>1. v \in 0..MaxVariant(e)
      BY <2>1, <2>14 DEF EffectRange, Plain7
    <3>2. v \in 0..7
      BY <3>1, Limits
    <3>3. Width7(e, n) \in {4, 8, 10}
      BY <2>14 DEF Width7
    <3> QED  BY <3>2, <3>3 DEF Pow
  <2> QED  BY <2>3, <2>4, <2>5, <2>6, <2>7, <2>8, <2>9, <2>10, <2>11, <2>12, <2>13, <2>14,
              <2>15 DEF Raw7
<1> HIDE DEF v
<1>3. 2^Width7(e, n) = Pow(Width7(e, n))
  <2>1. Width7(e, n) \in 0..10
    BY <1>1
  <2> QED  BY <2>1, Powers, Zenon
<1> QED  BY <1>1, <1>2, <1>3 DEF v

(* The layouts an effect has, whatever the mode field says.              *)
LEMMA Layouts7 ==
  ASSUME NEW e \in Effects1, NEW m
  PROVE  /\ Sound7(e, DecodeLayout(e, m))
         /\ \E mode \in {0, 1} : DecodeLayout(e, m) = DecodeLayout(e, mode)
         /\ e \notin ColorModes1 => \A mode : DecodeLayout(e, m) = DecodeLayout(e, mode)
<1>1. CASE e \in ColorModes1
  <2>1. \A mode \in {0, 1} : Sound7(e, DecodeLayout(e, mode))
    BY <1>1, DualLayouts7
  <2>2. DecodeLayout(e, m) = DecodeLayout(e, 0) \/ DecodeLayout(e, m) = DecodeLayout(e, 1)
    <3>1. 0 \in {0, 1}
      OBVIOUS
    <3> QED  BY <1>1, <3>1, DualLayouts7, Zenon
  <2> QED  BY <1>1, <2>1, <2>2
<1>2. CASE e \notin ColorModes1
  <2>1. \A mode : Sound7(e, DecodeLayout(e, mode)) /\ DecodeLayout(e, 0) = DecodeLayout(e, mode)
    BY <1>2, SingleLayouts7
  <2> QED  BY <1>2, <2>1
<1> QED  BY <1>1, <1>2

(* The parameters a packet of an effect carries, and how they are read.    *)
NamesOf(layout) == {f[1] : f \in layout}
Carried7(e, m) ==
  LET names == NamesOf(DecodeLayout(e, m))
  IN (names \ {"cct", "high", "gm", "gmHigh"}) \cup IF "cct" \in names THEN {"kelvin", "gm"} ELSE {}

(* What decode_effect() makes of a packet.                               *)
LEMMA Shape7 ==
  ASSUME NEW p, NEW e \in Effects1, EffectIds[e] = Value(p, 64, 8)
  PROVE  LET s == DecodeEffect(p)
             m == Value(p, 60, 4)
             w == Fields(DecodeLayout(e, m), p)
         IN /\ DOMAIN s = {"on", "effect"} \cup Carried7(e, m)
            /\ s["effect"] = e /\ s["on"] = Value(p, 8, 1)
            /\ \A n \in Carried7(e, m) \ {"kelvin", "gm"} : s[n] = w[n] /\ n \in Plain7
            /\ "kelvin" \in Carried7(e, m) <=> "cct" \in NamesOf(DecodeLayout(e, m))
            /\ "gm" \in Carried7(e, m) <=> "cct" \in NamesOf(DecodeLayout(e, m))
            /\ "gmFlag" \in Carried7(e, m) <=> "cct" \in NamesOf(DecodeLayout(e, m))
            /\ "cct" \in NamesOf(DecodeLayout(e, m)) => s["kelvin"] = KelvinOf(w) /\ s["gm"] = GmOf(w)
<1> DEFINE s == DecodeEffect(p)
           m == Value(p, 60, 4)
           layout == DecodeLayout(e, m)
           w == Fields(layout, p)
           plain == [n \in DOMAIN w \ {"cct", "high", "gm", "gmHigh"} |-> w[n]]
           head == [on |-> Value(p, 8, 1), effect |-> e]
           color == IF "cct" \notin DOMAIN w THEN <<>>
                    ELSE [kelvin |-> (w.cct + 1000 * w.high) * 10,
                          gm |-> IF w.gmFlag = 0 THEN w.gm * 10 ELSE w.gm + 100 * w.gmHigh]
<1>1. (CHOOSE n \in Effects1 : EffectIds[n] = Value(p, 64, 8)) = e
  BY EffectId
<1> DEFINE Says(c) ==
     LET ws == Fields(DecodeLayout(c, Value(p, 60, 4)), p)
     IN [on |-> Value(p, 8, 1), effect |-> c]
        ++ [n \in DOMAIN ws \ {"cct", "high", "gm", "gmHigh"} |-> ws[n]]
        ++ IF "cct" \notin DOMAIN ws THEN <<>>
           ELSE [kelvin |-> (ws.cct + 1000 * ws.high) * 10,
                 gm |-> IF ws.gmFlag = 0 THEN ws.gm * 10 ELSE ws.gm + 100 * ws.gmHigh]
<1>16. s = Says(CHOOSE n \in Effects1 : EffectIds[n] = Value(p, 64, 8))
  BY Zenon DEF DecodeEffect
<1>2. s = head ++ plain ++ color
  <2>1. Says(e) = head ++ plain ++ color
    OBVIOUS
  <2> HIDE DEF Says, head, plain, color, s
  <2> QED  BY <1>16, <1>1, <2>1, Zenon
<1>3. Sound7(e, layout)
  BY Layouts7
<1>4. DOMAIN w = NamesOf(layout)
  BY FieldNames DEF NamesOf
<1>5. NamesOf(layout) \subseteq Raw7 /\ ("gmFlag" \in NamesOf(layout) <=> "cct" \in NamesOf(layout))
  BY <1>3 DEF Sound7, NamesOf
<1>6. DOMAIN head = {"on", "effect"} /\ head["on"] = Value(p, 8, 1) /\ head["effect"] = e
  OBVIOUS
<1>7. /\ DOMAIN plain = NamesOf(layout) \ {"cct", "high", "gm", "gmHigh"}
      /\ \A n \in DOMAIN plain : plain[n] = w[n]
  BY <1>4
<1>8. /\ "cct" \in NamesOf(layout) => /\ DOMAIN color = {"kelvin", "gm"}
                                      /\ color["kelvin"] = KelvinOf(w) /\ color["gm"] = GmOf(w)
      /\ "cct" \notin NamesOf(layout) => DOMAIN color = {}
  <2>1. CASE "cct" \in NamesOf(layout)
    <3>1. "cct" \in DOMAIN w
      BY <1>4, <2>1
    <3> HIDE DEF s, layout, w, plain, head, Says
    <3>2. color = [kelvin |-> KelvinOf(w), gm |-> GmOf(w)]
      BY <3>1, ZenonT(40) DEF KelvinOf, GmOf
    <3> HIDE DEF color
    <3> QED  BY <2>1, <3>2
  <2>2. CASE "cct" \notin NamesOf(layout)
    BY <1>4, <2>2
  <2> QED  BY <2>1, <2>2
<1> HIDE DEF s, layout, w, plain, head, color
<1>9. Carried7(e, m) = DOMAIN plain \cup DOMAIN color
  BY <1>7, <1>8, Zenon DEF Carried7, layout
<1>10. DOMAIN s = DOMAIN head \cup DOMAIN plain \cup DOMAIN color
  BY <1>2 DEF ++
<1>11. \A n \in DOMAIN plain : n \notin DOMAIN head /\ n \notin {"kelvin", "gm"} /\ n \in Plain7
  BY <1>5, <1>6, <1>7 DEF Raw7, Plain7
<1>12. \A n \in DOMAIN plain : s[n] = w[n]
  BY <1>2, <1>7, <1>11 DEF ++
<1>13. s["on"] = Value(p, 8, 1) /\ s["effect"] = e
  BY <1>2, <1>6 DEF ++
<1>14. "cct" \in NamesOf(layout) => s["kelvin"] = KelvinOf(w) /\ s["gm"] = GmOf(w)
  <2> SUFFICES ASSUME "cct" \in NamesOf(layout) PROVE s["kelvin"] = KelvinOf(w) /\ s["gm"] = GmOf(w)
    OBVIOUS
  <2>1. \A n \in {"kelvin", "gm"} : n \notin DOMAIN plain /\ n \notin DOMAIN head /\ n \in DOMAIN color
    BY <1>6, <1>8, <1>11
  <2>2. \A n \in {"kelvin", "gm"} : s[n] = color[n]
    BY <1>2, <2>1 DEF ++
  <2> QED  BY <1>8, <2>2
<1>15. "gmFlag" \in DOMAIN plain <=> "cct" \in NamesOf(layout)
  BY <1>5, <1>7
<1> QED  BY <1>6, <1>8, <1>9, <1>10, <1>11, <1>12, <1>13, <1>14, <1>15 DEF s, m, layout, w

(* A built packet carries the wire values.                                 *)
LEMMA Built7 ==
  ASSUME NEW e \in Effects1, NEW t, Numbers(t)
  PROVE  LET p == EncodeEffect(e, t)
             w == EffectWire(e, t)
             layout == DecodeLayout(e, w["mode"])
         IN /\ p.command = 7 /\ Value(p, 64, 8) = EffectIds[e] /\ Value(p, 8, 1) = 1
            /\ DecodeLayout(e, Value(p, 60, 4)) = layout
            /\ e \in ColorModes1 => Value(p, 60, 4) = w["mode"]
            /\ \A n \in NamesOf(layout) : Fields(layout, p)[n] = w[n]
<1> DEFINE w == EffectWire(e, t)
           p == EncodeEffect(e, t)
           layout == DecodeLayout(e, w["mode"])
           whole == Head7 \cup layout
<1>1. w["mode"] \in {0, 1} /\ w["id"] = EffectIds[e] /\ w["on"] = 1
  <2>1. "mode" \in Plain7 /\ EffectRange(e, "mode") = {0, 1}
    BY DEF Plain7, EffectRange
  <2>2. w["mode"] \in EffectRange(e, "mode")
    BY <2>1, WirePlain
  <2>3. w["id"] = EffectIds[e] /\ w["on"] = 1
    BY DEF EffectWire
  <2> QED  BY <2>1, <2>2, <2>3
<1>2. p = Packet(7, EncodeLayout(e, w["mode"]), w)
  BY DEF EncodeEffect
<1>3. \A n \in Raw7 : w[n] \in 0..(2^Width7(e, n) - 1)
  BY WireFits
<1> HIDE DEF w, p
<1>4. EncodeLayout(e, w["mode"]) = whole /\ Sound7(e, layout)
  BY <1>1, SingleLayouts7, DualLayouts7
<1>5. p = Packet(7, whole, w) /\ Apart(whole)
  BY <1>2, <1>4 DEF Sound7
<1>6. \A f \in layout : f[1] \in Raw7 /\ f[3] = Width7(e, f[1])
  BY <1>4 DEF Sound7
<1>7. \A f \in layout : w[f[1]] \in 0..(2^f[3] - 1)
  BY <1>3, <1>6
<1> HIDE DEF layout
<1>8. \A f \in layout : Value(p, f[2], f[3]) = w[f[1]]
  BY <1>5, <1>7, ReadBack
<1> DEFINE on == <<"on", 8, 1>>
           id == <<"id", 64, 8>>
<1>9. on \in whole /\ on[1] = "on" /\ on[2] = 8 /\ on[3] = 1 /\ id \in whole /\ id[1] = "id" /\ id[2] = 64 /\ id[3] = 8
  BY DEF Head7
<1>10. w["on"] \in 0..(2^1 - 1) /\ w["id"] \in 0..(2^8 - 1)
  BY <1>1, Limits
<1> HIDE DEF on, id, whole
<1>11. w[on[1]] \in 0..(2^on[3] - 1) /\ w[id[1]] \in 0..(2^id[3] - 1)
  BY <1>9, <1>10, Zenon
<1>12. Value(p, on[2], on[3]) = w[on[1]] /\ Value(p, id[2], id[3]) = w[id[1]]
  <2>1. ASSUME NEW f \in whole, w[f[1]] \in 0..(2^f[3] - 1) PROVE Value(p, f[2], f[3]) = w[f[1]]
    BY <1>5, <2>1, ReadBack
  <2> QED  BY <1>9, <1>11, <2>1, Zenon
<1>13. Value(p, 64, 8) = EffectIds[e] /\ Value(p, 8, 1) = 1
  BY <1>1, <1>9, <1>12, Zenon
<1>14. e \in ColorModes1 => Value(p, 60, 4) = w["mode"]
  <2> DEFINE f == <<"mode", 60, 4>>
  <2>1. f[1] = "mode" /\ f[2] = 60 /\ f[3] = 4 /\ (e \in ColorModes1 => f \in layout)
    BY <1>4 DEF Sound7
  <2> HIDE DEF f
  <2>2. e \in ColorModes1 => Value(p, f[2], f[3]) = w[f[1]]
    BY <1>8, <2>1
  <2> QED  BY <2>1, <2>2, Zenon
<1>15. DecodeLayout(e, Value(p, 60, 4)) = layout
  <2>1. CASE e \in ColorModes1
    BY <1>14, <2>1, Zenon DEF layout
  <2>2. CASE e \notin ColorModes1
    BY <2>2, Layouts7, Zenon DEF layout
  <2> QED  BY <2>1, <2>2
<1>16. Apart(layout)
  BY <1>5 DEF Apart, whole
<1>17. \A n \in NamesOf(layout) : Fields(layout, p)[n] = w[n]
  <2> SUFFICES ASSUME NEW f \in layout PROVE Fields(layout, p)[f[1]] = w[f[1]]
    BY DEF NamesOf
  <2> QED  BY <1>8, <1>16, ReadField
<1>18. p.command = 7
  BY <1>5 DEF Packet
<1> QED  BY <1>13, <1>14, <1>15, <1>17, <1>18 DEF p, w, layout

(* What the fixture and the app hear of it.                                *)
Colored == {"kelvin", "gm"}
Legal7(e, t, n) ==
  /\ t[n] \in EffectRange(e, n)
  /\ n = "kelvin" => Tenfold(t[n], 80, 2000)
  /\ n = "gm" => (Given(t, "gmFlag", 0) = 0 => Tenfold(t[n], 0, 20))

Hears7(e, t, p, s, m) ==
  /\ p.command = 7 /\ Value(p, 64, 8) = EffectIds[e]
  /\ DOMAIN s = {"on", "effect"} \cup Carried7(e, m) /\ s["on"] = 1 /\ s["effect"] = e
  /\ \A n \in Carried7(e, m) : /\ s[n] \in EffectRange(e, n)
                               /\ n \in DOMAIN t /\ Legal7(e, t, n) => s[n] = t[n]

(* A packet that effect() builds is read as what was given, where that   *)
(* is legal, and in range in any case.                                   *)
LEMMA Heard7 ==
  ASSUME NEW e \in Effects1, NEW t, Numbers(t)
  PROVE  LET p == EncodeEffect(e, t)
         IN Hears7(e, t, p, DecodeEffect(p), EffectWire(e, t)["mode"])
<1> DEFINE p == EncodeEffect(e, t)
           s == DecodeEffect(p)
           w == EffectWire(e, t)
           m == w["mode"]
           layout == DecodeLayout(e, m)
           read == Fields(layout, p)
<1>1. /\ p.command = 7 /\ Value(p, 64, 8) = EffectIds[e] /\ Value(p, 8, 1) = 1
      /\ DecodeLayout(e, Value(p, 60, 4)) = layout
      /\ \A n \in NamesOf(layout) : read[n] = w[n]
  BY Built7
<1>7. EffectIds[e] = Value(p, 64, 8)
  BY <1>1
<1>2. Carried7(e, Value(p, 60, 4)) = Carried7(e, m)
  BY <1>1, Zenon DEF Carried7
<1> HIDE DEF p, w
<1>3. /\ DOMAIN s = {"on", "effect"} \cup Carried7(e, m) /\ s["on"] = 1 /\ s["effect"] = e
      /\ \A n \in Carried7(e, m) \ {"kelvin", "gm"} : s[n] = read[n] /\ n \in Plain7
      /\ "kelvin" \in Carried7(e, m) <=> "cct" \in NamesOf(layout)
      /\ "gm" \in Carried7(e, m) <=> "cct" \in NamesOf(layout)
      /\ "cct" \in NamesOf(layout) => s["kelvin"] = KelvinOf(read) /\ s["gm"] = GmOf(read)
  <2> DEFINE k == Value(p, 60, 4)
             there == DecodeLayout(e, k)
             seen == Fields(there, p)
  <2>1. /\ DOMAIN s = {"on", "effect"} \cup Carried7(e, k)
        /\ s["effect"] = e /\ s["on"] = Value(p, 8, 1)
        /\ \A n \in Carried7(e, k) \ {"kelvin", "gm"} : s[n] = seen[n] /\ n \in Plain7
        /\ "kelvin" \in Carried7(e, k) <=> "cct" \in NamesOf(there)
        /\ "gm" \in Carried7(e, k) <=> "cct" \in NamesOf(there)
        /\ "cct" \in NamesOf(there) => s["kelvin"] = KelvinOf(seen) /\ s["gm"] = GmOf(seen)
    BY <1>7, Shape7
  <2>2. there = layout /\ seen = read /\ Carried7(e, k) = Carried7(e, m)
    BY <1>1, <1>2, Zenon
  <2> HIDE DEF k, there, seen, s, layout, read, m
  <2> QED  BY <1>1, <2>1, <2>2
<1> HIDE DEF s, m, layout, read
<1>4. ASSUME NEW n \in Carried7(e, m), n \notin Colored
      PROVE  s[n] \in EffectRange(e, n) /\ (n \in DOMAIN t /\ Legal7(e, t, n) => s[n] = t[n])
  <2>1. n \in NamesOf(layout)
    BY <1>4, Zenon DEF Carried7, layout, Colored
  <2>2. s[n] = w[n] /\ n \in Plain7
    BY <1>1, <1>3, <1>4, <2>1, Zenon DEF Colored
  <2>3. /\ w[n] \in EffectRange(e, n)
        /\ n \in DOMAIN t /\ t[n] \in EffectRange(e, n) => w[n] = t[n]
    BY <2>2, WirePlain DEF w
  <2> QED  BY <2>2, <2>3 DEF Legal7
<1>5. ASSUME NEW n \in Carried7(e, m), n \in Colored
      PROVE  s[n] \in EffectRange(e, n) /\ (n \in DOMAIN t /\ Legal7(e, t, n) => s[n] = t[n])
  <2>1. "cct" \in NamesOf(layout)
    BY <1>3, <1>5, Zenon DEF Colored
  <2>2. {"cct", "high", "gmFlag", "gmHigh", "gm"} \subseteq NamesOf(layout)
    <3>1. Sound7(e, layout)
      BY Layouts7 DEF layout
    <3> QED  BY <2>1, <3>1 DEF Sound7, NamesOf
  <2>3. KelvinOf(read) = KelvinOf(w) /\ GmOf(read) = GmOf(w)
    <3>1. /\ read["cct"] = w["cct"] /\ read["high"] = w["high"] /\ read["gmFlag"] = w["gmFlag"]
          /\ read["gmHigh"] = w["gmHigh"] /\ read["gm"] = w["gm"]
      BY <1>1, <2>2
    <3>2. KelvinOf(read) = KelvinOf(w)
      BY <3>1 DEF KelvinOf
    <3>3. GmOf(read) = GmOf(w)
      BY <3>1, Zenon DEF GmOf
    <3> QED  BY <3>2, <3>3
  <2>4. /\ Tenfold(KelvinOf(w), 80, 2000) /\ GmOf(w) \in 0..200
        /\ "kelvin" \in DOMAIN t /\ Tenfold(t["kelvin"], 80, 2000) => KelvinOf(w) = t["kelvin"]
        /\ /\ "gm" \in DOMAIN t /\ t["gm"] \in 0..200
           /\ w["gmFlag"] = 0 => Tenfold(t["gm"], 0, 20)
           => GmOf(w) = t["gm"]
    BY WireColor DEF w
  <2>5. w["gmFlag"] = Given(t, "gmFlag", 0)
    BY DEF w, EffectWire
  <2>6. CASE n = "kelvin"
    <3> DEFINE v == KelvinOf(w)
    <3>1. Tenfold(v, 80, 2000) /\ ("kelvin" \in DOMAIN t /\ Tenfold(t["kelvin"], 80, 2000) => v = t["kelvin"])
      BY <2>4
    <3> HIDE DEF v
    <3>2. v \in 800..20000
      <4>1. PICK d \in 80..2000 : v = 10 * d
        BY <3>1 DEF Tenfold
      <4> QED  BY <4>1, SMTT(30)
    <3>3. v \in EffectRange(e, n)
      BY <2>6, <3>2 DEF EffectRange
    <3>4. s[n] = v
      BY <1>3, <2>1, <2>3, <2>6, Zenon DEF v
    <3>5. n \in DOMAIN t /\ Legal7(e, t, n) => v = t[n]
      BY <2>6, <3>1 DEF Legal7
    <3> QED  BY <3>3, <3>4, <3>5, Zenon
  <2>7. CASE n = "gm"
    <3>1. EffectRange(e, n) = 0..200
      BY <2>7 DEF EffectRange
    <3>2. s[n] = GmOf(w)
      BY <1>3, <2>1, <2>3, <2>7, Zenon
    <3>3. ASSUME n \in DOMAIN t, Legal7(e, t, n) PROVE GmOf(w) = t[n]
      <4>1. "gm" \in DOMAIN t /\ t["gm"] \in 0..200 /\ (w["gmFlag"] = 0 => Tenfold(t["gm"], 0, 20))
        BY <2>5, <2>7, <3>1, <3>3 DEF Legal7
      <4> QED  BY <2>4, <2>7, <4>1
    <3> QED  BY <2>4, <3>1, <3>2, <3>3
  <2> QED  BY <1>5, <2>6, <2>7, Zenon DEF Colored
<1>6. Hears7(e, t, p, s, m)
  BY <1>1, <1>3, <1>4, <1>5 DEF Hears7
<1> QED  BY <1>6, Zenon DEF p, s, w, m

(* A packet in range, as it is read, and the one rebuilt from it.          *)
LEMMA Integral ==
  ASSUME NEW e \in Effects1, NEW n \in Plain7 \cup Colored, NEW v \in EffectRange(e, n)
  PROVE  v \in Int
<1>1. MaxRate(e) \in Int /\ MaxVariant(e) \in Int
  BY Limits
<1> DEFINE rates == 1..MaxRate(e)
           variants == 0..MaxVariant(e)
<1>2. \A r \in rates \cup variants : r \in Int
  BY <1>1
<1> HIDE DEF rates, variants
<1>3. CASE n \in {"frequency", "variant"}
  <2>1. EffectRange(e, n) = rates \/ EffectRange(e, n) = variants
    <3>1. n = "frequency" => EffectRange(e, n) = 1..MaxRate(e)
      BY DEF EffectRange
    <3>2. n = "variant" => EffectRange(e, n) = 0..MaxVariant(e)
      BY DEF EffectRange
    <3> QED  BY <1>3, <3>1, <3>2, Zenon DEF rates, variants
  <2> QED  BY <1>2, <2>1
<1>4. CASE n \notin {"frequency", "variant"}
  <2>1. n \in {"intensity", "speed", "trigger", "kelvin", "gm", "saturation", "hue", "mode", "gmFlag"}
    BY <1>4, SMTT(30) DEF Plain7, Colored
  <2>2. v \in 0..20000
    BY <2>1 DEF EffectRange
  <2> QED  BY <2>2
<1> QED  BY <1>3, <1>4

(* The parameters there are.                                             *)
LEMMA Carries7 ==
  ASSUME NEW e \in Effects1, NEW m
  PROVE  Carried7(e, m) \subseteq Plain7 \cup Colored
<1> DEFINE layout == DecodeLayout(e, m)
<1>3. Sound7(e, layout)
  BY Layouts7
<1>1. \A n \in NamesOf(layout) : n \in Raw7
  BY <1>3 DEF Sound7, NamesOf
<1> HIDE DEF layout
<1>2. Raw7 \ {"cct", "high", "gm", "gmHigh"} \subseteq Plain7
  BY DEF Raw7, Plain7
<1> QED  BY <1>1, <1>2 DEF Carried7, layout, Colored

Ranged(p) ==
  /\ Value(p, 64, 8) \in 0..14
  /\ \A n \in DOMAIN DecodeEffect(p) \ {"effect", "on"} :
       DecodeEffect(p)[n] \in EffectRange(DecodeEffect(p).effect, n)

(* InRange for command 7.                                                *)
LEMMA InRange7 ==
  ASSUME NEW p, p.command = 7
  PROVE  InRange(p) <=> Ranged(p)
<1>1. Decoded(p) = DecodeEffect(p)
  BY DEF Decoded
<1> QED  BY <1>1 DEF InRange, Ranged

(* What a state in range says.                                             *)
Reads7(s, e, m) ==
  /\ m \in {0, 1} /\ DOMAIN s = {"on", "effect"} \cup Carried7(e, m) /\ s["effect"] = e
  /\ Carried7(e, m) \subseteq Plain7 \cup Colored
  /\ \A n \in Carried7(e, m) : s[n] \in EffectRange(e, n)
  /\ e \in ColorModes1 => "mode" \in Carried7(e, m) /\ s["mode"] = m
  /\ "gm" \in Carried7(e, m) <=> "gmFlag" \in Carried7(e, m)
  /\ "kelvin" \in Carried7(e, m) => Tenfold(s["kelvin"], 80, 2000)
  /\ "gm" \in Carried7(e, m) => (s["gmFlag"] = 0 => Tenfold(s["gm"], 0, 20))

(* A packet in range is read as a state whose every value can be sent.   *)
LEMMA Read7 ==
  ASSUME NEW p, Ranged(p)
  PROVE  \E e \in Effects1, m \in {0, 1} :
           EffectIds[e] = Value(p, 64, 8) /\ Reads7(DecodeEffect(p), e, m)
<1>1. PICK e \in Effects1 : EffectIds[e] = Value(p, 64, 8)
  BY EffectId DEF Ranged
<1> DEFINE k == Value(p, 60, 4)
           layout == DecodeLayout(e, k)
           w == Fields(layout, p)
           s == DecodeEffect(p)
           m == IF e \in ColorModes1 THEN k ELSE 0
<1>2. /\ DOMAIN s = {"on", "effect"} \cup Carried7(e, k)
      /\ s["effect"] = e
      /\ \A n \in Carried7(e, k) \ {"kelvin", "gm"} : s[n] = w[n] /\ n \in Plain7
      /\ "kelvin" \in Carried7(e, k) <=> "cct" \in NamesOf(layout)
      /\ "gm" \in Carried7(e, k) <=> "cct" \in NamesOf(layout)
      /\ "gmFlag" \in Carried7(e, k) <=> "cct" \in NamesOf(layout)
      /\ "cct" \in NamesOf(layout) => s["kelvin"] = KelvinOf(w) /\ s["gm"] = GmOf(w)
  BY <1>1, Shape7
<1>3. Sound7(e, layout)
  BY Layouts7
<1>4. Apart(layout)
  BY <1>3 DEF Sound7, Apart
<1>5. Carried7(e, k) \subseteq Plain7 \cup Colored
  BY Carries7
<1>6. "on" \notin Plain7 \cup Colored /\ "effect" \notin Plain7 \cup Colored
  BY DEF Plain7, Colored
<1> HIDE DEF s, w, layout, k
<1>7. ASSUME NEW n \in Carried7(e, k) PROVE s[n] \in EffectRange(e, n)
  <2>1. n \in DOMAIN s \ {"effect", "on"}
    BY <1>2, <1>5, <1>6, Zenon
  <2>2. \A j \in DOMAIN s \ {"effect", "on"} : s[j] \in EffectRange(s.effect, j)
    BY DEF Ranged, s
  <2> QED  BY <1>2, <2>1, <2>2
<1>8. ASSUME e \in ColorModes1 PROVE "mode" \in Carried7(e, k) /\ s["mode"] = k /\ k \in {0, 1}
  <2> DEFINE f == <<"mode", 60, 4>>
  <2>1. f \in layout /\ f[1] = "mode" /\ f[2] = 60 /\ f[3] = 4
    BY <1>3, <1>8 DEF Sound7
  <2>2. "mode" \in Carried7(e, k)
    <3>1. "mode" \in NamesOf(layout)
      BY <2>1 DEF NamesOf
    <3> QED  BY <3>1 DEF Carried7, layout
  <2> HIDE DEF f
  <2>3. w[f[1]] = Value(p, f[2], f[3])
    BY <1>4, <2>1, ReadField DEF w
  <2>4. w["mode"] = k
    BY <2>1, <2>3, Zenon DEF k
  <2>5. s["mode"] = k
    BY <1>2, <2>2, <2>4
  <2>6. EffectRange(e, "mode") = {0, 1}
    BY DEF EffectRange
  <2> QED  BY <1>7, <2>2, <2>5, <2>6
<1>9. m \in {0, 1}
  BY <1>8
<1>10. Carried7(e, m) = Carried7(e, k)
  <2>1. DecodeLayout(e, m) = DecodeLayout(e, k)
    <3>1. CASE e \in ColorModes1
      BY <3>1, Zenon
    <3>2. CASE e \notin ColorModes1
      BY <3>2, Layouts7
    <3> QED  BY <3>1, <3>2
  <2> QED  BY <2>1, Zenon DEF Carried7
<1>11. ASSUME "cct" \in NamesOf(layout)
       PROVE  /\ Tenfold(s["kelvin"], 80, 2000)
              /\ s["gmFlag"] = 0 => Tenfold(s["gm"], 0, 20)
  <2>1. {"cct", "high", "gmFlag", "gmHigh", "gm"} \subseteq NamesOf(layout)
    BY <1>3, <1>11 DEF Sound7, NamesOf
  <2>2. ASSUME NEW n \in NamesOf(layout) PROVE w[n] \in Int
    <3>1. PICK f \in layout : f[1] = n
      BY DEF NamesOf
    <3>2. w[f[1]] = Value(p, f[2], f[3])
      BY <1>4, ReadField DEF w
    <3>3. f[2] \in Int /\ f[3] \in 1..10
      BY <1>4 DEF Apart, Place
    <3>4. Value(p, f[2], f[3]) \in 0..(2^f[3] - 1)
      BY <3>3, ValueBound
    <3> QED  BY <3>1, <3>2, <3>4
  <2>3. w["cct"] \in Int /\ w["high"] \in Int /\ w["gm"] \in Int
    BY <2>1, <2>2
  <2>4. Tenfold(s["kelvin"], 80, 2000)
    <3> DEFINE a == w["cct"]
               b == w["high"]
               v == s["kelvin"]
    <3>1. EffectRange(e, "kelvin") = 800..20000
      BY DEF EffectRange
    <3>2. v \in EffectRange(e, "kelvin")
      BY <1>2, <1>7, <1>11, SMTT(30)
    <3>7. v \in 800..20000
      <4>1. \A x \in EffectRange(e, "kelvin") : x \in 800..20000
        BY DEF EffectRange
      <4> HIDE DEF v
      <4> QED  BY <3>2, <4>1, SMTT(30)
    <3>3. v = (a + 1000 * b) * 10
      BY <1>2, <1>11, Zenon DEF KelvinOf
    <3>4. a \in Int /\ b \in Int
      BY <2>3
    <3> SUFFICES Tenfold(v, 80, 2000)
      OBVIOUS
    <3> HIDE DEF a, b, v
    <3> DEFINE c == a + 1000 * b
    <3>5. c \in Int /\ v = 10 * c
      BY <3>3, <3>4
    <3> HIDE DEF c
    <3>6. c \in 80..2000
      BY <3>5, <3>7
    <3> QED  BY <3>5, <3>6 DEF Tenfold
  <2>6. ASSUME s["gmFlag"] = 0 PROVE Tenfold(s["gm"], 0, 20)
    <3>1. s["gmFlag"] = w["gmFlag"]
      BY <1>2, <1>11
    <3>2. s["gm"] = w["gm"] * 10
      BY <1>2, <1>11, <2>6, <3>1 DEF GmOf
    <3>3. s["gm"] \in 0..200
      <4>1. EffectRange(e, "gm") = 0..200
        BY DEF EffectRange
      <4>2. s["gm"] \in EffectRange(e, "gm")
        BY <1>2, <1>7, <1>11
      <4> QED  BY <4>1, <4>2
    <3>4. w["gm"] \in 0..20
      BY <2>3, <3>2, <3>3
    <3> QED  BY <2>3, <3>2, <3>4 DEF Tenfold
  <2> QED  BY <2>4, <2>6
<1> HIDE DEF m
<1>12. e \in ColorModes1 => m = k
  BY DEF m
<1>13. Reads7(s, e, m)
  BY <1>2, <1>5, <1>7, <1>8, <1>9, <1>10, <1>11, <1>12 DEF Reads7
<1> QED  BY <1>1, <1>9, <1>13 DEF s

(* What a user may ask of an effect: legal values, the green/magenta shift *)
(* with its kind.                                                          *)
Legal(e, patch) ==
  /\ DOMAIN patch \subseteq Plain7 \cup Colored
  /\ \A n \in DOMAIN patch : Legal7(e, patch, n)
  /\ "gm" \in DOMAIN patch <=> "gmFlag" \in DOMAIN patch

(* The packet q rebuilt from the packet p.                                 *)
Kept7(p, q, patch) ==
  /\ q.command = 7 /\ Value(q, 64, 8) = Value(p, 64, 8) /\ Ranged(q)
  /\ Keeps(DecodeEffect(q), DecodeEffect(p), patch)

(* A running effect rebuilt with a legal patch is in range, and keeps    *)
(* all the patch leaves alone.                                           *)
LEMMA Keep7 ==
  ASSUME NEW p, Ranged(p), NEW patch, Legal(DecodeEffect(p).effect, patch), DefaultKelvin \in Int
  PROVE  Kept7(p, EffectPayload(DecodeEffect(p), patch), patch)
<1> DEFINE s == DecodeEffect(p)
<1>1. PICK e \in Effects1, m \in {0, 1} : EffectIds[e] = Value(p, 64, 8) /\ Reads7(s, e, m)
  BY Read7
<1>2. /\ DOMAIN s = {"on", "effect"} \cup Carried7(e, m) /\ s["effect"] = e
      /\ Carried7(e, m) \subseteq Plain7 \cup Colored
      /\ \A n \in Carried7(e, m) : s[n] \in EffectRange(e, n)
      /\ e \in ColorModes1 => "mode" \in Carried7(e, m) /\ s["mode"] = m
      /\ "gm" \in Carried7(e, m) <=> "gmFlag" \in Carried7(e, m)
      /\ "kelvin" \in Carried7(e, m) => Tenfold(s["kelvin"], 80, 2000)
      /\ "gm" \in Carried7(e, m) => (s["gmFlag"] = 0 => Tenfold(s["gm"], 0, 20))
  BY <1>1 DEF Reads7
<1>3. Legal(e, patch)
  BY <1>2
<1> HIDE DEF s
<1> DEFINE kept == IF s.effect # "Welding" /\ Given(s, "speed", 0) = 0
                   THEN Restrict(s, DOMAIN s \ {"speed"}) ELSE s
           last == [kelvin |-> DefaultKelvin, hue |-> 0, gm |-> 100]
           t == patch ++ kept ++ last
           q == EffectPayload(s, patch)
           now == DecodeEffect(q)
<1>4. DOMAIN kept = DOMAIN s /\ \A n \in DOMAIN s : kept[n] = s[n]
  <2>1. CASE e = "Welding"
    BY <1>2, <2>1
  <2>2. CASE "speed" \notin DOMAIN s
    <3>1. DOMAIN s \ {"speed"} = DOMAIN s
      BY <2>2
    <3>2. kept = Restrict(s, DOMAIN s) \/ kept = s
      BY <3>1, Zenon
    <3> HIDE DEF kept
    <3> QED  BY <3>2 DEF Restrict
  <2>3. CASE e # "Welding" /\ "speed" \in DOMAIN s
    <3>1. "speed" \in Carried7(e, m)
      BY <1>2, <2>3
    <3>2. s["speed"] \in EffectRange(e, "speed")
      BY <1>2, <3>1
    <3>3. \A v \in EffectRange(e, "speed") : v \in 1..10
      BY <2>3 DEF EffectRange
    <3>4. s["speed"] # 0
      BY <3>2, <3>3
    <3>5. Given(s, "speed", 0) # 0
      BY <2>3, <3>4 DEF Given
    <3> QED  BY <3>5
  <2> QED  BY <2>1, <2>2, <2>3
<1>5. q = EncodeEffect(e, t)
  <2>1. q = EncodeEffect(s.effect, t)
    BY Zenon DEF EffectPayload
  <2> HIDE DEF q, t
  <2> QED  BY <1>2, <2>1
<1> HIDE DEF kept, q
<1>6. DOMAIN last = {"kelvin", "hue", "gm"} /\ \A n \in {"kelvin", "hue", "gm"} : last[n] \in Int
  OBVIOUS
<1> HIDE DEF last
<1>7. /\ DOMAIN t = DOMAIN patch \cup DOMAIN s \cup {"kelvin", "hue", "gm"}
      /\ \A n \in DOMAIN patch : t[n] = patch[n]
      /\ \A n \in DOMAIN s \ DOMAIN patch : t[n] = s[n]
      /\ \A n \in {"kelvin", "hue", "gm"} \ (DOMAIN patch \cup DOMAIN s) : t[n] = last[n]
  BY <1>4, <1>6 DEF ++
<1> HIDE DEF t
<1>8. \A n \in DOMAIN patch : n \in Plain7 \cup Colored /\ patch[n] \in EffectRange(e, n)
  BY <1>3 DEF Legal, Legal7
<1>9. \A n \in DOMAIN t \cap (Plain7 \cup Colored) : t[n] \in Int
  <2> SUFFICES ASSUME NEW n \in DOMAIN t \cap (Plain7 \cup Colored) PROVE t[n] \in Int
    OBVIOUS
  <2>1. CASE n \in DOMAIN patch
    BY <1>7, <1>8, <2>1, Integral
  <2>2. CASE n \in DOMAIN s \ DOMAIN patch
    <3>1. n \in Carried7(e, m)
      BY <1>2, <2>2 DEF Plain7, Colored
    <3> QED  BY <1>2, <1>7, <2>2, <3>1, Integral
  <2>3. CASE n \in {"kelvin", "hue", "gm"} \ (DOMAIN patch \cup DOMAIN s)
    BY <1>6, <1>7, <2>3
  <2> QED  BY <1>7, <2>1, <2>2, <2>3
<1>10. "gmFlag" \in DOMAIN t => t["gmFlag"] \in {0, 1}
  <2> SUFFICES ASSUME "gmFlag" \in DOMAIN t PROVE t["gmFlag"] \in {0, 1}
    OBVIOUS
  <2>1. \A v \in EffectRange(e, "gmFlag") : v \in {0, 1}
    BY DEF EffectRange
  <2>2. t["gmFlag"] \in EffectRange(e, "gmFlag")
    <3>1. CASE "gmFlag" \in DOMAIN patch
      BY <1>7, <1>8, <3>1
    <3>2. CASE "gmFlag" \notin DOMAIN patch
      <4>1. "gmFlag" \in DOMAIN s /\ "gmFlag" \in Carried7(e, m)
        BY <1>2, <1>7, <3>2
      <4> QED  BY <1>2, <1>7, <3>2, <4>1
    <3> QED  BY <3>1, <3>2
  <2> QED  BY <2>1, <2>2
<1>11. Numbers(t)
  BY <1>9, <1>10 DEF Numbers, Colored
<1> DEFINE k == EffectWire(e, t)["mode"]
<1>12. /\ q.command = 7 /\ Value(q, 64, 8) = EffectIds[e]
       /\ DOMAIN now = {"on", "effect"} \cup Carried7(e, k) /\ now["on"] = 1 /\ now["effect"] = e
       /\ \A n \in Carried7(e, k) : /\ now[n] \in EffectRange(e, n)
                                    /\ n \in DOMAIN t /\ Legal7(e, t, n) => now[n] = t[n]
  <2>1. Hears7(e, t, EncodeEffect(e, t), DecodeEffect(EncodeEffect(e, t)), k)
    BY <1>11, Heard7
  <2>2. Hears7(e, t, q, now, k)
    BY <1>5, <2>1, Zenon
  <2> HIDE DEF now, k
  <2> QED  BY <2>2 DEF Hears7
<1>13. "mode" \notin DOMAIN patch => Carried7(e, k) = Carried7(e, m)
  <2> SUFFICES ASSUME "mode" \notin DOMAIN patch PROVE Carried7(e, k) = Carried7(e, m)
    OBVIOUS
  <2>1. CASE e \in ColorModes1
    <3>1. "mode" \in DOMAIN s /\ t["mode"] = m /\ "mode" \in DOMAIN t /\ t["mode"] \in EffectRange(e, "mode")
      BY <1>2, <1>7, <2>1
    <3>2. "mode" \in Plain7
      BY DEF Plain7
    <3>3. k = m
      BY <1>11, <3>1, <3>2, WirePlain
    <3> QED  BY <3>3
  <2>2. CASE e \notin ColorModes1
    <3>1. DecodeLayout(e, k) = DecodeLayout(e, m)
      BY <2>2, Layouts7
    <3> QED  BY <3>1, Zenon DEF Carried7
  <2> QED  BY <2>1, <2>2
<1> HIDE DEF now, k
<1>14. ASSUME NEW n \in Carried7(e, k), n \in DOMAIN patch PROVE now[n] = patch[n]
  <2>1. Legal7(e, patch, n) /\ t[n] = patch[n] /\ n \in DOMAIN t
    BY <1>3, <1>7, <1>14 DEF Legal
  <2>2. n = "gm" => Given(t, "gmFlag", 0) = Given(patch, "gmFlag", 0)
    BY <1>3, <1>7, <1>14 DEF Legal, Given
  <2>3. Legal7(e, t, n)
    BY <2>1, <2>2 DEF Legal7
  <2> QED  BY <1>12, <2>1, <2>3
<1>15. ASSUME NEW n \in Carried7(e, k), n \notin DOMAIN patch, n \in DOMAIN s PROVE now[n] = s[n]
  <2>5. n \in Carried7(e, m)
    <3>1. n \in {"on", "effect"} \cup Carried7(e, m)
      BY <1>2, <1>15
    <3>2. n \in Plain7 \cup Colored
      BY Carries7
    <3> QED  BY <3>1, <3>2 DEF Plain7, Colored
  <2>1. t[n] = s[n] /\ n \in DOMAIN t /\ s[n] \in EffectRange(e, n)
    BY <1>2, <1>7, <1>15, <2>5
  <2>2. n = "gm" => (Given(t, "gmFlag", 0) = 0 => Tenfold(t[n], 0, 20))
    <3> SUFFICES ASSUME n = "gm", Given(t, "gmFlag", 0) = 0 PROVE Tenfold(t[n], 0, 20)
      OBVIOUS
    <3>1. "gmFlag" \notin DOMAIN patch /\ "gmFlag" \in DOMAIN s
      BY <1>2, <1>3, <1>15, <2>5 DEF Legal
    <3>2. s["gmFlag"] = 0
      BY <1>7, <3>1 DEF Given
    <3> QED  BY <1>2, <2>5, <2>1, <3>2
  <2>3. n = "kelvin" => Tenfold(t[n], 80, 2000)
    BY <1>2, <2>5, <2>1
  <2>4. Legal7(e, t, n)
    BY <2>1, <2>2, <2>3 DEF Legal7
  <2> QED  BY <1>12, <2>1, <2>4
<1>16. Keeps(now, s, patch)
  <2>1. "mode" \notin DOMAIN patch => DOMAIN now = DOMAIN s
    BY <1>2, <1>12, <1>13
  <2>2. ASSUME NEW n \in DOMAIN now \ {"playback", "state", "on"}
        PROVE  IF n \in DOMAIN patch THEN now[n] = patch[n] ELSE n \in DOMAIN s => now[n] = s[n]
    <3>1. n = "effect" \/ n \in Carried7(e, k)
      BY <1>12
    <3>2. CASE n = "effect"
      <4>1. n \notin DOMAIN patch
        BY <1>8, <3>2 DEF Plain7, Colored
      <4> QED  BY <1>2, <1>12, <3>2, <4>1
    <3>3. CASE n \in Carried7(e, k)
      BY <1>14, <1>15, <3>3
    <3> QED  BY <3>1, <3>2, <3>3
  <2> QED  BY <1>12, <2>1, <2>2 DEF Keeps
<1>17. Ranged(q)
  <2>1. EffectIds[e] \in 0..14
    BY Limits
  <2>2. \A n \in DOMAIN now \ {"effect", "on"} : now[n] \in EffectRange(now.effect, n)
    BY <1>12
  <2> QED  BY <1>12, <2>1, <2>2 DEF Ranged, now
<1>18. Kept7(p, q, patch)
  BY <1>1, <1>12, <1>16, <1>17 DEF s, now, Kept7
<1> QED  BY <1>18, Zenon DEF s, q

-------------------------------------------------------------------------------
(* The packets of command 34.                                              *)

(* What the layouts are made of: the fields of an effect, then its colour. *)
Tail2         == {<<"state", 62, 2>>, <<"id", 64, 8>>}
BoltFields    == {<<"intensity", 52, 10>>, <<"frequency", 48, 4>>, <<"speed", 44, 4>>}
PulseFields   == {<<"intensity", 52, 10>>, <<"frequency", 44, 4>>, <<"speed", 48, 4>>}
SpeedFields   == {<<"intensity", 52, 10>>, <<"speed", 48, 4>>}
DecayFields   == {<<"intensity", 52, 10>>, <<"decay", 48, 4>>}
CopFields     == {<<"intensity", 52, 10>>, <<"frequency", 48, 4>>, <<"color", 45, 3>>}
PartyFields   == {<<"intensity", 52, 10>>, <<"saturation", 42, 10>>, <<"speed", 36, 6>>}
RocketFields  == {<<"intensity", 52, 10>>, <<"gap_time", 43, 9>>, <<"min_gap_time", 34, 9>>,
                  <<"variant", 32, 2>>}
GapFields     == {<<"package", 61, 1>>, <<"intensity", 51, 10>>, <<"gap_time", 42, 9>>,
                  <<"min_gap_time", 33, 9>>}
WeldFields    == {<<"package", 61, 1>>, <<"intensity", 51, 10>>, <<"min_intensity", 41, 10>>,
                  <<"frequency", 37, 4>>}
LastFields    == {<<"package", 61, 1>>}
White2(at)    == {<<"mode", at, 3>>, <<"kelvin", at - 9, 9>>, <<"gm", at - 17, 8>>}
Hue2(at)      == {<<"mode", at, 3>>, <<"hue", at - 9, 9>>, <<"saturation", at - 16, 7>>,
                  <<"center_kelvin", at - 25, 9>>}
Gel2(at)      == {<<"mode", at, 3>>, <<"gel_kelvin", at - 9, 9>>, <<"gel_origin", at - 10, 1>>,
                  <<"gel_type", at - 14, 4>>, <<"color", at - 24, 10>>}
WhiteRange2(at) == {<<"mode", at, 3>>, <<"max_kelvin", at - 9, 9>>, <<"min_kelvin", at - 18, 9>>,
                    <<"gm", at - 26, 8>>}
HueRange2(at)   == {<<"mode", at, 3>>, <<"max_hue", at - 9, 9>>, <<"min_hue", at - 18, 9>>,
                    <<"saturation", at - 25, 7>>, <<"center_kelvin", at - 34, 9>>}

(* A colour of command 34 is white, a hue or a gel.                      *)
LEMMA ColorParts ==
  ASSUME NEW mode, NEW at \in Int, NEW gels
  PROVE  /\ \/ ColorLayout(mode, at, gels) = White2(at)
            \/ ColorLayout(mode, at, gels) = Hue2(at)
            \/ ColorLayout(mode, at, gels) = Gel2(at)
         /\ <<"mode", at, 3>> \in ColorLayout(mode, at, gels)
<1>1. CASE mode = 0
  BY <1>1 DEF ColorLayout, White2
<1>2. CASE mode # 0 /\ (mode = 1 \/ ~gels)
  BY <1>2 DEF ColorLayout, Hue2
<1>3. CASE mode # 0 /\ ~(mode = 1 \/ ~gels)
  BY <1>3 DEF ColorLayout, Gel2
<1> QED  BY <1>1, <1>2, <1>3

(* A range of colours is of temperatures or of hues.                     *)
LEMMA RangeParts ==
  ASSUME NEW mode, NEW at \in Int
  PROVE  /\ RangeLayout(mode, at) = WhiteRange2(at) \/ RangeLayout(mode, at) = HueRange2(at)
         /\ <<"mode", at, 3>> \in RangeLayout(mode, at)
<1>1. CASE mode = 0
  BY <1>1 DEF RangeLayout, WhiteRange2
<1>2. CASE mode # 0
  BY <1>2 DEF RangeLayout, HueRange2
<1> QED  BY <1>1, <1>2

(* Fields apart, from those every packet has too, and wide enough.         *)
Wide2(f) ==
  /\ f[1] \notin {"state", "id", "effect", "on", "playback"}
  /\ f[1] \in Kelvins \cup {"hue"} => f[3] = 9
  /\ f[1] \in {"intensity", "min_intensity"} => f[3] = 10
  /\ f[1] = "gm" => f[3] = 8
  /\ f[1] = "frequency" => f[3] \in {4, 8}
  /\ f[1] = "saturation" => f[3] \in {7, 10}
Sound2(layout) == Apart(layout \cup Tail2) /\ \A f \in layout : Wide2(f)

(* Every layout of command 34 is made of these.                          *)
LEMMA Parts2 ==
  /\ Sound2(BoltFields \cup White2(41))
  /\ Sound2(BoltFields \cup Hue2(41))
  /\ Sound2(BoltFields \cup Gel2(41))
  /\ Sound2(PulseFields \cup White2(41))
  /\ Sound2(PulseFields \cup Hue2(41))
  /\ Sound2(PulseFields \cup Gel2(41))
  /\ Sound2(SpeedFields \cup White2(45))
  /\ Sound2(SpeedFields \cup Hue2(45))
  /\ Sound2(SpeedFields \cup Gel2(45))
  /\ Sound2(SpeedFields \cup WhiteRange2(45))
  /\ Sound2(SpeedFields \cup HueRange2(45))
  /\ Sound2(DecayFields \cup White2(45))
  /\ Sound2(DecayFields \cup Hue2(45))
  /\ Sound2(DecayFields \cup Gel2(45))
  /\ Sound2(LastFields \cup White2(58))
  /\ Sound2(LastFields \cup Hue2(58))
  /\ Sound2(LastFields \cup Gel2(58))
  /\ Sound2(CopFields)
  /\ Sound2(PartyFields)
  /\ Sound2(RocketFields)
  /\ Sound2(GapFields)
  /\ Sound2(WeldFields)
<1>1. Sound2(BoltFields \cup White2(41))
  <2>1. Apart((BoltFields \cup White2(41)) \cup Tail2)
    BY DEF Apart, Place, Tail2, BoltFields, White2
  <2>2. \A f \in BoltFields \cup White2(41) : Wide2(f)
    BY DEF Wide2, Kelvins, BoltFields, White2
  <2> QED  BY <2>1, <2>2 DEF Sound2
<1>2. Sound2(BoltFields \cup Hue2(41))
  <2>1. Apart((BoltFields \cup Hue2(41)) \cup Tail2)
    BY DEF Apart, Place, Tail2, BoltFields, Hue2
  <2>2. \A f \in BoltFields \cup Hue2(41) : Wide2(f)
    BY DEF Wide2, Kelvins, BoltFields, Hue2
  <2> QED  BY <2>1, <2>2 DEF Sound2
<1>3. Sound2(BoltFields \cup Gel2(41))
  <2>1. Apart((BoltFields \cup Gel2(41)) \cup Tail2)
    BY DEF Apart, Place, Tail2, BoltFields, Gel2
  <2>2. \A f \in BoltFields \cup Gel2(41) : Wide2(f)
    BY DEF Wide2, Kelvins, BoltFields, Gel2
  <2> QED  BY <2>1, <2>2 DEF Sound2
<1>4. Sound2(PulseFields \cup White2(41))
  <2>1. Apart((PulseFields \cup White2(41)) \cup Tail2)
    BY DEF Apart, Place, Tail2, PulseFields, White2
  <2>2. \A f \in PulseFields \cup White2(41) : Wide2(f)
    BY DEF Wide2, Kelvins, PulseFields, White2
  <2> QED  BY <2>1, <2>2 DEF Sound2
<1>5. Sound2(PulseFields \cup Hue2(41))
  <2>1. Apart((PulseFields \cup Hue2(41)) \cup Tail2)
    BY DEF Apart, Place, Tail2, PulseFields, Hue2
  <2>2. \A f \in PulseFields \cup Hue2(41) : Wide2(f)
    BY DEF Wide2, Kelvins, PulseFields, Hue2
  <2> QED  BY <2>1, <2>2 DEF Sound2
<1>6. Sound2(PulseFields \cup Gel2(41))
  <2>1. Apart((PulseFields \cup Gel2(41)) \cup Tail2)
    BY DEF Apart, Place, Tail2, PulseFields, Gel2
  <2>2. \A f \in PulseFields \cup Gel2(41) : Wide2(f)
    BY DEF Wide2, Kelvins, PulseFields, Gel2
  <2> QED  BY <2>1, <2>2 DEF Sound2
<1>7. Sound2(SpeedFields \cup White2(45))
  <2>1. Apart((SpeedFields \cup White2(45)) \cup Tail2)
    BY DEF Apart, Place, Tail2, SpeedFields, White2
  <2>2. \A f \in SpeedFields \cup White2(45) : Wide2(f)
    BY DEF Wide2, Kelvins, SpeedFields, White2
  <2> QED  BY <2>1, <2>2 DEF Sound2
<1>8. Sound2(SpeedFields \cup Hue2(45))
  <2>1. Apart((SpeedFields \cup Hue2(45)) \cup Tail2)
    BY DEF Apart, Place, Tail2, SpeedFields, Hue2
  <2>2. \A f \in SpeedFields \cup Hue2(45) : Wide2(f)
    BY DEF Wide2, Kelvins, SpeedFields, Hue2
  <2> QED  BY <2>1, <2>2 DEF Sound2
<1>9. Sound2(SpeedFields \cup Gel2(45))
  <2>1. Apart((SpeedFields \cup Gel2(45)) \cup Tail2)
    BY DEF Apart, Place, Tail2, SpeedFields, Gel2
  <2>2. \A f \in SpeedFields \cup Gel2(45) : Wide2(f)
    BY DEF Wide2, Kelvins, SpeedFields, Gel2
  <2> QED  BY <2>1, <2>2 DEF Sound2
<1>10. Sound2(SpeedFields \cup WhiteRange2(45))
  <2>1. Apart((SpeedFields \cup WhiteRange2(45)) \cup Tail2)
    BY DEF Apart, Place, Tail2, SpeedFields, WhiteRange2
  <2>2. \A f \in SpeedFields \cup WhiteRange2(45) : Wide2(f)
    BY DEF Wide2, Kelvins, SpeedFields, WhiteRange2
  <2> QED  BY <2>1, <2>2 DEF Sound2
<1>11. Sound2(SpeedFields \cup HueRange2(45))
  <2>1. Apart((SpeedFields \cup HueRange2(45)) \cup Tail2)
    BY DEF Apart, Place, Tail2, SpeedFields, HueRange2
  <2>2. \A f \in SpeedFields \cup HueRange2(45) : Wide2(f)
    BY DEF Wide2, Kelvins, SpeedFields, HueRange2
  <2> QED  BY <2>1, <2>2 DEF Sound2
<1>12. Sound2(DecayFields \cup White2(45))
  <2>1. Apart((DecayFields \cup White2(45)) \cup Tail2)
    BY DEF Apart, Place, Tail2, DecayFields, White2
  <2>2. \A f \in DecayFields \cup White2(45) : Wide2(f)
    BY DEF Wide2, Kelvins, DecayFields, White2
  <2> QED  BY <2>1, <2>2 DEF Sound2
<1>13. Sound2(DecayFields \cup Hue2(45))
  <2>1. Apart((DecayFields \cup Hue2(45)) \cup Tail2)
    BY DEF Apart, Place, Tail2, DecayFields, Hue2
  <2>2. \A f \in DecayFields \cup Hue2(45) : Wide2(f)
    BY DEF Wide2, Kelvins, DecayFields, Hue2
  <2> QED  BY <2>1, <2>2 DEF Sound2
<1>14. Sound2(DecayFields \cup Gel2(45))
  <2>1. Apart((DecayFields \cup Gel2(45)) \cup Tail2)
    BY DEF Apart, Place, Tail2, DecayFields, Gel2
  <2>2. \A f \in DecayFields \cup Gel2(45) : Wide2(f)
    BY DEF Wide2, Kelvins, DecayFields, Gel2
  <2> QED  BY <2>1, <2>2 DEF Sound2
<1>15. Sound2(LastFields \cup White2(58))
  <2>1. Apart((LastFields \cup White2(58)) \cup Tail2)
    BY DEF Apart, Place, Tail2, LastFields, White2
  <2>2. \A f \in LastFields \cup White2(58) : Wide2(f)
    BY DEF Wide2, Kelvins, LastFields, White2
  <2> QED  BY <2>1, <2>2 DEF Sound2
<1>16. Sound2(LastFields \cup Hue2(58))
  <2>1. Apart((LastFields \cup Hue2(58)) \cup Tail2)
    BY DEF Apart, Place, Tail2, LastFields, Hue2
  <2>2. \A f \in LastFields \cup Hue2(58) : Wide2(f)
    BY DEF Wide2, Kelvins, LastFields, Hue2
  <2> QED  BY <2>1, <2>2 DEF Sound2
<1>17. Sound2(LastFields \cup Gel2(58))
  <2>1. Apart((LastFields \cup Gel2(58)) \cup Tail2)
    BY DEF Apart, Place, Tail2, LastFields, Gel2
  <2>2. \A f \in LastFields \cup Gel2(58) : Wide2(f)
    BY DEF Wide2, Kelvins, LastFields, Gel2
  <2> QED  BY <2>1, <2>2 DEF Sound2
<1>18. Sound2(CopFields)
  <2>1. Apart((CopFields) \cup Tail2)
    BY DEF Apart, Place, Tail2, CopFields
  <2>2. \A f \in CopFields : Wide2(f)
    BY DEF Wide2, Kelvins, CopFields
  <2> QED  BY <2>1, <2>2 DEF Sound2
<1>19. Sound2(PartyFields)
  <2>1. Apart((PartyFields) \cup Tail2)
    BY DEF Apart, Place, Tail2, PartyFields
  <2>2. \A f \in PartyFields : Wide2(f)
    BY DEF Wide2, Kelvins, PartyFields
  <2> QED  BY <2>1, <2>2 DEF Sound2
<1>20. Sound2(RocketFields)
  <2>1. Apart((RocketFields) \cup Tail2)
    BY DEF Apart, Place, Tail2, RocketFields
  <2>2. \A f \in RocketFields : Wide2(f)
    BY DEF Wide2, Kelvins, RocketFields
  <2> QED  BY <2>1, <2>2 DEF Sound2
<1>21. Sound2(GapFields)
  <2>1. Apart((GapFields) \cup Tail2)
    BY DEF Apart, Place, Tail2, GapFields
  <2>2. \A f \in GapFields : Wide2(f)
    BY DEF Wide2, Kelvins, GapFields
  <2> QED  BY <2>1, <2>2 DEF Sound2
<1>22. Sound2(WeldFields)
  <2>1. Apart((WeldFields) \cup Tail2)
    BY DEF Apart, Place, Tail2, WeldFields
  <2>2. \A f \in WeldFields : Wide2(f)
    BY DEF Wide2, Kelvins, WeldFields
  <2> QED  BY <2>1, <2>2 DEF Sound2
<1> QED  BY <1>1, <1>2, <1>3, <1>4, <1>5, <1>6, <1>7, <1>8, <1>9, <1>10, <1>11, <1>12, <1>13,
            <1>14, <1>15, <1>16, <1>17, <1>18, <1>19, <1>20, <1>21, <1>22

(* The effects the app starts.                                           *)
LEMMA Names2 ==
  Defaulted \subseteq
    {"Paparazzi II", "Lightning II", "TV II", "Fire II", "Strobe II", "Explosion II",
     "Faulty Bulb II", "Pulsing II", "Welding II", "Cop Car II", "Party Lights II",
     "Fireworks II"}
<1> SUFFICES ASSUME NEW i \in 1..12
             PROVE  Effect2Names[i] \in
                      {"Paparazzi II", "Lightning II", "TV II", "Fire II", "Strobe II",
                       "Explosion II", "Faulty Bulb II", "Pulsing II", "Welding II",
                       "Cop Car II", "Party Lights II", "Fireworks II"}
  BY DEF Defaulted
<1>1. i \in {1, 2, 3, 4, 5, 6, 7, 8, 9, 10, 11, 12}
  OBVIOUS
<1>2. CASE i = 1
  BY <1>2 DEF Effect2Names
<1>3. CASE i = 2
  BY <1>3 DEF Effect2Names
<1>4. CASE i = 3
  BY <1>4 DEF Effect2Names
<1>5. CASE i = 4
  BY <1>5 DEF Effect2Names
<1>6. CASE i = 5
  BY <1>6 DEF Effect2Names
<1>7. CASE i = 6
  BY <1>7 DEF Effect2Names
<1>8. CASE i = 7
  BY <1>8 DEF Effect2Names
<1>9. CASE i = 8
  BY <1>9 DEF Effect2Names
<1>10. CASE i = 9
  BY <1>10 DEF Effect2Names
<1>11. CASE i = 10
  BY <1>11 DEF Effect2Names
<1>12. CASE i = 11
  BY <1>12 DEF Effect2Names
<1>13. CASE i = 12
  BY <1>13 DEF Effect2Names
<1> QED  BY <1>1, <1>2, <1>3, <1>4, <1>5, <1>6, <1>7, <1>8, <1>9, <1>10, <1>11, <1>12, <1>13

(* Each has an identifier.                                               *)
LEMMA Id2 ==
  ASSUME NEW e \in Defaulted
  PROVE  Effect2Id(e) \in 0..17 /\ Effect2Names[Effect2Id(e) + 1] = e
<1>1. DOMAIN Effect2Names = 1..18
  BY DEF Effect2Names
<1>2. \E i \in DOMAIN Effect2Names : Effect2Names[i] = e
  BY <1>1 DEF Defaulted
<1> DEFINE i == CHOOSE j \in DOMAIN Effect2Names : Effect2Names[j] = e
<1>3. i \in 1..18 /\ Effect2Names[i] = e
  BY <1>1, <1>2
<1>4. Effect2Id(e) = i - 1
  BY DEF Effect2Id
<1> HIDE DEF i
<1>5. Effect2Id(e) + 1 = i
  BY <1>3, <1>4
<1> QED  BY <1>3, <1>4, <1>5

Layout2(e, page, mode) == IF e \in Dual THEN PageLayout(e, page, mode) ELSE SingleLayout(e, mode)
ModeAt2(e) ==
  IF e \in Dual THEN 58
  ELSE IF e \in {"Lightning II", "Faulty Bulb II", "Pulsing II", "Pulsing III"} THEN 41 ELSE 45
Laid2(e, page, mode) ==
  /\ Sound2(Layout2(e, page, mode))
  /\ \/ <<"mode", ModeAt2(e), 3>> \in Layout2(e, page, mode)
     \/ \A m : Layout2(e, page, m) = Layout2(e, page, mode)
  /\ e \in Dual => <<"package", 61, 1>> \in Layout2(e, page, mode)
  /\ e \notin Dual => \A f \in Layout2(e, page, mode) : f[1] # "package"

(* The layouts of an effect with one page, and where the mode lies.      *)
LEMMA SingleLayouts2 ==
  ASSUME NEW e \in Defaulted \ Dual, NEW mode
  PROVE  /\ Sound2(SingleLayout(e, mode))
         /\ \/ <<"mode", ModeAt2(e), 3>> \in SingleLayout(e, mode)
            \/ \A m : SingleLayout(e, m) = SingleLayout(e, mode)
<1>12. e \notin Dual
  OBVIOUS
<1>1. CASE e = "Lightning II"
  <2> DEFINE at == 41
  <2>1. SingleLayout(e, mode) = BoltFields \cup ColorLayout(mode, at, FALSE)
    BY <1>1 DEF SingleLayout, BoltFields
  <2>2. at \in Int /\ ModeAt2(e) = at
    <3>1. ModeAt2(e) = at
      BY <1>1, <1>12, Zenon DEF ModeAt2
    <3> QED  BY <3>1
  <2>3. Sound2(BoltFields \cup White2(at)) /\ Sound2(BoltFields \cup Hue2(at)) /\ Sound2(BoltFields \cup Gel2(at))
    BY Parts2
  <2> HIDE DEF at
  <2>4. /\ \/ ColorLayout(mode, at, FALSE) = White2(at)
           \/ ColorLayout(mode, at, FALSE) = Hue2(at)
           \/ ColorLayout(mode, at, FALSE) = Gel2(at)
        /\ <<"mode", at, 3>> \in ColorLayout(mode, at, FALSE)
    BY <2>2, ColorParts
  <2> QED  BY <2>1, <2>2, <2>3, <2>4
<1>2. CASE e = "Faulty Bulb II"
  <2> DEFINE at == 41
  <2>1. SingleLayout(e, mode) = PulseFields \cup ColorLayout(mode, at, TRUE)
    BY <1>2 DEF SingleLayout, PulseFields
  <2>2. at \in Int /\ ModeAt2(e) = at
    <3>1. ModeAt2(e) = at
      BY <1>2, <1>12, Zenon DEF ModeAt2
    <3> QED  BY <3>1
  <2>3. Sound2(PulseFields \cup White2(at)) /\ Sound2(PulseFields \cup Hue2(at)) /\ Sound2(PulseFields \cup Gel2(at))
    BY Parts2
  <2> HIDE DEF at
  <2>4. /\ \/ ColorLayout(mode, at, TRUE) = White2(at)
           \/ ColorLayout(mode, at, TRUE) = Hue2(at)
           \/ ColorLayout(mode, at, TRUE) = Gel2(at)
        /\ <<"mode", at, 3>> \in ColorLayout(mode, at, TRUE)
    BY <2>2, ColorParts
  <2> QED  BY <2>1, <2>2, <2>3, <2>4
<1>3. CASE e = "Pulsing II"
  <2> DEFINE at == 41
  <2>1. SingleLayout(e, mode) = PulseFields \cup ColorLayout(mode, at, TRUE)
    BY <1>3 DEF SingleLayout, PulseFields
  <2>2. at \in Int /\ ModeAt2(e) = at
    <3>1. ModeAt2(e) = at
      BY <1>3, <1>12, Zenon DEF ModeAt2
    <3> QED  BY <3>1
  <2>3. Sound2(PulseFields \cup White2(at)) /\ Sound2(PulseFields \cup Hue2(at)) /\ Sound2(PulseFields \cup Gel2(at))
    BY Parts2
  <2> HIDE DEF at
  <2>4. /\ \/ ColorLayout(mode, at, TRUE) = White2(at)
           \/ ColorLayout(mode, at, TRUE) = Hue2(at)
           \/ ColorLayout(mode, at, TRUE) = Gel2(at)
        /\ <<"mode", at, 3>> \in ColorLayout(mode, at, TRUE)
    BY <2>2, ColorParts
  <2> QED  BY <2>1, <2>2, <2>3, <2>4
<1>4. CASE e = "TV II"
  <2> DEFINE at == 45
  <2>1. SingleLayout(e, mode) = SpeedFields \cup RangeLayout(mode, at)
    BY <1>4 DEF SingleLayout, SpeedFields
  <2>2. at \in Int /\ ModeAt2(e) = at
    <3>1. ModeAt2(e) = at
      BY <1>4, <1>12, Zenon DEF ModeAt2
    <3> QED  BY <3>1
  <2>3. Sound2(SpeedFields \cup WhiteRange2(at)) /\ Sound2(SpeedFields \cup HueRange2(at))
    BY Parts2
  <2> HIDE DEF at
  <2>4. /\ RangeLayout(mode, at) = WhiteRange2(at) \/ RangeLayout(mode, at) = HueRange2(at)
        /\ <<"mode", at, 3>> \in RangeLayout(mode, at)
    BY <2>2, RangeParts
  <2> QED  BY <2>1, <2>2, <2>3, <2>4
<1>5. CASE e = "Fire II"
  <2> DEFINE at == 45
  <2>1. SingleLayout(e, mode) = SpeedFields \cup RangeLayout(mode, at)
    BY <1>5 DEF SingleLayout, SpeedFields
  <2>2. at \in Int /\ ModeAt2(e) = at
    <3>1. ModeAt2(e) = at
      BY <1>5, <1>12, Zenon DEF ModeAt2
    <3> QED  BY <3>1
  <2>3. Sound2(SpeedFields \cup WhiteRange2(at)) /\ Sound2(SpeedFields \cup HueRange2(at))
    BY Parts2
  <2> HIDE DEF at
  <2>4. /\ RangeLayout(mode, at) = WhiteRange2(at) \/ RangeLayout(mode, at) = HueRange2(at)
        /\ <<"mode", at, 3>> \in RangeLayout(mode, at)
    BY <2>2, RangeParts
  <2> QED  BY <2>1, <2>2, <2>3, <2>4
<1>6. CASE e = "Strobe II"
  <2> DEFINE at == 45
  <2>1. SingleLayout(e, mode) = SpeedFields \cup ColorLayout(mode, at, TRUE)
    BY <1>6 DEF SingleLayout, SpeedFields
  <2>2. at \in Int /\ ModeAt2(e) = at
    <3>1. ModeAt2(e) = at
      BY <1>6, <1>12, Zenon DEF ModeAt2
    <3> QED  BY <3>1
  <2>3. Sound2(SpeedFields \cup White2(at)) /\ Sound2(SpeedFields \cup Hue2(at)) /\ Sound2(SpeedFields \cup Gel2(at))
    BY Parts2
  <2> HIDE DEF at
  <2>4. /\ \/ ColorLayout(mode, at, TRUE) = White2(at)
           \/ ColorLayout(mode, at, TRUE) = Hue2(at)
           \/ ColorLayout(mode, at, TRUE) = Gel2(at)
        /\ <<"mode", at, 3>> \in ColorLayout(mode, at, TRUE)
    BY <2>2, ColorParts
  <2> QED  BY <2>1, <2>2, <2>3, <2>4
<1>7. CASE e = "Explosion II"
  <2> DEFINE at == 45
  <2>1. SingleLayout(e, mode) = DecayFields \cup ColorLayout(mode, at, TRUE)
    BY <1>7 DEF SingleLayout, DecayFields
  <2>2. at \in Int /\ ModeAt2(e) = at
    <3>1. ModeAt2(e) = at
      BY <1>7, <1>12, Zenon DEF ModeAt2
    <3> QED  BY <3>1
  <2>3. Sound2(DecayFields \cup White2(at)) /\ Sound2(DecayFields \cup Hue2(at)) /\ Sound2(DecayFields \cup Gel2(at))
    BY Parts2
  <2> HIDE DEF at
  <2>4. /\ \/ ColorLayout(mode, at, TRUE) = White2(at)
           \/ ColorLayout(mode, at, TRUE) = Hue2(at)
           \/ ColorLayout(mode, at, TRUE) = Gel2(at)
        /\ <<"mode", at, 3>> \in ColorLayout(mode, at, TRUE)
    BY <2>2, ColorParts
  <2> QED  BY <2>1, <2>2, <2>3, <2>4
<1>8. CASE e = "Cop Car II"
  <2>1. \A m : SingleLayout("Cop Car II", m) = CopFields
    BY DEF SingleLayout, CopFields
  <2> QED  BY <1>8, <2>1, Parts2
<1>9. CASE e = "Party Lights II"
  <2>1. \A m : SingleLayout("Party Lights II", m) = PartyFields
    BY DEF SingleLayout, PartyFields
  <2> QED  BY <1>9, <2>1, Parts2
<1>10. CASE e = "Fireworks II"
  <2>1. \A m : SingleLayout("Fireworks II", m) = RocketFields
    BY DEF SingleLayout, RocketFields
  <2> QED  BY <1>10, <2>1, Parts2
<1> QED  BY <1>12, <1>1, <1>2, <1>3, <1>4, <1>5, <1>6, <1>7, <1>8, <1>9, <1>10, Names2,
            Zenon DEF Dual

(* The layouts of every effect.                                          *)
LEMMA Layouts2 ==
  ASSUME NEW e \in Defaulted, NEW page \in {0, 1}, NEW mode
  PROVE  Laid2(e, page, mode)
<1>1. CASE e \notin Dual
  <2>1. \A m : Layout2(e, page, m) = SingleLayout(e, m)
    BY <1>1 DEF Layout2
  <2>2. \A f \in SingleLayout(e, mode) : f[1] # "package"
    BY SingleNames DEF EveryPage
  <2>3. /\ Sound2(SingleLayout(e, mode))
        /\ \/ <<"mode", ModeAt2(e), 3>> \in SingleLayout(e, mode)
           \/ \A m : SingleLayout(e, m) = SingleLayout(e, mode)
    BY <1>1, SingleLayouts2
  <2> QED  BY <1>1, <2>1, <2>2, <2>3 DEF Laid2
<1>2. CASE e \in Dual
  <2>1. e \in {"Paparazzi II", "Welding II"}
    BY <1>2, Names2 DEF Dual
  <2>2. \A m : Layout2(e, page, m) = PageLayout(e, page, m)
    BY <1>2 DEF Layout2
  <2>3. <<"package", 61, 1>> \in PageLayout(e, page, mode)
    BY PageNames
  <2>4. CASE page = 0
    <3>1. \A m : PageLayout(e, 0, m) = {<<"package", 61, 1>>} \cup ({<<"intensity", 51, 10>>} \cup Timing(e))
      BY FirstPage
    <3>2. \A m : PageLayout(e, 0, m) = PageLayout(e, 0, mode)
      BY <3>1, Zenon
    <3>3. PageLayout(e, 0, mode) = GapFields \/ PageLayout(e, 0, mode) = WeldFields
      <4>1. e = "Paparazzi II" => Timing(e) = {<<"gap_time", 42, 9>>, <<"min_gap_time", 33, 9>>}
        BY DEF Timing, Gapped
      <4>2. e = "Welding II" => Timing(e) = {<<"min_intensity", 41, 10>>, <<"frequency", 37, 4>>}
        BY DEF Timing, Gapped
      <4> QED  BY <2>1, <3>1, <4>1, <4>2 DEF GapFields, WeldFields
    <3>4. Sound2(PageLayout(e, 0, mode))
      BY <3>3, Parts2
    <3> QED  BY <1>2, <2>2, <2>3, <2>4, <3>2, <3>4 DEF Laid2
  <2>5. CASE page = 1
    <3>1. PageLayout(e, 1, mode) = LastFields \cup ColorLayout(mode, 58, TRUE)
      <4>1. PageLayout(e, 1, mode) =
              {<<"package", 61, 1>>} \cup IF e \in {"TV III", "Fire III"} THEN RangeLayout(mode, 58)
                                          ELSE ColorLayout(mode, 58, TRUE)
        BY DEF PageLayout
      <4>2. e \notin {"TV III", "Fire III"}
        BY <2>1
      <4> QED  BY <4>1, <4>2, Zenon DEF LastFields
    <3> DEFINE at == 58
    <3>2. at \in Int /\ ModeAt2(e) = at
      BY <1>2 DEF ModeAt2
    <3>3. PageLayout(e, 1, mode) = LastFields \cup ColorLayout(mode, at, TRUE)
      BY <3>1
    <3>4. Sound2(LastFields \cup White2(at)) /\ Sound2(LastFields \cup Hue2(at)) /\ Sound2(LastFields \cup Gel2(at))
      BY Parts2
    <3> HIDE DEF at
    <3>5. /\ \/ ColorLayout(mode, at, TRUE) = White2(at)
             \/ ColorLayout(mode, at, TRUE) = Hue2(at)
             \/ ColorLayout(mode, at, TRUE) = Gel2(at)
          /\ <<"mode", at, 3>> \in ColorLayout(mode, at, TRUE)
      BY <3>2, ColorParts
    <3>6. Sound2(PageLayout(e, 1, mode)) /\ <<"mode", at, 3>> \in PageLayout(e, 1, mode)
      BY <3>3, <3>4, <3>5
    <3> QED  BY <1>2, <2>2, <2>3, <2>5, <3>2, <3>6 DEF Laid2
  <2> QED  BY <2>4, <2>5
<1> QED  BY <1>1, <1>2

(* The value a field is sent with, and those it is sent with unchanged.    *)
Sent2(f, v) ==
  IF f[1] \in Kelvins THEN Clamp(v \div 50, 0, 511)
  ELSE Clamp(v, 0, IF f[3] = 10 /\ f[1] \in {"intensity", "min_intensity"} THEN 1000
                   ELSE 2^f[3] - 1)
Back2(f, c) == IF f[1] \in Kelvins THEN c * 50 ELSE c
Fifties(v) == \E n \in 0..511 : v = 50 * n
Legal2(f, v) ==
  IF f[1] \in Kelvins THEN Fifties(v)
  ELSE v \in 0..(2^f[3] - 1) /\ (f[1] \in {"intensity", "min_intensity"} => v <= 1000)

(* What is sent fits its field, and a legal value reads as itself.       *)
LEMMA SentFits ==
  ASSUME NEW f, Place(f), Wide2(f), NEW v \in Int
  PROVE  /\ Sent2(f, v) \in 0..(2^f[3] - 1)
         /\ Legal2(f, v) => Back2(f, Sent2(f, v)) = v
         /\ f[1] \in {"intensity", "min_intensity"} => Back2(f, Sent2(f, v)) \in 0..1000
<1> DEFINE n == f[1]
           width == f[3]
           top == 2^width - 1
<1>1. width \in 0..10 /\ width \in 1..10
  BY DEF Place
<1>2. 2^width = Pow(width) /\ Pow(width) \in Nat
  BY <1>1, Powers, Zenon
<1>3. Pow(width) >= 2 /\ (width = 9 => Pow(width) = 512) /\ (width = 10 => Pow(width) = 1024)
  <2> HIDE DEF width
  <2>1. width \in {1, 2, 3, 4, 5, 6, 7, 8, 9, 10}
    BY <1>1
  <2>2. Pow(1) = 2 /\ Pow(2) = 4 /\ Pow(3) = 8 /\ Pow(4) = 16 /\ Pow(5) = 32
    BY DEF Pow
  <2>3. Pow(6) = 64 /\ Pow(7) = 128 /\ Pow(8) = 256 /\ Pow(9) = 512 /\ Pow(10) = 1024
    BY DEF Pow
  <2> QED  BY <2>1, <2>2, <2>3
<1>4. top \in Nat /\ (width = 9 => top = 511) /\ (width = 10 => top = 1023)
  <2> HIDE DEF width
  <2> QED  BY <1>2, <1>3
<1>5. /\ n \in Kelvins => width = 9
      /\ n \in {"intensity", "min_intensity"} => width = 10 /\ n \notin Kelvins
  BY DEF Wide2, Kelvins
<1>6. /\ n \in Kelvins => Sent2(f, v) = Clamp(v \div 50, 0, 511) /\ Back2(f, Sent2(f, v)) = Sent2(f, v) * 50
      /\ n \in {"intensity", "min_intensity"} => Sent2(f, v) = Clamp(v, 0, 1000)
      /\ n \notin Kelvins /\ n \notin {"intensity", "min_intensity"} => Sent2(f, v) = Clamp(v, 0, top)
      /\ n \notin Kelvins => Back2(f, Sent2(f, v)) = Sent2(f, v)
  BY <1>5, ZenonT(40) DEF Sent2, Back2
<1>7. /\ n \in Kelvins => (Legal2(f, v) => Fifties(v))
      /\ n \notin Kelvins => (Legal2(f, v) => v \in 0..top)
      /\ n \in {"intensity", "min_intensity"} => (Legal2(f, v) => v <= 1000)
  BY <1>5, Zenon DEF Legal2
<1> DEFINE c == Sent2(f, v)
           b == Back2(f, c)
           legal == Legal2(f, v)
<1> SUFFICES /\ c \in 0..top
             /\ legal => b = v
             /\ n \in {"intensity", "min_intensity"} => b \in 0..1000
  OBVIOUS
<1> HIDE DEF c, b, legal, top, width, n
<1>8. CASE n \in Kelvins
  <2>1. c = Clamp(v \div 50, 0, 511) /\ b = c * 50 /\ top = 511 /\ n \notin {"intensity", "min_intensity"}
    BY <1>4, <1>5, <1>6, <1>8 DEF c, b
  <2>2. c \in 0..511
    BY <2>1 DEF Clamp
  <2>3. ASSUME NEW m \in 0..511, v = 50 * m PROVE b = v
    <3>1. v \div 50 = m
      BY <2>3
    <3>2. c = m
      BY <2>1, <3>1 DEF Clamp
    <3> QED  BY <2>1, <2>3, <3>2
  <2>4. legal => b = v
    BY <1>7, <1>8, <2>3 DEF legal, Fifties
  <2> QED  BY <2>1, <2>2, <2>4
<1>9. CASE n \in {"intensity", "min_intensity"}
  <2>1. c = Clamp(v, 0, 1000) /\ b = c /\ top = 1023 /\ (legal => v \in 0..top /\ v <= 1000)
    BY <1>4, <1>5, <1>6, <1>7, <1>9 DEF c, b, legal
  <2> QED  BY <2>1 DEF Clamp
<1>10. CASE n \notin Kelvins /\ n \notin {"intensity", "min_intensity"}
  <2>1. c = Clamp(v, 0, top) /\ b = c /\ (legal => v \in 0..top)
    BY <1>6, <1>7, <1>10 DEF c, b, legal
  <2> QED  BY <1>4, <1>10, <2>1 DEF Clamp
<1> QED  BY <1>8, <1>9, <1>10

(* What is heard of a page built from s, every parameter of which is       *)
(* given.                                                                  *)
Whole2(page, s) == [package |-> page] ++ s
Mode2(s) == Clamp(Given(s, "mode", 0), 0, 7)
Full2(e, page, s) ==
  /\ "mode" \in DOMAIN s
  /\ \A f \in Layout2(e, page, Mode2(s)) : Whole2(page, s)[f[1]] \in Int
Hears2(e, page, state, s, q, d) ==
  /\ q.command = 34 /\ Value(q, 64, 8) = Effect2Id(e)
  /\ DOMAIN d = NamesOf(Layout2(e, page, Mode2(s))) \cup {"effect", "state", "on"}
  /\ d["effect"] = e /\ d["on"] = IF state = 0 THEN 0 ELSE 1
  /\ \A f \in Layout2(e, page, Mode2(s)) :
       /\ Legal2(f, Whole2(page, s)[f[1]]) => d[f[1]] = Whole2(page, s)[f[1]]
       /\ f[1] \in {"intensity", "min_intensity"} => d[f[1]] \in 0..1000

(* A packet that effect2() builds is read as what was given, where that  *)
(* is legal.                                                             *)
LEMMA Heard2 ==
  ASSUME NEW e \in Defaulted, NEW page \in {0, 1}, NEW state \in 0..3, NEW s, Full2(e, page, s)
  PROVE  LET q == Effect2Packet(e, page, state, s)
         IN Hears2(e, page, state, s, q, DecodeEffect2(q))
<1> DEFINE q == Effect2Packet(e, page, state, s)
           d == DecodeEffect2(q)
           mode == Mode2(s)
           layout == Layout2(e, page, mode)
           whole == Whole2(page, s)
           wire == [n \in {f[1] : f \in layout} |->
                      LET f == CHOOSE g \in layout : g[1] = n
                      IN IF n \in Kelvins THEN Clamp(whole[n] \div 50, 0, 511)
                         ELSE Clamp(whole[n], 0, IF f[3] = 10 /\ n \in {"intensity", "min_intensity"}
                                                 THEN 1000 ELSE 2^f[3] - 1)]
           tail == [state |-> state, id |-> Effect2Id(e)]
           all == wire ++ tail
<1>1. q = Packet(34, layout \cup Tail2, all)
  BY Zenon DEF Effect2Packet, Layout2, Mode2, Whole2, Tail2
<1>2. Laid2(e, page, mode)
  BY Layouts2
<1>3. /\ Apart(layout \cup Tail2) /\ \A f \in layout : Wide2(f)
      /\ e \in Dual => <<"package", 61, 1>> \in layout
  BY <1>2 DEF Laid2, Sound2
<1>4. Apart(layout) /\ \A f \in layout : Place(f)
  BY <1>3 DEF Apart
<1>5. \A f \in layout : whole[f[1]] \in Int
  BY DEF Full2
<1>6. DOMAIN tail = {"state", "id"} /\ tail["state"] = state /\ tail["id"] = Effect2Id(e)
  OBVIOUS
<1> HIDE DEF mode, layout, tail
<1>7. ASSUME NEW f \in layout PROVE f[1] \in DOMAIN wire /\ wire[f[1]] = Sent2(f, whole[f[1]])
  <2>1. f[1] \in {g[1] : g \in layout}
    OBVIOUS
  <2>2. \A g \in layout : g[1] = f[1] => g = f
    BY <1>4 DEF Apart
  <2>3. (CHOOSE g \in layout : g[1] = f[1]) = f
    BY <2>2
  <2> DEFINE Value2(g) == IF f[1] \in Kelvins THEN Clamp(whole[f[1]] \div 50, 0, 511)
                          ELSE Clamp(whole[f[1]], 0, IF g[3] = 10 /\ f[1] \in {"intensity", "min_intensity"}
                                                     THEN 1000 ELSE 2^g[3] - 1)
  <2>4. wire[f[1]] = Value2(CHOOSE g \in layout : g[1] = f[1])
    BY <2>1
  <2>5. Value2(f) = Sent2(f, whole[f[1]])
    BY Zenon DEF Sent2
  <2> HIDE DEF wire, Value2, whole
  <2>6. wire[f[1]] = Sent2(f, whole[f[1]])
    BY <2>3, <2>4, <2>5, Zenon
  <2> QED  BY <2>1, <2>6 DEF wire
<1>8. DOMAIN wire = NamesOf(layout)
  BY DEF NamesOf
<1> HIDE DEF wire, whole
<1>9. \A f \in layout : f[1] \notin {"state", "id", "effect", "on"}
  BY <1>3 DEF Wide2
<1>10. \A f \in layout : all[f[1]] = Sent2(f, whole[f[1]])
  BY <1>7 DEF ++
<1>11. all["state"] = state /\ all["id"] = Effect2Id(e)
  <2>1. "state" \notin DOMAIN wire /\ "id" \notin DOMAIN wire
    BY <1>8, <1>9 DEF NamesOf
  <2> QED  BY <1>6, <2>1 DEF ++
<1> HIDE DEF all, q
<1>12. ASSUME NEW f \in layout PROVE Value(q, f[2], f[3]) = Sent2(f, whole[f[1]])
  <2>1. all[f[1]] \in 0..(2^f[3] - 1)
    BY <1>3, <1>4, <1>5, <1>10, SentFits
  <2> QED  BY <1>1, <1>3, <1>10, <2>1, ReadBack
<1>13. Value(q, 64, 8) = Effect2Id(e) /\ Value(q, 62, 2) = state
  <2> DEFINE where == <<"state", 62, 2>>
             id == <<"id", 64, 8>>
  <2>1. /\ where \in Tail2 /\ where[1] = "state" /\ where[2] = 62 /\ where[3] = 2
        /\ id \in Tail2 /\ id[1] = "id" /\ id[2] = 64 /\ id[3] = 8
    BY DEF Tail2
  <2>2. state \in 0..(2^2 - 1) /\ Effect2Id(e) \in 0..(2^8 - 1)
    BY Id2
  <2> HIDE DEF where, id
  <2>3. all[where[1]] \in 0..(2^where[3] - 1) /\ all[id[1]] \in 0..(2^id[3] - 1)
    BY <1>11, <2>1, <2>2, Zenon
  <2>4. ASSUME NEW f \in layout \cup Tail2, all[f[1]] \in 0..(2^f[3] - 1)
        PROVE  Value(q, f[2], f[3]) = all[f[1]]
    BY <1>1, <1>3, <2>4, ReadBack
  <2>5. Value(q, where[2], where[3]) = all[where[1]] /\ Value(q, id[2], id[3]) = all[id[1]]
    BY <2>1, <2>3, <2>4, Zenon
  <2> QED  BY <1>11, <2>1, <2>5, Zenon
<1>14. Layout2(e, Value(q, 61, 1), Value(q, ModeAt2(e), 3)) = layout
  <2> DEFINE k == Value(q, 61, 1)
             m == Value(q, ModeAt2(e), 3)
  <2>1. Layout2(e, k, m) = Layout2(e, page, m)
    <3>1. CASE e \notin Dual
      BY <3>1, Zenon DEF Layout2
    <3>2. CASE e \in Dual
      <4> DEFINE f == <<"package", 61, 1>>
      <4>1. f \in layout /\ f[1] = "package" /\ f[2] = 61 /\ f[3] = 1
        BY <1>3, <3>2
      <4>2. whole["package"] = page
        BY DEF whole, Whole2, ++
      <4>3. \A v \in {0, 1} : Sent2(f, v) = v
        BY DEF Sent2, Kelvins, Clamp
      <4> HIDE DEF f
      <4>4. Value(q, f[2], f[3]) = page
        BY <1>12, <4>1, <4>2, <4>3
      <4> QED  BY <4>1, <4>4, Zenon
    <3> QED  BY <3>1, <3>2
  <2>2. Layout2(e, page, m) = layout
    <3>1. CASE <<"mode", ModeAt2(e), 3>> \in layout
      <4> DEFINE f == <<"mode", ModeAt2(e), 3>>
      <4>1. f \in layout /\ f[1] = "mode" /\ f[2] = ModeAt2(e) /\ f[3] = 3
        BY <3>1
      <4>2. "mode" \in DOMAIN s
        BY DEF Full2
      <4>3. whole["mode"] = s["mode"] /\ Given(s, "mode", 0) = s["mode"]
        BY <4>2 DEF whole, Whole2, ++, Given
      <4>4. Sent2(f, s["mode"]) = Clamp(s["mode"], 0, 7)
        BY DEF Sent2, Kelvins
      <4> HIDE DEF f
      <4>5. Value(q, f[2], f[3]) = mode
        BY <1>12, <4>1, <4>3, <4>4, Zenon DEF mode, Mode2
      <4> QED  BY <4>1, <4>5, Zenon DEF layout
    <3>2. CASE <<"mode", ModeAt2(e), 3>> \notin layout
      BY <1>2, <3>2 DEF Laid2, layout
    <3> QED  BY <3>1, <3>2
  <2> QED  BY <2>1, <2>2
<1> DEFINE w == Fields(layout, q)
           plain == [n \in DOMAIN w |-> IF n \in Kelvins THEN w[n] * 50 ELSE w[n]]
           rest == [effect |-> e, state |-> state, on |-> IF state = 0 THEN 0 ELSE 1]
<1>15. d = plain ++ rest
  <2> DEFINE Says(c, at, k, m, st) ==
               LET ws == Fields(IF c \in Dual THEN PageLayout(c, k, m) ELSE SingleLayout(c, m), q)
               IN [n \in DOMAIN ws |-> IF n \in Kelvins THEN ws[n] * 50 ELSE ws[n]] ++
                  [effect |-> c, state |-> st, on |-> IF st = 0 THEN 0 ELSE 1]
             c0 == Effect2Names[Value(q, 64, 8) + 1]
  <2>1. c0 = e
    BY <1>13, Id2
  <2>2. d = Says(c0, ModeAt2(c0), Value(q, 61, 1), Value(q, ModeAt2(c0), 3), Value(q, 62, 2))
    BY Zenon DEF DecodeEffect2, ModeAt2
  <2>3. Says(e, ModeAt2(e), Value(q, 61, 1), Value(q, ModeAt2(e), 3), state) = plain ++ rest
    BY <1>14, Zenon DEF Layout2
  <2> HIDE DEF Says, c0, d, plain, rest
  <2>4. d = Says(e, ModeAt2(e), Value(q, 61, 1), Value(q, ModeAt2(e), 3), state)
    BY <1>13, <2>1, <2>2, Zenon
  <2> QED  BY <2>3, <2>4, Zenon
<1>16. DOMAIN w = NamesOf(layout)
  BY FieldNames DEF NamesOf
<1>17. /\ DOMAIN rest = {"effect", "state", "on"} /\ rest["effect"] = e
       /\ rest["on"] = IF state = 0 THEN 0 ELSE 1
  OBVIOUS
<1>18. ASSUME NEW f \in layout
       PROVE  f[1] \in DOMAIN plain /\ plain[f[1]] = Back2(f, Sent2(f, whole[f[1]]))
  <2>1. f[1] \in DOMAIN w /\ w[f[1]] = Value(q, f[2], f[3])
    BY <1>4, ReadField
  <2>2. w[f[1]] = Sent2(f, whole[f[1]])
    BY <1>12, <2>1
  <2> HIDE DEF w
  <2>3. plain[f[1]] = IF f[1] \in Kelvins THEN w[f[1]] * 50 ELSE w[f[1]]
    BY <2>1
  <2> HIDE DEF plain
  <2>4. plain[f[1]] = Back2(f, Sent2(f, whole[f[1]]))
    BY <2>2, <2>3, Zenon DEF Back2
  <2> QED  BY <2>1, <2>4 DEF plain
<1>19. DOMAIN plain = NamesOf(layout)
  BY <1>16
<1> HIDE DEF d, w, plain, rest
<1>20. DOMAIN d = NamesOf(layout) \cup {"effect", "state", "on"}
  BY <1>15, <1>17, <1>19 DEF ++
<1>21. d["effect"] = e /\ d["on"] = IF state = 0 THEN 0 ELSE 1
  <2>1. "effect" \notin DOMAIN plain /\ "on" \notin DOMAIN plain
    BY <1>9, <1>19 DEF NamesOf
  <2> QED  BY <1>15, <1>17, <2>1 DEF ++
<1>22. ASSUME NEW f \in layout
       PROVE  /\ Legal2(f, whole[f[1]]) => d[f[1]] = whole[f[1]]
              /\ f[1] \in {"intensity", "min_intensity"} => d[f[1]] \in 0..1000
  <2>1. d[f[1]] = Back2(f, Sent2(f, whole[f[1]]))
    BY <1>15, <1>18 DEF ++
  <2> DEFINE v == whole[f[1]]
  <2>2. Place(f) /\ Wide2(f) /\ v \in Int
    BY <1>3, <1>4, <1>5
  <2> HIDE DEF v
  <2>3. /\ Legal2(f, v) => Back2(f, Sent2(f, v)) = v
        /\ f[1] \in {"intensity", "min_intensity"} => Back2(f, Sent2(f, v)) \in 0..1000
    BY <2>2, SentFits, SMTT(30)
  <2>4. d[f[1]] = Back2(f, Sent2(f, v))
    BY <2>1, Zenon DEF v
  <2> DEFINE b == Back2(f, Sent2(f, v))
             lit == f[1] \in {"intensity", "min_intensity"}
  <2>5. d[f[1]] = b /\ (Legal2(f, v) => b = v) /\ (lit => b \in 0..1000)
    BY <2>3, <2>4, Zenon
  <2> HIDE DEF b, lit
  <2>6. (Legal2(f, v) => d[f[1]] = v) /\ (lit => d[f[1]] \in 0..1000)
    BY <2>5, ZenonT(40)
  <2> QED  BY <2>6, Zenon DEF v, lit
<1>23. q.command = 34
  BY <1>1 DEF Packet
<1>24. Hears2(e, page, state, s, q, d)
  BY <1>13, <1>20, <1>21, <1>22, <1>23 DEF Hears2, layout, mode, whole
<1> QED  BY <1>24, Zenon DEF q, d

-------------------------------------------------------------------------------
(* The steady look, and what the setters ask for.                        *)

(* The steady look as reports leave it, and the shift that was last        *)
(* reported.                                                               *)
SteadyHeard(look, gm) ==
  /\ look["intensity"] \in 0..1000
  /\ "hue" \in DOMAIN look => look["hue"] \in 0..360
  /\ "saturation" \in DOMAIN look => look["saturation"] \in 0..100
  /\ "kelvin" \in DOMAIN look => Tenfold(look["kelvin"], 0, 2023)
  /\ gm \in 0..200

(* The temperatures of a profile are whole hundreds.                     *)
LEMMA Profile ==
  /\ \E a, b \in 8..200 : MinKelvin = 100 * a /\ MaxKelvin = 100 * b /\ a <= b
  /\ GmV2 \in {0, 1}
<1>1. PICK a \in 8..200 : MinKelvin = 100 * a
  BY ProfileAssumption
<1>2. PICK b \in 8..200 : MaxKelvin = 100 * b
  BY ProfileAssumption
<1>3. 100 * a <= 100 * b /\ GmV2 \in {0, 1}
  BY <1>1, <1>2, ProfileAssumption
<1>4. a <= b
  BY <1>3, SMTT(30)
<1> QED  BY <1>1, <1>2, <1>3, <1>4

(* The temperature an effect is given by default can be sent as it is.   *)
LEMMA DefaultTens ==
  ASSUME SteadyHeard(steady, preferredGm)
  PROVE  Tenfold(DefaultKelvin, 80, 2000) /\ DefaultKelvin \in 800..20000
<1>1. PICK a \in 8..200, b \in 8..200 : MinKelvin = 100 * a /\ MaxKelvin = 100 * b /\ a <= b
  BY Profile, SMTT(30)
<1>2. CASE "kelvin" \in DOMAIN steady
  <2> DEFINE v == steady["kelvin"]
  <2>1. DefaultKelvin = Clamp(v, 100 * a, 100 * b)
    BY <1>1, <1>2 DEF DefaultKelvin
  <2>2. PICK n \in 0..2023 : v = 10 * n
    BY <1>2 DEF SteadyHeard, Tenfold
  <2> HIDE DEF v
  <2>3. \E m \in 80..2000 : DefaultKelvin = 10 * m
    <3>1. CASE v < 100 * a
      <4>1. DefaultKelvin = 10 * (10 * a) /\ 10 * a \in 80..2000
        BY <2>1, <2>2, <3>1 DEF Clamp
      <4> QED  BY <4>1
    <3>2. CASE ~(v < 100 * a) /\ v > 100 * b
      <4>1. DefaultKelvin = 10 * (10 * b) /\ 10 * b \in 80..2000
        BY <2>1, <2>2, <3>2 DEF Clamp
      <4> QED  BY <4>1
    <3>3. CASE ~(v < 100 * a) /\ ~(v > 100 * b)
      <4>1. DefaultKelvin = 10 * n /\ n \in 80..2000
        BY <2>1, <2>2, <3>3, SMTT(30) DEF Clamp
      <4> QED  BY <4>1
    <3> QED  BY <3>1, <3>2, <3>3
  <2> QED  BY <2>3 DEF Tenfold
<1>3. CASE "kelvin" \notin DOMAIN steady
  <2>1. DefaultKelvin = (100 * a + 100 * b) \div 2
    BY <1>1, <1>3 DEF DefaultKelvin
  <2> DEFINE n == 5 * (a + b)
  <2>2. n \in 80..2000 /\ DefaultKelvin = 10 * n
    BY <1>1, <2>1
  <2> HIDE DEF n
  <2> QED  BY <2>2 DEF Tenfold
<1> QED  BY <1>2, <1>3, SMTT(30)

(* A shift as the fixture can carry it.                                    *)
LEMMA Shifts ==
  ASSUME NEW gm \in 0..200
  PROVE  CoarseShift(gm) \in 0..200 /\ (GmV2 = 0 => Tenfold(CoarseShift(gm), 0, 20))
<1>1. GmV2 \in {0, 1}
  BY Profile
<1>2. CASE GmV2 = 1
  BY <1>2 DEF CoarseShift
<1>3. CASE GmV2 = 0
  <2> DEFINE n == (gm + 5) \div 10
  <2>1. n \in 0..20
    OBVIOUS
  <2>2. CoarseShift(gm) = 10 * n
    BY <1>3 DEF CoarseShift
  <2> HIDE DEF n
  <2> QED  BY <2>1, <2>2 DEF Tenfold
<1> QED  BY <1>1, <1>2, <1>3

(* What the setters make of a value: within bounds, a temperature in steps *)
(* of fifty.                                                               *)
LEMMA KelvinTarget ==
  ASSUME NEW v \in Int, NEW e
  PROVE  \E n \in 16..400 : Target("kelvin", v, e) = 50 * n
<1>1. PICK a \in 8..200, b \in 8..200 : MinKelvin = 100 * a /\ MaxKelvin = 100 * b /\ a <= b
  BY Profile
<1> DEFINE n == (v - 100 * a + 25) \div 50
           x == 100 * a + 50 * n
           t == Target("kelvin", v, e)
<1>2. t = Clamp(x, 100 * a, 100 * b)
  BY <1>1 DEF Target
<1>3. n \in Int
  OBVIOUS
<1> HIDE DEF n
<1>4. CASE x < 100 * a
  <2>1. t = 50 * (2 * a) /\ 2 * a \in 16..400
    BY <1>2, <1>4 DEF Clamp
  <2> HIDE DEF t
  <2> QED  BY <2>1 DEF t
<1>5. CASE ~(x < 100 * a) /\ x > 100 * b
  <2>1. t = 50 * (2 * b) /\ 2 * b \in 16..400
    BY <1>2, <1>3, <1>5 DEF Clamp
  <2> HIDE DEF t
  <2> QED  BY <2>1 DEF t
<1>6. CASE ~(x < 100 * a) /\ ~(x > 100 * b)
  <2>1. t = 50 * (2 * a + n) /\ 2 * a + n \in 16..400
    BY <1>2, <1>3, <1>6 DEF Clamp
  <2> HIDE DEF t
  <2> QED  BY <2>1 DEF t
<1> QED  BY <1>4, <1>5, <1>6, SMTT(30)

(* A temperature that is sent as it is.                                    *)
InTens(v) == v \in 800..20000 /\ Tenfold(v, 80, 2000)

(* The setters ask for temperatures that are sent as they are.           *)
LEMMA KelvinTens ==
  ASSUME NEW v \in Int, NEW e
  PROVE  InTens(Target("kelvin", v, e))
<1>1. PICK n \in 16..400 : Target("kelvin", v, e) = 50 * n
  BY KelvinTarget, SMTT(30)
<1>2. ASSUME NEW t, t = 50 * n PROVE InTens(t)
  <2>1. t = 10 * (5 * n) /\ 5 * n \in 80..2000
    BY <1>2
  <2> QED  BY <2>1 DEF InTens, Tenfold
<1> QED  BY <1>1, <1>2, Zenon

(* A report of a steady look.                                              *)
LEMMA HeardSteady ==
  ASSUME NEW p, p.command \in {1, 2}, InRange(p), NEW gm \in 0..200
  PROVE  LET s == DecodeStatus(p) IN SteadyHeard(s, IF p.command = 2 THEN s.gm ELSE gm)
<1> DEFINE hsi == p.command = 1
           layout == StatusLayout(hsi)
           w == Fields(layout, p)
           s == DecodeStatus(p)
<1>1. Apart(layout)
  <2>1. layout = StatusLayout(TRUE) \/ layout = StatusLayout(FALSE)
    OBVIOUS
  <2>2. Apart(StatusLayout(TRUE)) /\ Apart(StatusLayout(FALSE))
    BY DEF StatusLayout, Apart, Place
  <2> QED  BY <2>1, <2>2
<1>2. \A f \in layout : w[f[1]] \in Int
  <2> HIDE DEF layout, w
  <2>1. ASSUME NEW f \in layout PROVE w[f[1]] \in Int
    <3>1. w[f[1]] = Value(p, f[2], f[3]) /\ f[2] \in Int /\ f[3] \in 1..10
      BY <1>1, ReadField DEF Apart, Place, w
    <3>2. Value(p, f[2], f[3]) \in Int
      <4>1. Value(p, f[2], f[3]) \in 0..(2^f[3] - 1)
        BY <3>1, ValueBound
      <4> QED  BY <4>1
    <3> QED  BY <3>1, <3>2
  <2> QED  BY <2>1
<1>3. "intensity" \in DOMAIN s => s["intensity"] \in 0..1000
  <2>1. Decoded(p) = s
    BY DEF Decoded
  <2> HIDE DEF s
  <2>2. p.command # 7 /\ p.command # 34
    OBVIOUS
  <2> QED  BY <2>1, <2>2 DEF InRange
<1> HIDE DEF w
<1>4. CASE hsi
  <2> DEFINE head == [hsi |-> hsi, on |-> w.on]
             tail == [intensity |-> Clamp(w.intensity, 0, 1000), hue |-> Clamp(w.hue, 0, 360),
                      saturation |-> Clamp(w.saturation, 0, 100)]
  <2>1. s = head ++ tail
    BY <1>4, Zenon DEF DecodeStatus, w, layout
  <2>2. /\ <<"intensity", 62, 10>> \in layout /\ <<"saturation", 46, 7>> \in layout
        /\ <<"hue", 53, 9>> \in layout
    BY <1>4 DEF StatusLayout
  <2>3. w["intensity"] \in Int /\ w["saturation"] \in Int /\ w["hue"] \in Int
    <3> HIDE DEF layout
    <3>1. \A n, at, width : <<n, at, width>>[1] = n
      OBVIOUS
    <3> QED  BY <1>2, <2>2, <3>1
  <2>4. /\ DOMAIN s = {"hsi", "on", "intensity", "hue", "saturation"}
        /\ s["hue"] = Clamp(w["hue"], 0, 360) /\ s["saturation"] = Clamp(w["saturation"], 0, 100)
    BY <2>1 DEF ++
  <2> HIDE DEF s
  <2>5. s["hue"] \in 0..360 /\ s["saturation"] \in 0..100
    BY <2>3, <2>4 DEF Clamp
  <2>6. SteadyHeard(s, gm)
    BY <1>3, <2>4, <2>5 DEF SteadyHeard
  <2> QED  BY <1>4, <2>6 DEF s
<1>5. CASE ~hsi
  <2> DEFINE head == [hsi |-> hsi, on |-> w.on]
             shift == Clamp(IF w.gmFlag = 1 THEN w.gm + 100 * w.gmHigh ELSE w.gm * 10, 0, 200)
             tail == [intensity |-> w.intensity, kelvin |-> (w.cct + 1000 * w.high) * 10,
                      gm |-> shift]
  <2>1. s = head ++ tail
    BY <1>5, Zenon DEF DecodeStatus, w, layout
  <2>2. /\ <<"cct", 52, 10>> \in layout /\ <<"high", 42, 1>> \in layout
        /\ <<"gm", 45, 7>> \in layout /\ <<"gmHigh", 44, 1>> \in layout
    BY <1>5 DEF StatusLayout
  <2>3. w["cct"] \in 0..1023 /\ w["high"] \in 0..1 /\ w["gm"] \in Int /\ w["gmHigh"] \in Int
    <3> HIDE DEF layout
    <3>1. \A n, at, width : <<n, at, width>>[1] = n /\ <<n, at, width>>[3] = width
      OBVIOUS
    <3>2. w["gm"] \in Int /\ w["gmHigh"] \in Int
      BY <1>2, <2>2, <3>1
    <3> DEFINE f == <<"cct", 52, 10>>
               g == <<"high", 42, 1>>
    <3>3. f \in layout /\ f[1] = "cct" /\ f[3] = 10 /\ g \in layout /\ g[1] = "high" /\ g[3] = 1
      BY <2>2
    <3>4. 2^10 - 1 = 1023 /\ 2^1 - 1 = 1
      OBVIOUS
    <3> HIDE DEF f, g
    <3>5. w[f[1]] \in 0..(2^f[3] - 1) /\ w[g[1]] \in 0..(2^g[3] - 1)
      BY <1>1, <3>3, FieldBound, Zenon DEF w
    <3>6. w["cct"] \in 0..(2^10 - 1) /\ w["high"] \in 0..(2^1 - 1)
      BY <3>3, <3>5, Zenon
    <3>7. w["cct"] \in 0..1023 /\ w["high"] \in 0..1
      BY <3>4, <3>6, SMTT(30)
    <3> QED  BY <3>2, <3>7
  <2>4. /\ DOMAIN s = {"hsi", "on", "intensity", "kelvin", "gm"}
        /\ s["kelvin"] = (w["cct"] + 1000 * w["high"]) * 10 /\ s["gm"] = shift
    <3> HIDE DEF shift
    <3> QED  BY <2>1 DEF ++
  <2>5. shift \in 0..200
    BY <2>3, SMTT(30) DEF Clamp
  <2> HIDE DEF s, shift
  <2>6. Tenfold(s["kelvin"], 0, 2023)
    <3> DEFINE a == w["cct"]
               b == w["high"]
               v == s["kelvin"]
    <3>1. a \in 0..1023 /\ b \in 0..1 /\ v = (a + 1000 * b) * 10
      BY <2>3, <2>4, ZenonT(40)
    <3> HIDE DEF a, b, v
    <3>2. a + 1000 * b \in 0..2023 /\ v = 10 * (a + 1000 * b)
      BY <3>1
    <3>3. Tenfold(v, 0, 2023)
      BY <3>2, SMTT(30) DEF Tenfold
    <3> QED  BY <3>3 DEF v
  <2>7. SteadyHeard(s, s.gm)
    BY <1>3, <2>4, <2>5, <2>6 DEF SteadyHeard
  <2> QED  BY <1>5, <2>7 DEF s
<1> QED  BY <1>4, <1>5

(* What a setter changes of a command-7 effect.                            *)
Patch(field, target, s) ==
  At(field, target) ++
  CASE field = "gm" -> [gmFlag |-> GmV2]
    [] field = "mode" /\ target = 1 /\ s.mode # 1 ->
         [hue |-> Given(steady, "hue", 0), saturation |-> Given(steady, "saturation", 100)]
    [] field = "mode" /\ target = 0 /\ s.mode # 0 ->
         [kelvin |-> DefaultKelvin, gm |-> CoarseShift(preferredGm), gmFlag |-> GmV2]
    [] OTHER -> <<>>

(* The ranges of the parameters, value by value.                         *)
LEMMA Ranges7 ==
  ASSUME NEW e
  PROVE  /\ \A v \in 0..1000 : v \in EffectRange(e, "intensity")
         /\ \A v \in 1..MaxRate(e) : v \in EffectRange(e, "frequency")
         /\ \A v \in 0..MaxVariant(e) : v \in EffectRange(e, "variant")
         /\ \A v \in 0..100 : v \in EffectRange(e, "saturation")
         /\ \A v \in 0..360 : v \in EffectRange(e, "hue")
         /\ \A v \in 0..200 : v \in EffectRange(e, "gm")
         /\ \A v \in {0, 1} : v \in EffectRange(e, "mode") /\ v \in EffectRange(e, "gmFlag")
         /\ \A v : InTens(v) => v \in EffectRange(e, "kelvin") /\ Tenfold(v, 80, 2000)
<1>1. \A v \in 0..1000 : v \in EffectRange(e, "intensity")
  BY DEF EffectRange
<1>2. \A v \in 1..MaxRate(e) : v \in EffectRange(e, "frequency")
  BY DEF EffectRange
<1>3. \A v \in 0..MaxVariant(e) : v \in EffectRange(e, "variant")
  BY DEF EffectRange
<1>4. \A v \in 0..100 : v \in EffectRange(e, "saturation")
  BY DEF EffectRange
<1>5. \A v \in 0..360 : v \in EffectRange(e, "hue")
  BY DEF EffectRange
<1>6. \A v \in 0..200 : v \in EffectRange(e, "gm")
  BY DEF EffectRange
<1>7. \A v \in {0, 1} : v \in EffectRange(e, "mode") /\ v \in EffectRange(e, "gmFlag")
  BY DEF EffectRange
<1>8. \A v : InTens(v) => v \in EffectRange(e, "kelvin") /\ Tenfold(v, 80, 2000)
  BY DEF EffectRange, InTens
<1> QED  BY <1>1, <1>2, <1>3, <1>4, <1>5, <1>6, <1>7, <1>8

(* A patch of one value in range is legal.                               *)
LEMMA Just ==
  ASSUME NEW e, NEW n \in Plain7, NEW v \in EffectRange(e, n), n # "gmFlag"
  PROVE  Legal(e, At(n, v))
<1> DEFINE t == At(n, v)
<1>1. DOMAIN t = {n} /\ t[n] = v
  BY DEF At
<1>2. n # "kelvin" /\ n # "gm"
  BY DEF Plain7
<1> HIDE DEF t
<1>3. Legal7(e, t, n)
  BY <1>1, <1>2 DEF Legal7
<1> QED  BY <1>1, <1>2, <1>3 DEF Legal, t

(* So is one temperature,                                                *)
LEMMA JustKelvin ==
  ASSUME NEW e, NEW v, InTens(v)
  PROVE  Legal(e, At("kelvin", v))
<1> DEFINE t == At("kelvin", v)
<1>1. DOMAIN t = {"kelvin"} /\ t["kelvin"] = v
  BY DEF At
<1>2. v \in EffectRange(e, "kelvin") /\ Tenfold(v, 80, 2000)
  BY Ranges7
<1> HIDE DEF t
<1>3. Legal7(e, t, "kelvin")
  BY <1>1, <1>2 DEF Legal7
<1> QED  BY <1>1, <1>3 DEF Legal, Colored, t

(* one shift with its flag,                                              *)
LEMMA JustGm ==
  ASSUME NEW e, NEW v \in 0..200, GmV2 = 0 => Tenfold(v, 0, 20)
  PROVE  Legal(e, At("gm", v) ++ [gmFlag |-> GmV2])
<1> DEFINE t == At("gm", v) ++ [gmFlag |-> GmV2]
<1>1. DOMAIN t = {"gm", "gmFlag"} /\ t["gm"] = v /\ t["gmFlag"] = GmV2
  BY DEF At, ++
<1> HIDE DEF t
<1>2. Given(t, "gmFlag", 0) = GmV2
  BY <1>1 DEF Given
<1>3. v \in EffectRange(e, "gm") /\ GmV2 \in EffectRange(e, "gmFlag")
  BY Ranges7, Profile
<1>4. Legal7(e, t, "gm")
  BY <1>1, <1>2, <1>3 DEF Legal7
<1>5. Legal7(e, t, "gmFlag")
  BY <1>1, <1>3 DEF Legal7
<1> QED  BY <1>1, <1>4, <1>5 DEF Legal, Colored, Plain7, t

(* a change to colour mode                                               *)
LEMMA Coloured ==
  ASSUME NEW e, NEW hue \in 0..360, NEW saturation \in 0..100
  PROVE  Legal(e, At("mode", 1) ++ [hue |-> hue, saturation |-> saturation])
<1> DEFINE t == At("mode", 1) ++ [hue |-> hue, saturation |-> saturation]
<1>1. /\ DOMAIN t = {"mode", "hue", "saturation"} /\ t["mode"] = 1 /\ t["hue"] = hue
      /\ t["saturation"] = saturation
  BY DEF At, ++
<1> HIDE DEF t
<1>2. /\ 1 \in EffectRange(e, "mode") /\ hue \in EffectRange(e, "hue")
      /\ saturation \in EffectRange(e, "saturation")
  BY Ranges7
<1>3. Legal7(e, t, "mode") /\ Legal7(e, t, "hue") /\ Legal7(e, t, "saturation")
  BY <1>1, <1>2 DEF Legal7
<1> QED  BY <1>1, <1>3 DEF Legal, Plain7, t

(* and one to white.                                                     *)
LEMMA Whitened ==
  ASSUME NEW e, NEW kelvin, InTens(kelvin), NEW gm \in 0..200, GmV2 = 0 => Tenfold(gm, 0, 20)
  PROVE  Legal(e, At("mode", 0) ++ [kelvin |-> kelvin, gm |-> gm, gmFlag |-> GmV2])
<1> DEFINE t == At("mode", 0) ++ [kelvin |-> kelvin, gm |-> gm, gmFlag |-> GmV2]
<1>1. /\ DOMAIN t = {"mode", "kelvin", "gm", "gmFlag"} /\ t["mode"] = 0
      /\ t["kelvin"] = kelvin /\ t["gm"] = gm /\ t["gmFlag"] = GmV2
  BY DEF At, ++
<1> HIDE DEF t
<1>2. Given(t, "gmFlag", 0) = GmV2
  BY <1>1 DEF Given
<1>3. /\ 0 \in EffectRange(e, "mode") /\ gm \in EffectRange(e, "gm")
      /\ GmV2 \in EffectRange(e, "gmFlag")
      /\ kelvin \in EffectRange(e, "kelvin") /\ Tenfold(kelvin, 80, 2000)
  BY Ranges7, Profile
<1>4. Legal7(e, t, "mode") /\ Legal7(e, t, "gmFlag")
  BY <1>1, <1>3 DEF Legal7
<1>5. Legal7(e, t, "kelvin")
  BY <1>1, <1>3 DEF Legal7
<1>6. Legal7(e, t, "gm")
  BY <1>1, <1>2, <1>3 DEF Legal7
<1> QED  BY <1>1, <1>4, <1>5, <1>6 DEF Legal, Colored, Plain7, t

(* A patch with nothing added.                                           *)
LEMMA Nothing ==
  ASSUME NEW n, NEW v
  PROVE  At(n, v) ++ <<>> = At(n, v)
  BY DEF At, ++

(* Every patch of set_effect_parameter is legal.                         *)
LEMMA PatchLegal ==
  ASSUME SteadyHeard(steady, preferredGm), NEW s, NEW e \in Effects1,
         NEW field \in DOMAIN Asked \ {"intensity"}, NEW value \in Asked[field],
         NEW target, target = Target(field, value, e),
         field = "variant" => target <= MaxVariant(e)
  PROVE  Legal(e, Patch(field, target, s))
<1>1. /\ field \in {"frequency", "kelvin", "hue", "saturation", "gm", "variant", "mode"}
      /\ field = "variant" => value \in Nat
      /\ field = "mode" => value \in {0, 1}
      /\ field \notin {"variant", "mode"} => value \in Int
  BY AskedAssumption
<1>2. MaxRate(e) \in {10, 11} /\ MaxVariant(e) \in 0..7
  BY Limits
<1>3. field \notin {"gm", "mode"} => Patch(field, target, s) = At(field, target)
  BY Nothing DEF Patch
<1>4. CASE field \in {"frequency", "hue", "saturation", "variant"}
  <2>1. target \in EffectRange(e, field)
    <3>1. CASE field = "frequency"
      <4>1. target = Clamp(value, 1, MaxRate(e)) /\ value \in Int
        BY <1>1, <3>1 DEF Target
      <4>2. target \in 1..MaxRate(e)
        BY <1>2, <4>1 DEF Clamp
      <4> QED  BY <3>1, <4>2, Ranges7
    <3>2. CASE field = "hue"
      <4>1. target = Clamp(value, 0, 360) /\ value \in Int
        BY <1>1, <3>2 DEF Target
      <4>2. target \in 0..360
        BY <4>1 DEF Clamp
      <4> QED  BY <3>2, <4>2, Ranges7
    <3>3. CASE field = "saturation"
      <4>1. target = Clamp(value, 0, 100) /\ value \in Int
        BY <1>1, <3>3 DEF Target
      <4>2. target \in 0..100
        BY <4>1 DEF Clamp
      <4> QED  BY <3>3, <4>2, Ranges7
    <3>4. CASE field = "variant"
      <4>1. target = value /\ value \in Nat /\ target <= MaxVariant(e)
        BY <1>1, <3>4 DEF Target
      <4>2. target \in 0..MaxVariant(e)
        BY <1>2, <4>1
      <4> QED  BY <3>4, <4>2, Ranges7
    <3> QED  BY <1>4, <3>1, <3>2, <3>3, <3>4
  <2>2. field \in Plain7 /\ field # "gmFlag"
    BY <1>4 DEF Plain7
  <2>3. Legal(e, At(field, target))
    BY <2>1, <2>2, Just
  <2> QED  BY <1>3, <1>4, <2>3
<1>5. CASE field = "kelvin"
  <2>1. value \in Int /\ target = Target("kelvin", value, e)
    BY <1>1, <1>5
  <2>2. InTens(target)
    BY <2>1, KelvinTens, Zenon
  <2>3. Legal(e, At("kelvin", target))
    BY <2>2, JustKelvin
  <2> QED  BY <1>3, <1>5, <2>3
<1>6. CASE field = "gm"
  <2>1. target = CoarseShift(Clamp(value, 0, 200)) /\ value \in Int
    BY <1>1, <1>6 DEF Target
  <2>2. Clamp(value, 0, 200) \in 0..200
    BY <2>1, SMTT(30) DEF Clamp
  <2>3. target \in 0..200 /\ (GmV2 = 0 => Tenfold(target, 0, 20))
    BY <2>1, <2>2, Shifts
  <2>4. Patch(field, target, s) = At("gm", target) ++ [gmFlag |-> GmV2]
    BY <1>6, Zenon DEF Patch
  <2> QED  BY <2>3, <2>4, JustGm
<1>7. CASE field = "mode"
  <2>1. target = value /\ target \in {0, 1}
    BY <1>1, <1>7 DEF Target
  <2> DEFINE hue == Given(steady, "hue", 0)
             saturation == Given(steady, "saturation", 100)
  <2>2. CASE target = 1 /\ s.mode # 1
    <3>1. Patch(field, target, s) = At("mode", 1) ++ [hue |-> hue, saturation |-> saturation]
      BY <1>7, <2>2 DEF Patch
    <3>2. hue \in 0..360 /\ saturation \in 0..100
      BY SMTT(30) DEF SteadyHeard, Given
    <3> HIDE DEF hue, saturation
    <3>3. Legal(e, At("mode", 1) ++ [hue |-> hue, saturation |-> saturation])
      BY <3>2, Coloured
    <3> QED  BY <3>1, <3>3
  <2>3. CASE target = 0 /\ s.mode # 0
    <3> DEFINE gm == CoarseShift(preferredGm)
               kelvin == DefaultKelvin
    <3>1. Patch(field, target, s) = At("mode", 0) ++ [kelvin |-> kelvin, gm |-> gm, gmFlag |-> GmV2]
      BY <1>7, <2>3 DEF Patch
    <3>2. gm \in 0..200 /\ (GmV2 = 0 => Tenfold(gm, 0, 20))
      <4>1. preferredGm \in 0..200
        BY DEF SteadyHeard
      <4> QED  BY <4>1, Shifts
    <3>3. InTens(kelvin)
      BY DefaultTens DEF InTens
    <3> HIDE DEF gm, kelvin
    <3>4. Legal(e, At("mode", 0) ++ [kelvin |-> kelvin, gm |-> gm, gmFlag |-> GmV2])
      BY <3>2, <3>3, Whitened
    <3> QED  BY <3>1, <3>4
  <2>4. CASE ~(target = 1 /\ s.mode # 1) /\ ~(target = 0 /\ s.mode # 0)
    <3>1. Patch(field, target, s) = At("mode", target)
      <4>1. Patch(field, target, s) = At(field, target) ++ <<>>
        BY <1>7, <2>4, Zenon DEF Patch
      <4> QED  BY <1>7, <4>1, Nothing
    <3>2. target \in EffectRange(e, "mode") /\ "mode" \in Plain7
      BY <2>1, Ranges7 DEF Plain7
    <3>3. Legal(e, At("mode", target))
      BY <3>2, Just
    <3> QED  BY <3>1, <3>3
  <2> QED  BY <2>2, <2>3, <2>4
<1> QED  BY <1>1, <1>4, <1>5, <1>6, <1>7

-------------------------------------------------------------------------------
(* What is known of a call, and of the fixture it was made for.          *)

(* A new effect of command 7, and the brightness of one that was heard.    *)
LEMMA Fresh7 ==
  ASSUME NEW e \in Effects1, NEW t, Numbers(t)
  PROVE  EncodeEffect(e, t).command = 7 /\ Ranged(EncodeEffect(e, t))
<1> DEFINE q == EncodeEffect(e, t)
           now == DecodeEffect(q)
           m == EffectWire(e, t)["mode"]
<1>1. Hears7(e, t, q, now, m)
  BY Heard7
<1>2. EffectIds[e] \in 0..14
  BY Limits
<1> HIDE DEF now, m, q
<1>3. /\ q.command = 7 /\ Value(q, 64, 8) = EffectIds[e]
      /\ DOMAIN now = {"on", "effect"} \cup Carried7(e, m) /\ now["effect"] = e
      /\ \A n \in Carried7(e, m) : now[n] \in EffectRange(e, n)
  BY <1>1 DEF Hears7
<1>4. Value(q, 64, 8) \in 0..14 /\ \A n \in DOMAIN now \ {"effect", "on"} : now[n] \in EffectRange(now.effect, n)
  BY <1>2, <1>3
<1>5. q.command = 7 /\ Ranged(q)
  BY <1>3, <1>4 DEF Ranged, now
<1> QED  BY <1>5 DEF q

(* The brightness of an effect that was heard.                           *)
LEMMA Lit7 ==
  ASSUME NEW p, Ranged(p)
  PROVE  /\ DecodeEffect(p).effect \in Effects1 /\ "intensity" \in DOMAIN DecodeEffect(p)
         /\ DecodeEffect(p)["intensity"] \in 0..1000
<1> DEFINE s == DecodeEffect(p)
<1>1. PICK e \in Effects1, m \in {0, 1} : EffectIds[e] = Value(p, 64, 8) /\ Reads7(s, e, m)
  BY Read7
<1> DEFINE layout == DecodeLayout(e, m)
<1>2. <<"intensity", 54, 10>> \in layout \/ <<"intensity", 46, 10>> \in layout
  BY Layouts7 DEF Sound7
<1>3. \A at : <<"intensity", at, 10>>[1] = "intensity"
  OBVIOUS
<1> HIDE DEF layout, s
<1>4. "intensity" \in NamesOf(layout)
  BY <1>2, <1>3 DEF NamesOf
<1>5. "intensity" \in Carried7(e, m)
  BY <1>4 DEF Carried7, layout
<1>6. \A v \in EffectRange(e, "intensity") : v \in 0..1000
  BY DEF EffectRange
<1>7. s.effect \in Effects1 /\ "intensity" \in DOMAIN s /\ s["intensity"] \in 0..1000
  BY <1>1, <1>5, <1>6 DEF Reads7
<1> QED  BY <1>7 DEF s

(* A packet as it arrives, and two pages of the same program.              *)
Arrives(p) == IF p.command \in {1, 2} THEN [p EXCEPT !.bits = @ \cup {8}] ELSE p
Alike(p, q) == p.command = q.command /\ Value(p, 64, 8) = Value(q, 64, 8)

(* What a call sends: every page once, and each as asked for.              *)
Plan(packets, family, base, asked) ==
  /\ Len(packets) \in Nat /\ DOMAIN packets = 1..Len(packets)
  /\ \A i \in DOMAIN packets : packets[i].command \in {7, 33, 34}
  /\ \A i, j \in DOMAIN packets : Page(packets[i]) = Page(packets[j]) => i = j
  /\ \A k \in Rebuilt(family, base) :
       \E i \in DOMAIN packets :
         Page(packets[i]) = k /\ Keeps(Decoded(packets[i]), base[k], asked)
Rebuilds(packets, family, base, asked) ==
  /\ Plan(packets, family, base, asked)
  /\ \A i \in DOMAIN packets : \A k \in DOMAIN fixture : Alike(fixture[k], packets[i])

AllInRange(packets) == \A i \in DOMAIN packets : InRange(Arrives(packets[i]))

(* The values heard of the fixture, and those of a call.                   *)
FixtureInRange == \A k \in DOMAIN fixture : InRange(fixture[k])
Numeric2(s) ==
  /\ {"effect", "on"} \subseteq DOMAIN s
  /\ \A n \in DOMAIN s \ {"effect", "state", "on"} :
       s[n] \in Int /\ (n \in {"intensity", "min_intensity"} => s[n] \in 0..1000)
ShownInRange ==
  /\ shown.family \in {"none", "effect", "effect2", "pixel"}
  /\ shown.family = "effect" => \E p : Ranged(p) /\ shown.state = DecodeEffect(p)
  /\ shown.family = "effect2" => Numeric2(shown.state)
CallInRange ==
  call.phase # "idle" =>
    /\ {"phase", "family", "packets", "sent", "clean", "base", "asked"} \subseteq DOMAIN call
    /\ AllInRange(call.packets)
CallRebuilds ==
  call.phase # "idle" /\ call.clean =>
    /\ Rebuilds(call.packets, call.family, call.base, call.asked)
    /\ call.sent \in 0..Len(call.packets)
    /\ call.phase = "confirm" => call.sent = Len(call.packets)
    /\ \A i \in 1..call.sent : /\ Page(call.packets[i]) \in DOMAIN fixture
                              /\ fixture[Page(call.packets[i])] = call.packets[i]
Values ==
  /\ FixtureInRange /\ SteadyHeard(steady, preferredGm) /\ ShownInRange
  /\ CallInRange /\ CallRebuilds

(* What is known of a call of the running effect, of the fixture's pages   *)
(* all heard.                                                              *)
LEMMA HeardAll ==
  ASSUME IInv, told = DOMAIN fixture
  PROVE  \E first \in DOMAIN fixture :
           /\ fixture[first].command \in Commands
           /\ \A k \in DOMAIN fixture : /\ fixture[k].command = fixture[first].command
                                        /\ Value(fixture[k], 64, 8) = Value(fixture[first], 64, 8)
                                        /\ Page(fixture[k]) = k /\ Shows(k)
<1>1. WellFormed(fixture) /\ \A k \in DOMAIN fixture : Shows(k)
  BY DEF IInv
<1>2. PICK first : first \in DOMAIN fixture
  BY <1>1 DEF WellFormed
<1> QED  BY <1>1, <1>2 DEF WellFormed

(* What is shown is of the family whose page was heard.                  *)
LEMMA Families ==
  ASSUME NEW k, Shows(k), fixture[k].command \in Commands
  PROVE  /\ shown.family = "effect" => fixture[k].command = 7
         /\ shown.family = "effect2" => fixture[k].command = 34
         /\ shown.family = "pixel" => fixture[k].command = 33
  BY DEF Shows, ShowsLook, ShowsEffect, ShowsEffect2, ShowsPixel, Commands, NoEffect

(* A call of one packet.                                                 *)
LEMMA One ==
  ASSUME NEW packet, InRange(packet), packet.command \in {7, 33, 34}
  PROVE  /\ AllInRange(<<packet>>)
         /\ Len(<<packet>>) \in Nat /\ DOMAIN <<packet>> = 1..Len(<<packet>>)
         /\ \A i \in DOMAIN <<packet>> : i = 1 /\ <<packet>>[i] = packet
<1>1. Arrives(packet) = packet
  BY DEF Arrives
<1>2. DOMAIN <<packet>> = 1..1 /\ Len(<<packet>>) = 1 /\ <<packet>>[1] = packet
  OBVIOUS
<1> QED  BY <1>1, <1>2 DEF AllInRange

(* The running effect of command 7 rebuilt.                                *)
LEMMA Rebuild7 ==
  ASSUME IInv, Values, shown.family = "effect", NEW patch, Legal(shown.state.effect, patch),
         NEW packet, packet = EffectPayload(shown.state, patch)
  PROVE  /\ AllInRange(<<packet>>)
         /\ told = DOMAIN fixture => Rebuilds(<<packet>>, "effect", Look(fixture), patch)
<1>1. PICK p : Ranged(p) /\ shown.state = DecodeEffect(p)
  BY DEF Values, ShownInRange
<1>2. DefaultKelvin \in Int
  <2>1. DefaultKelvin \in 800..20000
    BY DefaultTens DEF Values
  <2> QED  BY <2>1, SMTT(30)
<1>3. ASSUME NEW b, Ranged(b), shown.state = DecodeEffect(b) PROVE Kept7(b, packet, patch)
  <2>1. Legal(DecodeEffect(b).effect, patch)
    BY <1>3
  <2>2. Kept7(b, EffectPayload(DecodeEffect(b), patch), patch)
    BY <1>2, <1>3, <2>1, Keep7
  <2> QED  BY <1>3, <2>2
<1>4. packet.command = 7 /\ Ranged(packet)
  <2>1. Kept7(p, packet, patch)
    BY <1>1, <1>3
  <2> QED  BY <2>1 DEF Kept7
<1>5. InRange(packet)
  BY <1>4, InRange7
<1>6. ASSUME told = DOMAIN fixture PROVE Rebuilds(<<packet>>, "effect", Look(fixture), patch)
  <2>1. PICK first \in DOMAIN fixture :
          /\ fixture[first].command \in Commands
          /\ \A k \in DOMAIN fixture : /\ fixture[k].command = fixture[first].command
                                       /\ Value(fixture[k], 64, 8) = Value(fixture[first], 64, 8)
                                       /\ Page(fixture[k]) = k /\ Shows(k)
    BY <1>6, HeardAll
  <2>2. \A k \in DOMAIN fixture : fixture[k].command = 7
    BY <2>1, Families
  <2>3. \A k \in DOMAIN fixture : k = 0
    BY <2>1, <2>2, Decoding
  <2> DEFINE b == fixture[0]
             base == Look(fixture)
  <2>4. 0 \in DOMAIN fixture /\ b.command = 7 /\ Shows(0)
    BY <2>1, <2>2, <2>3
  <2>5. shown.state = DecodeEffect(b)
    BY <2>4 DEF Shows, ShowsEffect, Decoded
  <2>6. Ranged(b)
    BY <2>4, InRange7 DEF Values, FixtureInRange
  <2>7. Kept7(b, packet, patch)
    BY <1>3, <2>5, <2>6
  <2>8. DOMAIN base = {0} /\ base[0] = DecodeEffect(b) /\ Rebuilt("effect", base) = DOMAIN base
    BY <2>3, <2>4 DEF Look, Decoded, Rebuilt
  <2>9. Page(packet) = 0 /\ Decoded(packet) = DecodeEffect(packet)
    BY <1>4, Decoding DEF Decoded
  <2>10. Keeps(Decoded(packet), base[0], patch) /\ Alike(b, packet)
    BY <1>4, <2>4, <2>7, <2>8, <2>9 DEF Kept7, Alike
  <2> DEFINE packets == <<packet>>
  <2>11. /\ Len(packets) \in Nat /\ DOMAIN packets = 1..Len(packets)
         /\ \A i \in DOMAIN packets : i = 1 /\ packets[i] = packet
         /\ 1 \in DOMAIN packets
    BY <1>4, <1>5, One
  <2>12. \A k \in DOMAIN fixture : Alike(fixture[k], packet)
    BY <2>3, <2>10
  <2> HIDE DEF packets, base, b
  <2>13. Plan(packets, "effect", base, patch)
    BY <1>4, <2>8, <2>9, <2>10, <2>11 DEF Plan
  <2>14. Rebuilds(packets, "effect", base, patch)
    BY <2>11, <2>12, <2>13 DEF Rebuilds
  <2> QED  BY <2>14 DEF packets, base
<1> QED  BY <1>4, <1>5, <1>6, One

(* A set of page keys has a least one.                                     *)
LEMMA Least ==
  ASSUME NEW S, S \subseteq 0..17, S # {}
  PROVE  \E x \in S : \A y \in S : x <= y
<1> DEFINE has == \E x \in S : \A y \in S : x <= y
           good == {n \in 0..17 : (\E y \in S : y <= n) => has}
<1>1. 0 \in good
  <2>1. ASSUME NEW y \in S, y <= 0 PROVE \A z \in S : y <= z
    BY <2>1
  <2> QED  BY <2>1
<1>2. ASSUME NEW n \in 0..16, n \in good PROVE n + 1 \in good
  <2>1. ASSUME NEW y \in S, y <= n + 1, \A z \in S : ~(z <= n) PROVE \A z \in S : y <= z
    BY <2>1
  <2>2. n + 1 \in 0..17
    OBVIOUS
  <2> QED  BY <1>2, <2>1, <2>2
<1> HIDE DEF good
<1>3. 1 \in good /\ 2 \in good /\ 3 \in good /\ 4 \in good /\ 5 \in good /\ 6 \in good
  BY <1>1, <1>2
<1>4. 7 \in good /\ 8 \in good /\ 9 \in good /\ 10 \in good /\ 11 \in good /\ 12 \in good
  BY <1>2, <1>3
<1>5. 13 \in good /\ 14 \in good /\ 15 \in good /\ 16 \in good /\ 17 \in good
  BY <1>2, <1>4
<1>6. \E y \in S : y <= 17
  <2>1. PICK y : y \in S
    OBVIOUS
  <2> QED  BY <2>1
<1> QED  BY <1>5, <1>6 DEF good

(* The key and the brightness of a pixel page.                           *)
LEMMA PageBounds ==
  ASSUME NEW s, IsPage(s)
  PROVE  /\ PageKey(s) \in 0..17
         /\ "brightness" \in DOMAIN s => s["brightness"] \in 0..1023
<1>1. ASSUME NEW n \in DOMAIN s, n # "effect"
      PROVE  \E f \in LayoutOf(s) : f[1] = n
  BY <1>1 DEF IsPage
<1>2. ASSUME NEW f \in LayoutOf(s)
      PROVE  (f[1] = "brightness" => f[3] = 10) /\ (f[1] = "serial" => f[3] = 4)
  BY Widths DEF IsPage, LayoutOf
<1>3. \A f \in LayoutOf(s) : s[f[1]] \in 0..(2^f[3] - 1)
  BY DEF IsPage
<1>4. 2^10 - 1 = 1023 /\ 2^4 - 1 = 15
  OBVIOUS
<1>5. "brightness" \in DOMAIN s => s["brightness"] \in 0..(2^10 - 1)
  BY <1>1, <1>2, <1>3, Zenon
<1>6. "serial" \in DOMAIN s => s["serial"] \in 0..(2^4 - 1)
  BY <1>1, <1>2, <1>3, Zenon
<1>7. "brightness" \in DOMAIN s => s["brightness"] \in 0..1023
  BY <1>4, <1>5
<1>8. Given(s, "serial", 0) \in 0..15
  BY <1>4, <1>6 DEF Given
<1>9. PageKey(s) = Given(s, "serial", 0) \/ PageKey(s) = 16 \/ PageKey(s) = 17
  BY DEF PageKey
<1> QED  BY <1>7, <1>8, <1>9

(* The brightness a call keeps.                                          *)
LEMMA KeptBounds ==
  ASSUME IInv, Values
  PROVE  /\ KeptIntensity \in 0..1023
         /\ shown.family # "pixel" => KeptIntensity \in 0..1000
<1>1. steady["intensity"] \in 0..1000
  BY DEF Values, SteadyHeard
<1>2. ASSUME NEW bound \in {1000, 1023}, ShownIntensity \in -1..bound
      PROVE  KeptIntensity \in 0..bound
  <2> DEFINE a == steady["intensity"]
  <2>1. KeptIntensity = IF ShownIntensity > 0 THEN ShownIntensity ELSE IF a > 0 THEN a ELSE 180
    BY DEF KeptIntensity
  <2>2. a \in 0..1000
    BY <1>1
  <2> HIDE DEF a
  <2> QED  BY <1>2, <2>1, <2>2
<1>3. CASE shown.family = "none"
  <2>1. ShownIntensity = -1
    BY <1>3 DEF ShownIntensity, NotGiven
  <2> QED  BY <1>2, <1>3, <2>1
<1>4. CASE shown.family \in {"effect", "effect2"}
  <2>1. ShownIntensity = Given(shown.state, "intensity", -1)
    BY <1>4 DEF ShownIntensity, NotGiven
  <2>2. "intensity" \in DOMAIN shown.state => shown.state["intensity"] \in 0..1000
    BY <1>4, Lit7 DEF Values, ShownInRange, Numeric2
  <2>3. ShownIntensity \in -1..1000
    BY <2>1, <2>2 DEF Given
  <2>4. KeptIntensity \in 0..1000
    BY <1>2, <2>3
  <2> QED  BY <2>4
<1>5. CASE shown.family = "pixel"
  <2> DEFINE pages == shown.pages
             lit == {k \in DOMAIN pages : "brightness" \in DOMAIN pages[k]}
             first == CHOOSE k \in lit : \A other \in lit : k <= other
  <2>1. ShownIntensity = IF lit = {} THEN -1 ELSE pages[first].brightness
    BY <1>5 DEF ShownIntensity, NotGiven
  <2>2. \A k \in DOMAIN pages : IsPage(pages[k]) /\ PageKey(pages[k]) = k
    BY <1>5, SMTT(30) DEF IInv, ShownGood, Good
  <2>3. \A k \in lit : k \in 0..17 /\ pages[k]["brightness"] \in 0..1023
    BY <2>2, PageBounds
  <2>4. lit # {} => first \in lit
    <3> HIDE DEF lit
    <3> SUFFICES ASSUME lit # {} PROVE first \in lit
      BY SMTT(30)
    <3>1. \E k \in lit : \A other \in lit : k <= other
      BY <2>3, Least
    <3> QED  BY <3>1
  <2> HIDE DEF lit, first, pages
  <2>5. ShownIntensity \in -1..1023
    BY <2>1, <2>3, <2>4
  <2>6. KeptIntensity \in 0..1023
    BY <1>2, <2>5
  <2> QED  BY <1>5, <2>6
<1>6. shown.family \in {"none", "effect", "effect2", "pixel"}
  BY DEF Values, ShownInRange
<1> QED  BY <1>3, <1>4, <1>5, <1>6

-------------------------------------------------------------------------------
(* Calls of command 7.                                                   *)

(* A call that begins.                                                     *)
LEMMA BeginValues ==
  ASSUME Values, NEW family, NEW effect, NEW packets, NEW want, NEW exact, NEW asked,
         Begins(family, effect, packets, want, exact, asked), AllInRange(packets),
         exact /\ told = DOMAIN fixture => Rebuilds(packets, family, Look(fixture), asked)
  PROVE  Values'
<1>1. /\ fixture' = fixture /\ shown' = shown /\ steady' = steady /\ preferredGm' = preferredGm
      /\ call' = [phase |-> "send", family |-> family, effect |-> effect, packets |-> packets,
               sent |-> 0, want |-> want, exact |-> exact, fresh |-> {}, news |-> FALSE,
               asked |-> asked, clean |-> exact /\ told = DOMAIN fixture,
               base |-> Look(fixture), before |-> shown]
  BY DEF Begins
<1> DEFINE clean == exact /\ told = DOMAIN fixture
           base == Look(fixture)
<1>2. /\ DOMAIN call' = {"phase", "family", "effect", "packets", "sent", "want", "exact", "fresh",
                         "news", "asked", "clean", "base", "before"}
      /\ call'.phase = "send" /\ call'.family = family /\ call'.packets = packets
      /\ call'.sent = 0 /\ call'.asked = asked /\ call'.base = base /\ call'.clean = clean
  BY <1>1
<1> HIDE DEF base, clean
<1>3. FixtureInRange' /\ SteadyHeard(steady, preferredGm)' /\ ShownInRange'
  BY <1>1 DEF Values, FixtureInRange, ShownInRange, SteadyHeard
<1>4. CallInRange'
  BY <1>2 DEF CallInRange
<1>5. CallRebuilds'
  <2> SUFFICES ASSUME call'.clean PROVE CallRebuilds'
    BY DEF CallRebuilds
  <2>1. Rebuilds(packets, family, base, asked)
    BY <1>2 DEF clean, base
  <2>2. /\ Plan(packets, family, base, asked)
        /\ \A i \in DOMAIN packets : \A k \in DOMAIN fixture' : Alike(fixture'[k], packets[i])
    BY <1>1, <2>1 DEF Rebuilds
  <2>3. Len(packets) \in Nat
    BY <2>1 DEF Rebuilds, Plan
  <2>4. Rebuilds(call.packets, call.family, call.base, call.asked)'
    BY <1>1, <1>2, <2>2 DEF Rebuilds
  <2> QED  BY <1>2, <2>3, <2>4 DEF CallRebuilds
<1> QED  BY <1>3, <1>4, <1>5 DEF Values

(* A brightness that is asked for.                                       *)
LEMMA GivenIntensity ==
  ASSUME NEW given \in Asked["intensity"] \cup {NotGiven}, given # NotGiven
  PROVE  given \in 0..1000
<1>1. "intensity" \in DOMAIN Asked
  BY AskedAssumption
<1>2. Asked["intensity"] \subseteq 0..1000
  BY <1>1, AskedAssumption
<1> QED  BY <1>2

(* A parameter of the running command-7 effect (device.py:1542-1720).    *)
LEMMA SetEffectValues ==
  ASSUME IInv, Values, NEW field \in DOMAIN Asked \ {"intensity"}, SetEffect(field)
  PROVE  Values'
<1> DEFINE s == shown.state
<1>1. PICK value \in Asked[field] :
        LET target == Target(field, value, s.effect)
            patch == Patch(field, target, s)
            packet == EffectPayload(s, patch)
        IN /\ field = "variant" => target <= MaxVariant(s.effect)
           /\ Begins("effect", s.effect, <<packet>>, DecodeEffect(packet), TRUE, patch)
  BY Zenon DEF SetEffect, Patch
<1> DEFINE target == Target(field, value, s.effect)
           patch == Patch(field, target, s)
           packet == EffectPayload(s, patch)
<1>2. shown.family = "effect"
  BY DEF SetEffect
<1>3. s.effect \in Effects1
  <2>1. PICK p : Ranged(p) /\ shown.state = DecodeEffect(p)
    BY <1>2 DEF Values, ShownInRange
  <2> QED  BY <2>1, Lit7
<1>4. field = "variant" => target <= MaxVariant(s.effect)
  BY <1>1, Zenon
<1>5. Begins("effect", s.effect, <<packet>>, DecodeEffect(packet), TRUE, patch)
  BY <1>1, Zenon
<1>6. Legal(s.effect, patch)
  <2> DEFINE e == s.effect
  <2>1. e \in Effects1 /\ target = Target(field, value, e)
    BY <1>3
  <2>2. field = "variant" => target <= MaxVariant(e)
    BY <1>4, Zenon
  <2> HIDE DEF e, target
  <2>3. Legal(e, Patch(field, target, s))
    BY <2>1, <2>2, PatchLegal DEF Values
  <2> QED  BY <2>3, Zenon DEF e
<1>7. packet = EffectPayload(shown.state, patch)
  OBVIOUS
<1> HIDE DEF patch, packet, target
<1>8. /\ AllInRange(<<packet>>)
      /\ told = DOMAIN fixture => Rebuilds(<<packet>>, "effect", Look(fixture), patch)
  BY <1>2, <1>6, <1>7, Rebuild7
<1> DEFINE packets == <<packet>>
           want == DecodeEffect(packet)
<1> HIDE DEF packets, want
<1>9. Begins("effect", s.effect, packets, want, TRUE, patch) /\ AllInRange(packets)
  BY <1>5, <1>8, Zenon DEF packets, want
<1>10. told = DOMAIN fixture => Rebuilds(packets, "effect", Look(fixture), patch)
  BY <1>8, Zenon DEF packets
<1> QED  BY <1>9, <1>10, BeginValues

(* A command-7 effect, the running one or another.                       *)
LEMMA ApplyEffectValues ==
  ASSUME IInv, Values, NEW e, NEW given \in Asked["intensity"] \cup {NotGiven},
         ApplyEffect(e, given)
  PROVE  Values'
<1> DEFINE same == shown.family = "effect" /\ shown.state.effect = e
           kept == IF same THEN shown.state.intensity ELSE KeptIntensity
           intensity == IF given = NotGiven THEN kept ELSE given
           hsi == e \in ColorModes1 /\ (steady = NoLook \/ steady.hsi)
           fresh == [intensity |-> intensity, frequency |-> 5,
                     kelvin |-> DefaultKelvin, mode |-> IF hsi THEN 1 ELSE 0,
                     hue |-> Given(steady, "hue", 0),
                     saturation |-> Given(steady, "saturation", 100),
                     gm |-> CoarseShift(preferredGm), gmFlag |-> GmV2]
           packet == IF same THEN EffectPayload(shown.state, [intensity |-> intensity])
                     ELSE EncodeEffect(e, fresh)
           asked == [intensity |-> intensity]
           packets == <<packet>>
           want == DecodeEffect(packet)
<1>1. e \in Effects1 /\ Begins("effect", e, packets, want, same, asked)
  BY Zenon DEF ApplyEffect
<1>2. same => \E p : Ranged(p) /\ shown.state = DecodeEffect(p)
  BY DEF Values, ShownInRange
<1>3. same => shown.state["intensity"] \in 0..1000
  BY <1>2, Lit7
<1>4. KeptIntensity \in 0..1023
  BY KeptBounds
<1>5. intensity \in Int /\ (same => intensity \in 0..1000)
  <2>1. given # NotGiven => given \in 0..1000
    BY GivenIntensity
  <2>2. same => kept \in 0..1000
    BY <1>3
  <2>3. ~same => kept \in 0..1023
    BY <1>4
  <2> HIDE DEF kept, same
  <2> QED  BY <2>1, <2>2, <2>3, SMTT(30)
<1>6. CASE same
  <2>1. asked = At("intensity", intensity)
    BY DEF At
  <2>2. intensity \in EffectRange(e, "intensity") /\ "intensity" \in Plain7
    <3>1. intensity \in 0..1000
      BY <1>5, <1>6
    <3> HIDE DEF intensity
    <3>2. intensity \in EffectRange(e, "intensity")
      BY <3>1, Ranges7
    <3> QED  BY <3>2, SMTT(30) DEF Plain7
  <2>3. packet = EffectPayload(shown.state, asked)
    BY <1>6
  <2>4. shown.family = "effect" /\ shown.state.effect = e
    BY <1>6
  <2> HIDE DEF asked, intensity, packet, same
  <2>5. Legal(e, asked)
    BY <2>1, <2>2, Just
  <2>6. /\ AllInRange(<<packet>>)
        /\ told = DOMAIN fixture => Rebuilds(<<packet>>, "effect", Look(fixture), asked)
    BY <2>3, <2>4, <2>5, Rebuild7
  <2> HIDE DEF packets, want
  <2>7. AllInRange(packets) /\ (told = DOMAIN fixture => Rebuilds(packets, "effect", Look(fixture), asked))
    BY <2>6, Zenon DEF packets
  <2> QED  BY <1>1, <2>7, BeginValues
<1>7. CASE ~same
  <2>1. packet = EncodeEffect(e, fresh)
    BY <1>7
  <2>2. /\ DOMAIN fresh = {"intensity", "frequency", "kelvin", "mode", "hue", "saturation", "gm", "gmFlag"}
        /\ fresh["intensity"] = intensity /\ fresh["frequency"] = 5 /\ fresh["kelvin"] = DefaultKelvin
        /\ fresh["mode"] = (IF hsi THEN 1 ELSE 0) /\ fresh["hue"] = Given(steady, "hue", 0)
        /\ fresh["saturation"] = Given(steady, "saturation", 100)
        /\ fresh["gm"] = CoarseShift(preferredGm) /\ fresh["gmFlag"] = GmV2
    OBVIOUS
  <2>3. Given(steady, "hue", 0) \in Int /\ Given(steady, "saturation", 100) \in Int
    BY DEF Values, SteadyHeard, Given
  <2>4. DefaultKelvin \in Int
    <3>1. DefaultKelvin \in 800..20000
      BY DefaultTens DEF Values
    <3> QED  BY <3>1, SMTT(30)
  <2>5. CoarseShift(preferredGm) \in Int
    <3>1. preferredGm \in 0..200
      BY SMTT(30) DEF Values, SteadyHeard
    <3>2. CoarseShift(preferredGm) \in 0..200
      BY <3>1, Shifts
    <3> QED  BY <3>2
  <2>6. GmV2 \in {0, 1} /\ (IF hsi THEN 1 ELSE 0) \in Int
    BY Profile
  <2> HIDE DEF fresh, packet, hsi, intensity
  <2>7. Numbers(fresh)
    BY <1>5, <2>2, <2>3, <2>4, <2>5, <2>6 DEF Numbers
  <2>8. packet.command = 7 /\ Ranged(packet)
    BY <1>1, <2>1, <2>7, Fresh7
  <2>9. InRange(packet)
    BY <2>8, InRange7
  <2>10. AllInRange(<<packet>>)
    BY <2>8, <2>9, One
  <2> HIDE DEF packets, want, same, asked
  <2>11. AllInRange(packets)
    BY <2>10, Zenon DEF packets
  <2> QED  BY <1>1, <1>7, <2>11, BeginValues
<1> QED  BY <1>6, <1>7

-------------------------------------------------------------------------------
(* Calls of command 34.                                                  *)

(* The fields of every effect of command 34, and the defaults for them.    *)
Named2 == Page0 \cup Page1 \cup {"package", "speed", "decay", "variant"}
Field2(f) == f[1] \in Named2 /\ f[2] \in Int /\ f[3] \in 1..10

(* The fields of a colour have defaults,                                 *)
LEMMA ColorFields2 ==
  ASSUME NEW mode, NEW at \in Int, NEW gels, NEW f \in ColorLayout(mode, at, gels)
  PROVE  Field2(f)
<1>1. f[1] \in Page1
  BY ColorNames
<1>2. f[2] \in Int /\ f[3] \in 1..10
  BY DEF ColorLayout
<1> QED  BY <1>1, <1>2 DEF Field2, Named2

(* so have those of a range of colours                                   *)
LEMMA RangeFields2 ==
  ASSUME NEW mode, NEW at \in Int, NEW f \in RangeLayout(mode, at)
  PROVE  Field2(f)
<1>1. f[1] \in Page1
  BY RangeNames
<1>2. f[2] \in Int /\ f[3] \in 1..10
  BY DEF RangeLayout
<1> QED  BY <1>1, <1>2 DEF Field2, Named2

(* and those of every layout.                                            *)
LEMMA Fields2 ==
  ASSUME NEW e, NEW page \in {0, 1}, NEW mode, NEW f \in Layout2(e, page, mode)
  PROVE  Field2(f)
<1> DEFINE Own == {<<"intensity", 52, 10>>, <<"frequency", 48, 4>>, <<"speed", 44, 4>>,
                   <<"frequency", 44, 4>>, <<"speed", 48, 4>>, <<"frequency", 44, 8>>,
                   <<"decay", 48, 4>>, <<"color", 45, 3>>, <<"saturation", 42, 10>>,
                   <<"speed", 36, 6>>, <<"gap_time", 43, 9>>, <<"min_gap_time", 34, 9>>,
                   <<"variant", 32, 2>>, <<"package", 61, 1>>, <<"intensity", 51, 10>>,
                   <<"gap_time", 42, 9>>, <<"min_gap_time", 33, 9>>,
                   <<"min_intensity", 41, 10>>, <<"frequency", 37, 4>>, <<"frequency", 43, 8>>}
<1>1. ASSUME f \in Own PROVE Field2(f)
  <2>1. f[1] \in {"intensity", "frequency", "speed", "decay", "color", "saturation", "gap_time",
                  "min_gap_time", "variant", "package", "min_intensity"}
    BY <1>1
  <2>2. f[2] \in Int /\ f[3] \in 1..10
    BY <1>1
  <2> QED  BY <2>1, <2>2 DEF Field2, Named2, Page0, Page1
<1>2. ASSUME NEW at \in Int, NEW gels, f \in ColorLayout(mode, at, gels) \cup RangeLayout(mode, at)
      PROVE  Field2(f)
  BY <1>2, ColorFields2, RangeFields2
<1>3. CASE e \notin Dual
  <2> DEFINE layout == SingleLayout(e, mode)
  <2>1. f \in layout
    BY <1>3 DEF Layout2
  <2>2. CASE e \in {"Lightning II", "Faulty Bulb II", "Pulsing II", "Pulsing III"}
    <3> DEFINE at == 41
    <3>1. f \in Own \/ f \in ColorLayout(mode, at, TRUE) \/ f \in ColorLayout(mode, at, FALSE)
      BY <2>1, <2>2 DEF SingleLayout
    <3>2. at \in Int
      OBVIOUS
    <3> HIDE DEF Own, at
    <3> QED  BY <1>1, <1>2, <3>1, <3>2
  <2>3. CASE e \in {"TV II", "Fire II"}
    <3> DEFINE at == 45
    <3>1. f \in Own \/ f \in RangeLayout(mode, at)
      BY <2>1, <2>3 DEF SingleLayout
    <3>2. at \in Int
      OBVIOUS
    <3> HIDE DEF Own, at
    <3> QED  BY <1>1, <1>2, <3>1, <3>2
  <2>4. CASE e \in {"Strobe II", "Explosion II"}
    <3> DEFINE at == 45
    <3>1. f \in Own \/ f \in ColorLayout(mode, at, TRUE)
      BY <2>1, <2>4 DEF SingleLayout
    <3>2. at \in Int
      OBVIOUS
    <3> HIDE DEF Own, at
    <3> QED  BY <1>1, <1>2, <3>1, <3>2
  <2>5. CASE e \notin {"Lightning II", "Faulty Bulb II", "Pulsing II", "Pulsing III",
                       "TV II", "Fire II", "Strobe II", "Explosion II"}
    <3>1. f \in Own
      BY <2>1, <2>5 DEF SingleLayout
    <3> QED  BY <1>1, <3>1
  <2> QED  BY <2>2, <2>3, <2>4, <2>5
<1>4. CASE e \in Dual
  <2>1. f \in PageLayout(e, page, mode)
    BY <1>4 DEF Layout2
  <2>2. CASE page = 0
    <3>1. f \in {<<"package", 61, 1>>} \cup ({<<"intensity", 51, 10>>} \cup Timing(e))
      BY <2>1, <2>2, FirstPage
    <3>2. f \in Own
      BY <3>1 DEF Timing
    <3> QED  BY <1>1, <3>2
  <2>3. CASE page = 1
    <3> DEFINE at == 58
    <3>1. PageLayout(e, 1, mode) =
            {<<"package", 61, 1>>} \cup IF e \in {"TV III", "Fire III"} THEN RangeLayout(mode, at)
                                        ELSE ColorLayout(mode, at, TRUE)
      BY DEF PageLayout
    <3>2. \/ f = <<"package", 61, 1>> \/ f \in RangeLayout(mode, at)
          \/ f \in ColorLayout(mode, at, TRUE)
      BY <2>1, <2>3, <3>1
    <3>3. f = <<"package", 61, 1>> => f \in Own
      OBVIOUS
    <3>4. at \in Int
      OBVIOUS
    <3> HIDE DEF Own, at
    <3> QED  BY <1>1, <1>2, <3>2, <3>3, <3>4
  <2> QED  BY <2>2, <2>3
<1> QED  BY <1>3, <1>4

(* The defaults are numbers.                                             *)
LEMMA Default2 ==
  ASSUME NEW e
  PROVE  /\ Named2 \ {"package"} \subseteq DOMAIN Effect2Default(e)
         /\ \A n \in DOMAIN Effect2Default(e) : Effect2Default(e)[n] \in Int
<1> DEFINE d == Effect2Default(e)
<1>1. DOMAIN d = {"intensity", "mode", "kelvin", "gm", "hue", "saturation", "center_kelvin",
                  "gel_kelvin", "gel_origin", "gel_type", "color", "gap_time", "min_gap_time",
                  "min_intensity", "frequency", "speed", "decay", "min_kelvin", "max_kelvin",
                  "min_hue", "max_hue", "variant"}
  BY DEF Effect2Default
<1>2. \A n \in DOMAIN d : d[n] \in Int
  <2>1. /\ d["intensity"] \in Int /\ d["mode"] \in Int /\ d["kelvin"] \in Int /\ d["gm"] \in Int
        /\ d["hue"] \in Int /\ d["saturation"] \in Int /\ d["center_kelvin"] \in Int
        /\ d["gel_kelvin"] \in Int /\ d["gel_origin"] \in Int /\ d["gel_type"] \in Int
        /\ d["color"] \in Int
    BY DEF Effect2Default
  <2>2. /\ d["gap_time"] \in Int /\ d["min_gap_time"] \in Int /\ d["min_intensity"] \in Int
        /\ d["frequency"] \in Int /\ d["speed"] \in Int /\ d["decay"] \in Int
        /\ d["min_kelvin"] \in Int /\ d["max_kelvin"] \in Int /\ d["min_hue"] \in Int
        /\ d["max_hue"] \in Int /\ d["variant"] \in Int
    BY DEF Effect2Default
  <2> HIDE DEF d
  <2> QED  BY <1>1, <2>1, <2>2
<1>3. Named2 \ {"package"} \subseteq DOMAIN d
  BY <1>1 DEF Named2, Page0, Page1
<1> QED  BY <1>2, <1>3

(* An effect of command 34 is known by its identifier.                   *)
LEMMA OnlyId2 ==
  ASSUME NEW e \in Defaulted, NEW i \in 0..17, Effect2Names[i + 1] = e
  PROVE  i = Effect2Id(e)
<1> DEFINE Number == [n \in {"Paparazzi II", "Lightning II", "TV II", "Fire II", "Strobe II",
                             "Explosion II", "Faulty Bulb II", "Pulsing II", "Welding II",
                             "Cop Car II", "Party Lights II", "Fireworks II", "Lightning III",
                             "TV III", "Fire III", "Faulty Bulb III", "Pulsing III",
                             "Cop Car III"} |->
  CASE n = "Paparazzi II" -> 1
    [] n = "Lightning II" -> 2
    [] n = "TV II" -> 3
    [] n = "Fire II" -> 4
    [] n = "Strobe II" -> 5
    [] n = "Explosion II" -> 6
    [] n = "Faulty Bulb II" -> 7
    [] n = "Pulsing II" -> 8
    [] n = "Welding II" -> 9
    [] n = "Cop Car II" -> 10
    [] n = "Party Lights II" -> 11
    [] n = "Fireworks II" -> 12
    [] n = "Lightning III" -> 13
    [] n = "TV III" -> 14
    [] n = "Fire III" -> 15
    [] n = "Faulty Bulb III" -> 16
    [] n = "Pulsing III" -> 17
    [] n = "Cop Car III" -> 18]
           Numbered(k) == Number[Effect2Names[k]] = k
           a == i + 1
           b == Effect2Id(e) + 1
<1>1. Numbered(1)
  BY DEF Effect2Names
<1>2. Numbered(2)
  BY DEF Effect2Names
<1>3. Numbered(3)
  BY DEF Effect2Names
<1>4. Numbered(4)
  BY DEF Effect2Names
<1>5. Numbered(5)
  BY DEF Effect2Names
<1>6. Numbered(6)
  BY DEF Effect2Names
<1>7. Numbered(7)
  BY DEF Effect2Names
<1>8. Numbered(8)
  BY DEF Effect2Names
<1>9. Numbered(9)
  BY DEF Effect2Names
<1>10. Numbered(10)
  BY DEF Effect2Names
<1>11. Numbered(11)
  BY DEF Effect2Names
<1>12. Numbered(12)
  BY DEF Effect2Names
<1>13. Numbered(13)
  BY DEF Effect2Names
<1>14. Numbered(14)
  BY DEF Effect2Names
<1>15. Numbered(15)
  BY DEF Effect2Names
<1>16. Numbered(16)
  BY DEF Effect2Names
<1>17. Numbered(17)
  BY DEF Effect2Names
<1>18. Numbered(18)
  BY DEF Effect2Names
<1> HIDE DEF Numbered
<1>19. ASSUME NEW k \in 1..18 PROVE Numbered(k)
  BY <1>1, <1>2, <1>3, <1>4, <1>5, <1>6, <1>7, <1>8, <1>9, <1>10, <1>11, <1>12, <1>13, <1>14,
     <1>15, <1>16, <1>17, <1>18
<1> HIDE DEF Number
<1>20. a \in 1..18 /\ b \in 1..18 /\ Effect2Names[a] = Effect2Names[b]
  BY Id2
<1>21. a = b
  <2> HIDE DEF a, b
  <2>1. Number[Effect2Names[a]] = a /\ Number[Effect2Names[b]] = b
    BY <1>19, <1>20 DEF Numbered
  <2> QED  BY <1>20, <2>1, Zenon
<1>22. Effect2Id(e) \in 0..17
  BY Id2
<1> QED  BY <1>21, <1>22

(* A page of command 34 as it is read.                                     *)
Layout2Of(p) == Layout2(Effect2Of(p), Value(p, 61, 1), Value(p, ModeAt2(Effect2Of(p)), 3))
Reads2(p, s) ==
  /\ DOMAIN s = NamesOf(Layout2Of(p)) \cup {"effect", "state", "on"}
  /\ s["effect"] = Effect2Of(p)
  /\ \A n \in NamesOf(Layout2Of(p)) :
       s[n] = IF n \in Kelvins THEN Fields(Layout2Of(p), p)[n] * 50 ELSE Fields(Layout2Of(p), p)[n]

(* What decode_effect2() makes of a packet.                              *)
LEMMA Read2 ==
  ASSUME NEW p
  PROVE  Reads2(p, DecodeEffect2(p)) /\ \A f \in Layout2Of(p) : Field2(f)
<1> DEFINE e == Effect2Of(p)
           layout == Layout2Of(p)
           w == Fields(layout, p)
           state == Value(p, 62, 2)
           plain == [n \in DOMAIN w |-> IF n \in Kelvins THEN w[n] * 50 ELSE w[n]]
           rest == [effect |-> e, state |-> state, on |-> IF state = 0 THEN 0 ELSE 1]
           d == DecodeEffect2(p)
<1>1. d = plain ++ rest
  BY Zenon DEF DecodeEffect2, Effect2Of, Layout2Of, Layout2, ModeAt2
<1>2. DOMAIN w = NamesOf(layout)
  BY FieldNames DEF NamesOf
<1>3. DOMAIN rest = {"effect", "state", "on"} /\ rest["effect"] = e
  OBVIOUS
<1>4. \A f \in layout : Field2(f)
  <2>1. Value(p, 61, 1) \in {0, 1}
    <3>1. Value(p, 61, 1) \in 0..(2^1 - 1)
      BY ValueBound
    <3> QED  BY <3>1
  <2> DEFINE page == Value(p, 61, 1)
             mode == Value(p, ModeAt2(e), 3)
  <2>2. layout = Layout2(e, page, mode)
    BY Zenon DEF Layout2Of
  <2> HIDE DEF page, mode, layout, e
  <2> QED  BY <2>1, <2>2, Fields2 DEF page
<1>5. \A n \in NamesOf(layout) : n \in Named2
  BY <1>4 DEF NamesOf, Field2
<1> HIDE DEF d, w, layout, rest, e
<1>6. /\ DOMAIN plain = DOMAIN w
      /\ \A n \in DOMAIN w : plain[n] = IF n \in Kelvins THEN w[n] * 50 ELSE w[n]
  OBVIOUS
<1> HIDE DEF plain
<1>7. DOMAIN d = NamesOf(layout) \cup {"effect", "state", "on"}
  BY <1>1, <1>2, <1>3, <1>6 DEF ++
<1>8. d["effect"] = e
  <2>1. "effect" \notin DOMAIN plain
    BY <1>2, <1>5, <1>6 DEF Named2, Page0, Page1
  <2> QED  BY <1>1, <1>3, <2>1 DEF ++
<1>9. \A n \in NamesOf(layout) : d[n] = IF n \in Kelvins THEN w[n] * 50 ELSE w[n]
  <2>1. \A n \in NamesOf(layout) : d[n] = plain[n]
    BY <1>1, <1>2, <1>6 DEF ++
  <2> QED  BY <1>2, <1>6, <2>1
<1>10. Reads2(p, d)
  BY <1>7, <1>8, <1>9, Zenon DEF Reads2, layout, e, w
<1> QED  BY <1>4, <1>10, Zenon DEF d, layout

(* What is read of a page in range are numbers.                          *)
LEMMA Numbers2 ==
  ASSUME NEW p, p.command = 34, InRange(p)
  PROVE  Numeric2(DecodeEffect2(p))
<1> DEFINE s == DecodeEffect2(p)
           layout == Layout2Of(p)
           w == Fields(layout, p)
<1>1. Reads2(p, s) /\ \A f \in layout : Field2(f)
  BY Read2
<1>2. /\ "intensity" \in DOMAIN s => s["intensity"] \in 0..1000
      /\ "min_intensity" \in DOMAIN s => s["min_intensity"] \in 0..1000
  <2>1. Decoded(p) = s
    BY DEF Decoded
  <2> HIDE DEF s
  <2> QED  BY <2>1 DEF InRange
<1> HIDE DEF s
<1>3. /\ DOMAIN s = NamesOf(layout) \cup {"effect", "state", "on"}
      /\ \A n \in NamesOf(layout) : s[n] = IF n \in Kelvins THEN w[n] * 50 ELSE w[n]
  BY <1>1, Zenon DEF Reads2
<1> HIDE DEF layout
<1>4. ASSUME NEW n \in NamesOf(layout) PROVE w[n] \in Int
  <2> DEFINE f == CHOOSE g \in layout : g[1] = n
  <2>1. \E g \in layout : g[1] = n
    BY <1>4 DEF NamesOf
  <2>2. f \in layout /\ f[1] = n
    BY <2>1
  <2>3. w[n] = Value(p, f[2], f[3])
    BY <1>4 DEF Fields, NamesOf
  <2> HIDE DEF f, w
  <2>4. f[2] \in Int /\ f[3] \in 1..10
    BY <1>1, <2>2 DEF Field2
  <2>5. Value(p, f[2], f[3]) \in 0..(2^f[3] - 1)
    BY <2>4, ValueBound
  <2> QED  BY <2>3, <2>5
<1> HIDE DEF w
<1>5. \A n \in NamesOf(layout) : s[n] \in Int
  BY <1>3, <1>4
<1> QED  BY <1>2, <1>3, <1>5 DEF Numeric2, s

(* The values of a page in range can all be sent again.                    *)
LEMMA Legal2Read ==
  ASSUME NEW p, p.command = 34, InRange(p), Effect2Of(p) \in Defaulted, NEW f \in Layout2Of(p)
  PROVE  Legal2(f, DecodeEffect2(p)[f[1]])
<1> DEFINE s == DecodeEffect2(p)
           layout == Layout2Of(p)
           w == Fields(layout, p)
           n == f[1]
           v == s[n]
<1>1. Reads2(p, s)
  BY Read2
<1>2. Numeric2(s)
  BY Numbers2
<1>3. Apart(layout) /\ Wide2(f) /\ Place(f)
  <2> DEFINE e == Effect2Of(p)
             page == Value(p, 61, 1)
             mode == Value(p, ModeAt2(e), 3)
  <2>1. Value(p, 61, 1) \in {0, 1}
    <3>1. Value(p, 61, 1) \in 0..(2^1 - 1)
      BY ValueBound
    <3> QED  BY <3>1
  <2>2. layout = Layout2(e, page, mode)
    BY Zenon DEF Layout2Of
  <2>3. e \in Defaulted /\ page \in {0, 1}
    BY <2>1
  <2> HIDE DEF e, page, mode
  <2>4. Sound2(Layout2(e, page, mode))
    BY <2>3, Layouts2 DEF Laid2
  <2> HIDE DEF layout
  <2>5. Sound2(layout) /\ f \in layout
    BY <2>2, <2>4 DEF layout
  <2> QED  BY <2>5 DEF Sound2, Apart
<1> HIDE DEF s
<1>4. n \in NamesOf(layout)
  BY DEF NamesOf
<1>5. v = IF n \in Kelvins THEN w[n] * 50 ELSE w[n]
  BY <1>1, <1>4, Zenon DEF Reads2
<1>6. w[n] \in 0..(2^f[3] - 1)
  BY <1>3, FieldBound
<1> HIDE DEF layout
<1> DEFINE c == w[n]
           top == 2^f[3] - 1
<1>7. CASE n \in Kelvins
  <2>1. f[3] = 9
    BY <1>3, <1>7 DEF Wide2
  <2>2. 2^9 - 1 = 511
    OBVIOUS
  <2>3. c \in 0..(2^9 - 1)
    BY <1>6, <2>1, Zenon
  <2> HIDE DEF v, c
  <2>4. v = c * 50
    BY <1>5, <1>7 DEF c
  <2>5. c \in 0..511 /\ v = 50 * c
    BY <2>2, <2>3, <2>4
  <2>6. Fifties(v)
    BY <2>5 DEF Fifties
  <2>7. Legal2(f, v)
    BY <1>7, <2>6, Zenon DEF Legal2
  <2> QED  BY <2>7, Zenon DEF v, s
<1>8. CASE n \notin Kelvins
  <2>1. v \in 0..top
    BY <1>5, <1>6, <1>8, Zenon
  <2>2. n \in {"intensity", "min_intensity"} => v \in 0..1000
    <3>1. n \notin {"effect", "state", "on"} /\ n \in DOMAIN s
      BY <1>1, <1>3, <1>4 DEF Wide2, Reads2, layout
    <3> QED  BY <1>2, <3>1 DEF Numeric2
  <2> HIDE DEF v
  <2>3. n \in {"intensity", "min_intensity"} => v <= 1000
    BY <2>2
  <2>4. Legal2(f, v)
    BY <1>8, <2>1, <2>3, Zenon DEF Legal2
  <2> QED  BY <2>4, Zenon DEF v, s
<1> QED  BY <1>7, <1>8

(* A page of command 34 as the fixture takes it.                           *)
Built2(e, page, state, t, q) ==
  /\ Hears2(e, page, state, t, q, DecodeEffect2(q))
  /\ q.command = 34 /\ Page(q) = page /\ InRange(q)

(* What the fixture takes of a page that was built.                      *)
LEMMA Page2 ==
  ASSUME NEW e \in Defaulted, NEW page \in {0, 1}, e \notin Dual => page = 0,
         NEW state \in 0..3, NEW t, Full2(e, page, t)
  PROVE  Built2(e, page, state, t, Effect2Packet(e, page, state, t))
<1> DEFINE q == Effect2Packet(e, page, state, t)
           d == DecodeEffect2(q)
           mode == Mode2(t)
           layout == Layout2(e, page, mode)
<1>1. Hears2(e, page, state, t, q, d)
  BY Heard2
<1>2. Laid2(e, page, mode)
  BY Layouts2
<1>3. /\ \A f \in layout : Wide2(f)
      /\ e \in Dual => <<"package", 61, 1>> \in layout
      /\ e \notin Dual => \A f \in layout : f[1] # "package"
  BY <1>2 DEF Laid2, Sound2
<1> HIDE DEF q, d, mode
<1>4. /\ q.command = 34 /\ Value(q, 64, 8) = Effect2Id(e)
      /\ DOMAIN d = NamesOf(layout) \cup {"effect", "state", "on"}
      /\ \A f \in layout : /\ Legal2(f, Whole2(page, t)[f[1]]) => d[f[1]] = Whole2(page, t)[f[1]]
                           /\ f[1] \in {"intensity", "min_intensity"} => d[f[1]] \in 0..1000
  BY <1>1, Zenon DEF Hears2, mode
<1>5. Decoded(q) = d /\ Page(q) = Given(d, "package", 0)
  BY <1>4, Decoding DEF d
<1> HIDE DEF layout
<1>6. Page(q) = page
  <2>1. CASE e \in Dual
    <3> DEFINE f == <<"package", 61, 1>>
    <3>1. f \in layout /\ f[1] = "package" /\ f[3] = 1
      BY <1>3, <2>1
    <3>2. Whole2(page, t)["package"] = page
      BY DEF Whole2, ++
    <3>3. Legal2(f, page)
      BY DEF Legal2, Kelvins
    <3> HIDE DEF f
    <3>4. d["package"] = page
      BY <1>4, <3>1, <3>2, <3>3
    <3>5. "package" \in DOMAIN d
      BY <1>4, <3>1 DEF NamesOf
    <3> QED  BY <1>5, <3>4, <3>5 DEF Given
  <2>2. CASE e \notin Dual
    <3>1. "package" \notin DOMAIN d
      BY <1>3, <1>4, <2>2 DEF NamesOf
    <3> QED  BY <1>5, <2>2, <3>1 DEF Given
  <2> QED  BY <2>1, <2>2
<1>7. InRange(q)
  <2>1. Value(q, 64, 8) \in 0..17
    BY <1>4, Id2
  <2>2. ASSUME NEW n \in DOMAIN d, n \in {"intensity", "min_intensity"} PROVE d[n] \in 0..1000
    <3>1. n \in NamesOf(layout)
      BY <1>4, <2>2
    <3>2. PICK f \in layout : f[1] = n
      BY <3>1 DEF NamesOf
    <3> QED  BY <1>4, <2>2, <3>2
  <2>3. Decoded(q) = d /\ q.command # 7 /\ q.command = 34
    BY <1>4, <1>5
  <2> HIDE DEF d
  <2> QED  BY <2>1, <2>2, <2>3 DEF InRange
<1>8. Built2(e, page, state, t, q)
  BY <1>1, <1>4, <1>6, <1>7 DEF Built2, d
<1> QED  BY <1>8, Zenon DEF q

(* A page rebuilt from what is shown of it.                                *)
LegalAll2(asked) ==
  /\ DOMAIN asked \cap {"mode", "effect", "package"} = {}
  /\ \A f : Wide2(f) /\ Place(f) /\ f[1] \in DOMAIN asked => Legal2(f, asked[f[1]])

(* A page rebuilt with asked values keeps the rest.                      *)
LEMMA Keep2 ==
  ASSUME NEW p, p.command = 34, InRange(p), NEW e \in Defaulted, e = Effect2Of(p),
         NEW k \in {0, 1}, e \in Dual => Value(p, 61, 1) = k,
         NEW t, Named2 \ {"package"} \subseteq DOMAIN t, NEW asked, LegalAll2(asked),
         \A n \in DOMAIN asked : t[n] = asked[n],
         \A n \in DOMAIN DecodeEffect2(p) \ (Told \cup DOMAIN asked) : t[n] = DecodeEffect2(p)[n],
         NEW q, NEW state \in 1..3, Hears2(e, k, state, t, q, DecodeEffect2(q))
  PROVE  Keeps(DecodeEffect2(q), DecodeEffect2(p), asked)
<1> DEFINE b == DecodeEffect2(p)
           d == DecodeEffect2(q)
           layout == Layout2Of(p)
           w == Fields(layout, p)
           mode == Value(p, ModeAt2(e), 3)
<1>1. layout = Layout2(e, k, mode)
  <2>1. layout = Layout2(e, Value(p, 61, 1), mode)
    BY Zenon DEF Layout2Of
  <2>2. CASE e \in Dual
    BY <2>1, <2>2, Zenon
  <2>3. CASE e \notin Dual
    BY <2>1, <2>3, Zenon DEF Layout2
  <2> QED  BY <2>2, <2>3
<1>2. Reads2(p, b)
  BY Read2
<1>3. \A f \in layout : Legal2(f, b[f[1]])
  BY Legal2Read
<1>4. mode \in 0..7
  <2>1. ModeAt2(e) \in Int
    BY DEF ModeAt2
  <2>2. mode \in 0..(2^3 - 1)
    BY <2>1, ValueBound
  <2>3. 2^3 - 1 = 7
    OBVIOUS
  <2> HIDE DEF mode
  <2> QED  BY <2>2, <2>3
<1> HIDE DEF b, d, mode
<1>5. Laid2(e, k, mode)
  BY Layouts2
<1> HIDE DEF layout
<1>6. /\ Apart(layout) /\ \A f \in layout : Wide2(f) /\ Place(f)
      /\ e \in Dual => <<"package", 61, 1>> \in layout
      /\ e \notin Dual => \A f \in layout : f[1] # "package"
      /\ <<"mode", ModeAt2(e), 3>> \in layout \/ \A m : Layout2(e, k, m) = layout
  BY <1>1, <1>5 DEF Laid2, Sound2, Apart
<1>7. /\ DOMAIN b = NamesOf(layout) \cup {"effect", "state", "on"} /\ b["effect"] = e
      /\ \A n \in NamesOf(layout) : b[n] = IF n \in Kelvins THEN w[n] * 50 ELSE w[n]
  BY <1>2, Zenon DEF Reads2, layout
<1>8. \A f \in layout : f[1] \in NamesOf(layout) /\ w[f[1]] = Value(p, f[2], f[3])
  BY <1>6, ReadField DEF NamesOf
<1> HIDE DEF w
<1>9. Layout2(e, k, Mode2(t)) = layout
  <2>1. CASE <<"mode", ModeAt2(e), 3>> \in layout
    <3> DEFINE f == <<"mode", ModeAt2(e), 3>>
    <3>1. f \in layout /\ f[1] = "mode" /\ f[2] = ModeAt2(e) /\ f[3] = 3
      BY <2>1
    <3> HIDE DEF f
    <3>2. "mode" \in NamesOf(layout) /\ w["mode"] = mode
      BY <1>8, <3>1, Zenon DEF mode
    <3>3. b["mode"] = mode
      BY <1>7, <3>2 DEF Kelvins
    <3>4. "mode" \in DOMAIN b \ (Told \cup DOMAIN asked)
      BY <1>7, <3>2 DEF LegalAll2, Told
    <3>5. t["mode"] = mode
      BY <3>3, <3>4 DEF b
    <3>6. "mode" \in DOMAIN t
      BY DEF Named2, Page1
    <3>7. Mode2(t) = mode
      BY <1>4, <3>5, <3>6 DEF Mode2, Given, Clamp
    <3> QED  BY <1>1, <3>7, Zenon
  <2>2. CASE \A m : Layout2(e, k, m) = layout
    BY <2>2
  <2> QED  BY <1>6, <2>1, <2>2
<1>10. /\ DOMAIN d = NamesOf(layout) \cup {"effect", "state", "on"}
       /\ d["effect"] = e /\ d["on"] = 1
       /\ \A f \in layout : Legal2(f, Whole2(k, t)[f[1]]) => d[f[1]] = Whole2(k, t)[f[1]]
  <2>1. Hears2(e, k, state, t, q, d)
    BY DEF d
  <2>2. state # 0
    OBVIOUS
  <2>3. DOMAIN d = NamesOf(layout) \cup {"effect", "state", "on"}
    BY <1>9, <2>1, Zenon DEF Hears2
  <2>4. d["effect"] = e /\ d["on"] = 1
    BY <2>1, <2>2, ZenonT(40) DEF Hears2
  <2>5. \A f \in layout : Legal2(f, Whole2(k, t)[f[1]]) => d[f[1]] = Whole2(k, t)[f[1]]
    BY <1>9, <2>1, Zenon DEF Hears2
  <2> QED  BY <2>3, <2>4, <2>5
<1>11. Whole2(k, t)["package"] = k /\ \A n \in DOMAIN t \ {"package"} : Whole2(k, t)[n] = t[n]
  BY DEF Whole2, ++
<1>12. \A n \in NamesOf(layout) : n \in Named2 /\ n \notin {"effect", "state", "on", "playback"}
  <2>1. \A f \in layout : Field2(f)
    BY Read2 DEF layout
  <2> QED  BY <2>1 DEF NamesOf, Field2, Named2, Page0, Page1
<1>13. ASSUME NEW f \in layout, f[1] \in DOMAIN asked PROVE d[f[1]] = asked[f[1]]
  <2>1. f[1] \in DOMAIN t \ {"package"} /\ t[f[1]] = asked[f[1]]
    BY <1>8, <1>12, <1>13 DEF LegalAll2
  <2>2. Legal2(f, asked[f[1]])
    BY <1>6, <1>13 DEF LegalAll2
  <2>3. Whole2(k, t)[f[1]] = asked[f[1]]
    BY <1>11, <2>1
  <2> QED  BY <1>10, <2>2, <2>3
<1>14. ASSUME NEW f \in layout, f[1] \notin DOMAIN asked PROVE d[f[1]] = b[f[1]]
  <2>1. Whole2(k, t)[f[1]] = b[f[1]]
    <3>1. CASE f[1] = "package"
      <4>1. e \in Dual /\ f = <<"package", 61, 1>>
        BY <1>6, <3>1 DEF Apart
      <4>2. f[2] = 61 /\ f[3] = 1
        BY <4>1
      <4>3. w["package"] = k
        BY <1>8, <3>1, <4>1, <4>2
      <4>4. b["package"] = k
        BY <1>7, <1>8, <3>1, <4>3 DEF Kelvins
      <4> QED  BY <1>11, <3>1, <4>4
    <3>2. CASE f[1] # "package"
      <4>1. f[1] \in NamesOf(layout) /\ f[1] \in Named2
        BY <1>8, <1>12
      <4>2. f[1] \in DOMAIN b \ (Told \cup DOMAIN asked)
        BY <1>7, <1>12, <1>14, <3>2, <4>1 DEF Told
      <4>3. t[f[1]] = b[f[1]]
        BY <4>2 DEF b
      <4> QED  BY <1>11, <3>2, <4>1, <4>3
    <3> QED  BY <3>1, <3>2
  <2>2. Legal2(f, b[f[1]])
    BY <1>3 DEF layout, b
  <2> QED  BY <1>10, <2>1, <2>2
<1>15. DOMAIN d = DOMAIN b
  BY <1>7, <1>10
<1>16. ASSUME NEW n \in DOMAIN d \ {"playback", "state", "on"}
       PROVE  IF n \in DOMAIN asked THEN d[n] = asked[n] ELSE n \in DOMAIN b => d[n] = b[n]
  <2>1. CASE n = "effect"
    <3>1. n \notin DOMAIN asked
      BY <2>1 DEF LegalAll2
    <3> QED  BY <1>7, <1>10, <2>1, <3>1
  <2>2. CASE n # "effect"
    <3>1. n \in NamesOf(layout)
      BY <1>10, <2>2
    <3>2. PICK f \in layout : f[1] = n
      BY <3>1 DEF NamesOf
    <3> QED  BY <1>13, <1>14, <3>2
  <2> QED  BY <2>1, <2>2
<1>17. Keeps(d, b, asked)
  BY <1>10, <1>15, <1>16 DEF Keeps
<1> QED  BY <1>17, Zenon DEF d, b

(* The packets of an effect of command 34.                                 *)
Sends2(e, t, packets) ==
  /\ Named2 \ {"package"} \subseteq DOMAIN t
  /\ Len(packets) \in Nat /\ DOMAIN packets = 1..Len(packets)
  /\ DOMAIN packets = IF e \in Dual THEN {1, 2} ELSE {1}
  /\ \A i \in DOMAIN packets : \E state \in 1..3 : Built2(e, i - 1, state, t, packets[i])

(* A call sends the pages of its effect, each with all parameters.       *)
LEMMA Sending2 ==
  ASSUME NEW e \in Defaulted, NEW s, NEW t, t = s ++ Effect2Default(e),
         \A n \in DOMAIN s \cap Named2 : s[n] \in Int
  PROVE  Sends2(e, t, Effect2(e, s, 1))
<1>1. /\ DOMAIN t = DOMAIN s \cup DOMAIN Effect2Default(e)
      /\ \A n \in DOMAIN s : t[n] = s[n]
      /\ \A n \in DOMAIN Effect2Default(e) \ DOMAIN s : t[n] = Effect2Default(e)[n]
  BY DEF ++
<1>2. /\ Named2 \ {"package"} \subseteq DOMAIN t
      /\ \A n \in DOMAIN t \cap Named2 : t[n] \in Int
  BY <1>1, Default2
<1>3. ASSUME NEW page \in {0, 1} PROVE Full2(e, page, t)
  <2>1. "mode" \in DOMAIN t
    BY <1>2 DEF Named2, Page1
  <2> DEFINE mode == Mode2(t)
  <2>2. ASSUME NEW f \in Layout2(e, page, mode) PROVE Whole2(page, t)[f[1]] \in Int
    <3>1. f[1] \in Named2
      BY <2>2, Fields2 DEF Field2
    <3>2. f[1] = "package" => Whole2(page, t)[f[1]] = page
      BY DEF Whole2, ++
    <3>3. f[1] # "package" => Whole2(page, t)[f[1]] = t[f[1]] /\ f[1] \in DOMAIN t
      BY <1>2, <3>1 DEF Whole2, ++
    <3> QED  BY <1>2, <3>1, <3>2, <3>3
  <2> QED  BY <2>1, <2>2 DEF Full2
<1> DEFINE first == Effect2Packet(e, 0, 3, t)
           last == Effect2Packet(e, 1, 1, t)
           single == Effect2Packet(e, 0, 1, t)
           packets == Effect2(e, s, 1)
<1>4. /\ Built2(e, 0, 3, t, first)
      /\ e \notin Dual => Built2(e, 0, 1, t, single)
      /\ e \in Dual => Built2(e, 1, 1, t, last)
  BY <1>3, Page2
<1>5. packets = IF e \in Dual THEN <<first, last>> ELSE <<single>>
  BY Zenon DEF Effect2
<1> HIDE DEF first, last, single, packets
<1>6. CASE e \in Dual
  <2>1. /\ Len(packets) = 2 /\ DOMAIN packets = 1..2 /\ DOMAIN packets = {1, 2}
        /\ packets[1] = first /\ packets[2] = last
    BY <1>5, <1>6
  <2>2. ASSUME NEW i \in DOMAIN packets
        PROVE  \E state \in 1..3 : Built2(e, i - 1, state, t, packets[i])
    <3>1. CASE i = 1
      <4>1. Built2(e, i - 1, 3, t, packets[i])
        BY <1>4, <2>1, <3>1
      <4> QED  BY <4>1
    <3>2. CASE i = 2
      <4>1. Built2(e, i - 1, 1, t, packets[i])
        BY <1>4, <1>6, <2>1, <3>2
      <4> QED  BY <4>1
    <3> QED  BY <2>1, <3>1, <3>2
  <2>3. Sends2(e, t, packets)
    BY <1>2, <1>6, <2>1, <2>2 DEF Sends2
  <2> QED  BY <2>3, Zenon DEF packets
<1>7. CASE e \notin Dual
  <2>1. /\ Len(packets) = 1 /\ DOMAIN packets = 1..1 /\ DOMAIN packets = {1}
        /\ packets[1] = single
    BY <1>5, <1>7
  <2>2. ASSUME NEW i \in DOMAIN packets
        PROVE  \E state \in 1..3 : Built2(e, i - 1, state, t, packets[i])
    <3>1. Built2(e, i - 1, 1, t, packets[i])
      BY <1>4, <1>7, <2>1
    <3> QED  BY <3>1
  <2>3. Sends2(e, t, packets)
    BY <1>2, <1>7, <2>1, <2>2 DEF Sends2
  <2> QED  BY <2>3, Zenon DEF packets
<1> QED  BY <1>6, <1>7

(* They are in range.                                                    *)
LEMMA Sent2InRange ==
  ASSUME NEW e, NEW t, NEW packets, Sends2(e, t, packets)
  PROVE  AllInRange(packets)
<1>1. ASSUME NEW i \in DOMAIN packets PROVE InRange(Arrives(packets[i]))
  <2>1. packets[i].command = 34 /\ InRange(packets[i])
    BY DEF Sends2, Built2
  <2>2. Arrives(packets[i]) = packets[i]
    BY <2>1 DEF Arrives
  <2> QED  BY <2>1, <2>2
<1> QED  BY <1>1 DEF AllInRange

(* The page of a dual-page effect is one of its parameters.              *)
LEMMA PageOf2 ==
  ASSUME NEW p, Effect2Of(p) \in Dual
  PROVE  DecodeEffect2(p)["package"] = Value(p, 61, 1)
<1> DEFINE e == Effect2Of(p)
           page == Value(p, 61, 1)
           mode == Value(p, ModeAt2(e), 3)
           layout == Layout2Of(p)
           head == <<"package", 61, 1>>
<1>1. page \in {0, 1}
  <2>1. page \in 0..(2^1 - 1)
    BY ValueBound
  <2> QED  BY <2>1
<1>2. layout = PageLayout(e, page, mode)
  BY Zenon DEF Layout2Of, Layout2
<1>3. Reads2(p, DecodeEffect2(p))
  BY Read2
<1> HIDE DEF page, mode, layout
<1>4. head \in layout /\ \A f \in layout : f[1] = "package" => f = head
  BY <1>1, <1>2, PageNames DEF Page0, Page1
<1>5. Fields(layout, p)["package"] = page
  BY <1>4, FieldValue DEF page
<1>6. "package" \in NamesOf(layout)
  BY <1>4 DEF NamesOf
<1>7. "package" \notin Kelvins
  BY DEF Kelvins
<1>8. DecodeEffect2(p)["package"] = Fields(layout, p)["package"]
  BY <1>3, <1>6, <1>7, Zenon DEF Reads2, layout
<1> QED  BY <1>5, <1>8, Zenon DEF page

(* The running effect of command 34 rebuilt.                               *)
LEMMA Rebuild2 ==
  ASSUME IInv, Values, shown.family = "effect2", NEW e \in Defaulted, shown.state.effect = e,
         told = DOMAIN fixture, NEW asked, LegalAll2(asked), NEW t, NEW packets,
         Sends2(e, t, packets),
         \A n \in DOMAIN asked : t[n] = asked[n],
         \A n \in DOMAIN shown.state \ (Told \cup DOMAIN asked) : t[n] = shown.state[n]
  PROVE  Rebuilds(packets, "effect2", Look(fixture), asked)
<1>1. PICK first \in DOMAIN fixture :
        /\ fixture[first].command \in Commands
        /\ \A k \in DOMAIN fixture : /\ fixture[k].command = fixture[first].command
                                     /\ Value(fixture[k], 64, 8) = Value(fixture[first], 64, 8)
                                     /\ Page(fixture[k]) = k /\ Shows(k)
  BY HeardAll
<1>2. \A k \in DOMAIN fixture : fixture[k].command = 34 /\ Shows(k) /\ InRange(fixture[k])
  BY <1>1, Families DEF Values, FixtureInRange
<1> DEFINE base == Look(fixture)
<1>3. DOMAIN base = DOMAIN fixture /\ \A k \in DOMAIN fixture : base[k] = DecodeEffect2(fixture[k])
  BY <1>2, Decoding DEF Look
<1>4. ASSUME NEW k \in DOMAIN fixture
      PROVE  /\ Effect2Of(fixture[k]) = e /\ k \in {0, 1} /\ (e \notin Dual => k = 0)
             /\ e \in Dual => Value(fixture[k], 61, 1) = k
             /\ \A n \in DOMAIN DecodeEffect2(fixture[k]) \ (Told \cup DOMAIN asked) :
                  t[n] = DecodeEffect2(fixture[k])[n]
  <2> DEFINE p == fixture[k]
             s == DecodeEffect2(p)
  <2>1. Decoded(p) = s /\ p.command = 34 /\ WellFormed(fixture)
    BY <1>2, Decoding DEF IInv
  <2>2. /\ EveryPage \ {"package"} \subseteq DOMAIN s /\ s.effect = Effect2Of(p)
        /\ s.effect \in Dual => OfPage(s, k) /\ k \in {0, 1}
        /\ s.effect \notin Dual => "package" \notin DOMAIN s /\ k = 0
    BY <2>1, Effect2Pages
  <2>3. ShowsEffect2(k, s)
    BY <1>2, <2>1 DEF Shows
  <2> HIDE DEF s, p
  <2>4. \A n \in DOMAIN s \ Told : n \in DOMAIN shown.state /\ shown.state[n] = s[n]
    BY <2>3 DEF ShowsEffect2, Told
  <2>5. "effect" \in DOMAIN s \ Told
    BY <2>2 DEF EveryPage, Told
  <2>6. s.effect = e
    BY <2>4, <2>5
  <2>7. \A n \in DOMAIN s \ (Told \cup DOMAIN asked) : t[n] = s[n]
    BY <2>4
  <2>8. e \in Dual => Value(p, 61, 1) = k
    BY <2>2, <2>6, PageOf2 DEF OfPage, s
  <2> QED  BY <2>2, <2>6, <2>7, <2>8 DEF s, p
<1> HIDE DEF base
<1>5. ASSUME NEW i \in DOMAIN packets
      PROVE  /\ packets[i].command = 34 /\ Page(packets[i]) = i - 1 /\ i \in {1, 2}
             /\ Value(packets[i], 64, 8) = Effect2Id(e)
             /\ \E state \in 1..3 : Hears2(e, i - 1, state, t, packets[i], DecodeEffect2(packets[i]))
  <2>1. PICK state \in 1..3 : Built2(e, i - 1, state, t, packets[i])
    BY DEF Sends2
  <2>2. Hears2(e, i - 1, state, t, packets[i], DecodeEffect2(packets[i]))
    BY <2>1 DEF Built2
  <2>3. Value(packets[i], 64, 8) = Effect2Id(e)
    BY <2>2, Zenon DEF Hears2
  <2>4. i \in {1, 2}
    BY DEF Sends2
  <2> QED  BY <2>1, <2>2, <2>3, <2>4 DEF Built2
<1>6. ASSUME NEW i \in DOMAIN packets, NEW k \in DOMAIN fixture PROVE Alike(fixture[k], packets[i])
  <2>1. Value(fixture[k], 64, 8) \in 0..17
    <3>1. fixture[k].command = 34 /\ InRange(fixture[k])
      BY <1>2
    <3> QED  BY <3>1 DEF InRange
  <2>2. Effect2Names[Value(fixture[k], 64, 8) + 1] = e
    BY <1>4 DEF Effect2Of
  <2>3. Value(fixture[k], 64, 8) = Effect2Id(e)
    BY <2>1, <2>2, OnlyId2
  <2> QED  BY <1>2, <1>5, <2>3 DEF Alike
<1>7. ASSUME NEW k \in DOMAIN base
      PROVE  \E i \in DOMAIN packets :
               Page(packets[i]) = k /\ Keeps(Decoded(packets[i]), base[k], asked)
  <2>1. k \in DOMAIN fixture /\ k \in {0, 1} /\ (e \notin Dual => k = 0)
    BY <1>3, <1>4
  <2> DEFINE i == k + 1
             p == fixture[k]
             q == packets[i]
  <2>2. i \in DOMAIN packets /\ i - 1 = k
    BY <2>1, SMTT(30) DEF Sends2
  <2>3. q.command = 34 /\ Page(q) = k
    BY <1>5, <2>2
  <2>4. PICK state \in 1..3 : Hears2(e, k, state, t, q, DecodeEffect2(q))
    BY <1>5, <2>2
  <2>5. /\ p.command = 34 /\ InRange(p) /\ e = Effect2Of(p) /\ (e \in Dual => Value(p, 61, 1) = k)
        /\ \A n \in DOMAIN DecodeEffect2(p) \ (Told \cup DOMAIN asked) : t[n] = DecodeEffect2(p)[n]
    BY <1>2, <1>4, <2>1
  <2>6. Named2 \ {"package"} \subseteq DOMAIN t
    BY DEF Sends2
  <2>7. base[k] = DecodeEffect2(p) /\ Decoded(q) = DecodeEffect2(q)
    BY <1>3, <2>1, <2>3, Decoding
  <2> HIDE DEF i, p, q
  <2>8. Keeps(DecodeEffect2(q), DecodeEffect2(p), asked)
    BY <2>1, <2>4, <2>5, <2>6, Keep2
  <2>9. Page(packets[i]) = k /\ Keeps(Decoded(packets[i]), base[k], asked)
    BY <2>3, <2>7, <2>8, Zenon DEF q
  <2> QED  BY <2>2, <2>9
<1>8. Rebuilt("effect2", base) = DOMAIN base
  BY DEF Rebuilt
<1>9. Plan(packets, "effect2", base, asked)
  <2>1. Len(packets) \in Nat /\ DOMAIN packets = 1..Len(packets)
    BY DEF Sends2
  <2>2. \A i \in DOMAIN packets : packets[i].command \in {7, 33, 34}
    BY <1>5
  <2>3. \A i, j \in DOMAIN packets : Page(packets[i]) = Page(packets[j]) => i = j
    BY <1>5
  <2> QED  BY <1>7, <1>8, <2>1, <2>2, <2>3 DEF Plan
<1>10. Rebuilds(packets, "effect2", base, asked)
  BY <1>6, <1>9 DEF Rebuilds
<1> QED  BY <1>10 DEF base

(* What may be asked of an effect of command 34.                           *)
Fit2(n, v) ==
  CASE n = "intensity"  -> v \in 0..1000
    [] n = "frequency"  -> v \in 1..11
    [] n = "hue"        -> v \in 0..360
    [] n = "saturation" -> v \in 0..100
    [] n = "gm"         -> v \in 0..200
    [] n = "kelvin"     -> Fifties(v)
Asked2 == {"intensity", "frequency", "hue", "saturation", "gm", "kelvin"}

(* It can be sent as it is.                                              *)
LEMMA FitLegal2 ==
  ASSUME NEW n \in Asked2, NEW v, Fit2(n, v)
  PROVE  LegalAll2(At(n, v)) /\ (v \in Int)
<1> DEFINE t == At(n, v)
<1>1. DOMAIN t = {n} /\ t[n] = v
  BY DEF At
<1>2. /\ n = "intensity" => v \in 0..1000
      /\ n = "frequency" => v \in 1..11
      /\ n = "hue" => v \in 0..360
      /\ n = "saturation" => v \in 0..100
      /\ n = "gm" => v \in 0..200
      /\ n = "kelvin" => Fifties(v)
  <2>1. n = "intensity" => v \in 0..1000
    BY DEF Fit2
  <2>2. n = "frequency" => v \in 1..11
    BY DEF Fit2
  <2>3. n = "hue" => v \in 0..360
    BY DEF Fit2
  <2>4. n = "saturation" => v \in 0..100
    BY DEF Fit2
  <2>5. n = "gm" => v \in 0..200
    BY DEF Fit2
  <2>6. n = "kelvin" => Fifties(v)
    BY DEF Fit2
  <2> QED  BY <2>1, <2>2, <2>3, <2>4, <2>5, <2>6
<1>3. v \in Int
  BY <1>2 DEF Asked2, Fifties
<1> HIDE DEF t
<1>4. ASSUME NEW f, Wide2(f), Place(f), f[1] = n PROVE Legal2(f, v)
  <2> DEFINE width == f[3]
  <2>1. CASE n = "kelvin"
    <3>1. f[1] \in Kelvins
      BY <1>4, <2>1 DEF Kelvins
    <3> QED  BY <1>2, <2>1, <3>1 DEF Legal2
  <2>2. CASE n # "kelvin"
    <3>1. f[1] \notin Kelvins
      BY <1>4, <2>2 DEF Kelvins, Asked2
    <3>2. /\ n = "intensity" => width = 10
          /\ n = "frequency" => width \in {4, 8}
          /\ n = "hue" => width = 9
          /\ n = "saturation" => width \in {7, 10}
          /\ n = "gm" => width = 8
          /\ f[1] # "min_intensity"
      BY <1>4 DEF Wide2, Asked2
    <3> DEFINE top == 2^width - 1
    <3>3. width \in 0..10
      BY <1>4 DEF Place
    <3>4. /\ width = 4 => top = 15
          /\ width = 7 => top = 127
          /\ width = 8 => top = 255
          /\ width = 9 => top = 511
          /\ width = 10 => top = 1023
      <4>1. 2^width = Pow(width)
        BY <3>3, Powers, Zenon
      <4>2. Pow(4) = 16 /\ Pow(7) = 128 /\ Pow(8) = 256 /\ Pow(9) = 512 /\ Pow(10) = 1024
        BY DEF Pow
      <4> QED  BY <4>1, <4>2
    <3> HIDE DEF top, width
    <3>5. v \in 0..top
      BY <1>2, <2>2, <3>2, <3>4 DEF Asked2
    <3>6. f[1] \in {"intensity", "min_intensity"} => v <= 1000
      BY <1>2, <1>4, <3>2
    <3> QED  BY <3>1, <3>5, <3>6 DEF Legal2, top, width
  <2> QED  BY <2>1, <2>2
<1>5. LegalAll2(t)
  BY <1>1, <1>4 DEF LegalAll2, Asked2
<1> QED  BY <1>3, <1>5 DEF t

(* A call for the running effect of command 34.                            *)
LEMMA Running2 ==
  ASSUME IInv, Values, shown.family = "effect2", NEW e \in Defaulted, shown.state.effect = e,
         NEW n \in Asked2, NEW v, Fit2(n, v), NEW s,
         DOMAIN s = DOMAIN shown.state, \A m \in DOMAIN s \ {"on"} : s[m] = shown.state[m],
         NEW packets, packets = Effect2(e, At(n, v) ++ s, 1)
  PROVE  /\ AllInRange(packets)
         /\ told = DOMAIN fixture => Rebuilds(packets, "effect2", Look(fixture), At(n, v))
<1> DEFINE asked == At(n, v)
           t0 == asked ++ s
           t == t0 ++ Effect2Default(e)
<1>1. LegalAll2(asked) /\ v \in Int
  BY FitLegal2
<1>2. DOMAIN asked = {n} /\ asked[n] = v
  BY DEF At
<1> HIDE DEF asked
<1>3. DOMAIN t0 = {n} \cup DOMAIN s /\ t0[n] = v /\ \A m \in DOMAIN s \ {n} : t0[m] = s[m]
  BY <1>2 DEF ++
<1> HIDE DEF t0
<1>4. \A m \in DOMAIN t0 \cap Named2 : t0[m] \in Int
  <2>1. \A m \in DOMAIN shown.state \ {"effect", "state", "on"} : shown.state[m] \in Int
    BY DEF Values, ShownInRange, Numeric2
  <2>2. Named2 \cap {"effect", "state", "on"} = {}
    BY DEF Named2, Page0, Page1
  <2> QED  BY <1>1, <1>3, <2>1, <2>2
<1>5. Sends2(e, t, packets)
  <2>1. Sends2(e, t, Effect2(e, t0, 1))
    BY <1>4, Sending2
  <2> QED  BY <2>1, Zenon DEF t0, asked
<1>6. t[n] = v /\ \A m \in DOMAIN s \ {n} : t[m] = s[m]
  BY <1>3 DEF ++
<1> HIDE DEF t
<1>7. AllInRange(packets)
  BY <1>5, Sent2InRange
<1>8. ASSUME told = DOMAIN fixture PROVE Rebuilds(packets, "effect2", Look(fixture), asked)
  <2>1. \A m \in DOMAIN asked : t[m] = asked[m]
    BY <1>2, <1>6
  <2>2. \A m \in DOMAIN shown.state \ (Told \cup DOMAIN asked) : t[m] = shown.state[m]
    BY <1>2, <1>6 DEF Told
  <2> QED  BY <1>1, <1>5, <1>8, <2>1, <2>2, Rebuild2
<1> QED  BY <1>7, <1>8 DEF asked

(* A parameter of the running command-34 effect.                         *)
LEMMA SetEffect2Values ==
  ASSUME IInv, Values, NEW field \in DOMAIN Asked \ {"intensity"}, SetEffect2(field)
  PROVE  Values'
<1> DEFINE s == shown.state
           e == s.effect
<1>1. PICK value \in Asked[field] :
        LET target == CASE field = "gm" -> Clamp(value, 0, 200)
                        [] field = "frequency" -> Clamp(value, 1, 11)
                        [] OTHER -> Target(field, value, e)
            packets == Effect2Payloads(s, At(field, target))
        IN Begins("effect2", e, packets, Effect2Expected(packets), TRUE, At(field, target))
  BY Zenon DEF SetEffect2
<1> DEFINE target == CASE field = "gm" -> Clamp(value, 0, 200)
                       [] field = "frequency" -> Clamp(value, 1, 11)
                       [] OTHER -> Target(field, value, e)
           asked == At(field, target)
           packets == Effect2Payloads(s, asked)
           want == Effect2Expected(packets)
<1>2. shown.family = "effect2" /\ s.on = 1 /\ e \in Defaulted
  BY DEF SetEffect2
<1>3. field \in {"frequency", "kelvin", "hue", "saturation", "gm"} /\ value \in Int
  <2>1. field \notin {"mode", "variant", "intensity"}
    BY DEF SetEffect2
  <2> QED  BY <2>1, AskedAssumption
<1>4. Fit2(field, target)
  <2>1. CASE field = "gm"
    <3>1. target = Clamp(value, 0, 200)
      BY <2>1
    <3> HIDE DEF target
    <3>2. target \in 0..200
      BY <1>3, <3>1 DEF Clamp
    <3> QED  BY <2>1, <3>2 DEF Fit2
  <2>2. CASE field = "frequency"
    <3>1. target = Clamp(value, 1, 11)
      BY <2>2
    <3> HIDE DEF target
    <3>2. target \in 1..11
      BY <1>3, <3>1 DEF Clamp
    <3> QED  BY <2>2, <3>2 DEF Fit2
  <2>3. CASE field = "hue"
    <3>1. target = Clamp(value, 0, 360)
      BY <2>3 DEF Target
    <3> HIDE DEF target
    <3>2. target \in 0..360
      BY <1>3, <3>1 DEF Clamp
    <3> QED  BY <2>3, <3>2 DEF Fit2
  <2>4. CASE field = "saturation"
    <3>1. target = Clamp(value, 0, 100)
      BY <2>4 DEF Target
    <3> HIDE DEF target
    <3>2. target \in 0..100
      BY <1>3, <3>1 DEF Clamp
    <3> QED  BY <2>4, <3>2 DEF Fit2
  <2>5. CASE field = "kelvin"
    <3>1. target = Target("kelvin", value, e)
      BY <2>5
    <3> HIDE DEF target, e
    <3>2. PICK n \in 16..400 : target = 50 * n
      BY <1>3, <3>1, KelvinTarget
    <3>3. Fifties(target)
      BY <3>2 DEF Fifties
    <3> QED  BY <2>5, <3>3 DEF Fit2
  <2> QED  BY <1>3, <2>1, <2>2, <2>3, <2>4, <2>5
<1>5. field \in Asked2
  BY <1>3 DEF Asked2
<1>6. packets = Effect2(e, At(field, target) ++ s, 1)
  BY <1>2, Zenon DEF Effect2Payloads
<1>7. Begins("effect2", e, packets, want, TRUE, asked)
  BY <1>1, Zenon
<1> HIDE DEF target, packets, want
<1>8. /\ AllInRange(packets)
      /\ told = DOMAIN fixture => Rebuilds(packets, "effect2", Look(fixture), At(field, target))
  BY <1>2, <1>4, <1>5, <1>6, Running2
<1> HIDE DEF e
<1>9. told = DOMAIN fixture => Rebuilds(packets, "effect2", Look(fixture), asked)
  BY <1>8, Zenon
<1> HIDE DEF asked
<1> QED  BY <1>7, <1>8, <1>9, BeginValues

(* A command-34 effect, the running one or another.                      *)
LEMMA ApplyEffect2Values ==
  ASSUME IInv, Values, NEW e, NEW given \in Asked["intensity"] \cup {NotGiven},
         ApplyEffect2(e, given)
  PROVE  Values'
<1> DEFINE same == shown.family = "effect2" /\ shown.state.effect = e
           intensity == IF given = NotGiven THEN KeptIntensity ELSE given
           lit == [shown.state EXCEPT !.on = 1]
           fresh == [intensity |-> intensity, mode |-> 1,
                     kelvin |-> DefaultKelvin, gm |-> preferredGm,
                     hue |-> Given(steady, "hue", 1),
                     saturation |-> Given(steady, "saturation", 100),
                     center_kelvin |-> DefaultKelvin, min_kelvin |-> MinKelvin,
                     max_kelvin |-> MaxKelvin]
           asked == [intensity |-> intensity]
           packets == IF same THEN Effect2Payloads(lit, asked) ELSE Effect2(e, fresh, 1)
           want == Effect2Expected(packets)
<1>1. e \in Defaulted /\ Begins("effect2", e, packets, want, same, asked)
  BY Zenon DEF ApplyEffect2
<1>2. intensity \in Int /\ (same => intensity \in 0..1000)
  <2>1. given # NotGiven => given \in 0..1000
    BY GivenIntensity
  <2>2. KeptIntensity \in 0..1023 /\ (shown.family # "pixel" => KeptIntensity \in 0..1000)
    BY KeptBounds
  <2> QED  BY <2>1, <2>2
<1>3. asked = At("intensity", intensity)
  BY DEF At
<1>4. CASE same
  <2>1. /\ DOMAIN lit = DOMAIN shown.state /\ lit.on = 1
        /\ \A m \in DOMAIN lit \ {"on"} : lit[m] = shown.state[m]
        /\ lit.effect = e
    BY <1>4 DEF Values, ShownInRange, Numeric2
  <2>2. packets = Effect2(e, asked ++ lit, 1)
    <3>1. packets = Effect2(lit.effect, asked ++ lit, lit.on)
      BY <1>4, Zenon DEF Effect2Payloads
    <3> HIDE DEF packets, lit, asked
    <3> QED  BY <2>1, <3>1
  <2>3. packets = Effect2(e, At("intensity", intensity) ++ lit, 1)
    BY <1>3, <2>2, Zenon
  <2>4. "intensity" \in Asked2 /\ Fit2("intensity", intensity)
    <3>1. intensity \in 0..1000
      BY <1>2, <1>4
    <3> HIDE DEF intensity
    <3> QED  BY <3>1 DEF Asked2, Fit2
  <2>5. shown.family = "effect2" /\ shown.state.effect = e
    BY <1>4
  <2> HIDE DEF packets, lit, asked, intensity, same, want
  <2> DEFINE n == "intensity"
  <2>6. /\ n \in Asked2 /\ Fit2(n, intensity) /\ packets = Effect2(e, At(n, intensity) ++ lit, 1)
        /\ At(n, intensity) = asked
    BY <1>3, <2>3, <2>4, Zenon
  <2> HIDE DEF n
  <2>7. /\ AllInRange(packets)
        /\ told = DOMAIN fixture => Rebuilds(packets, "effect2", Look(fixture), At(n, intensity))
    BY <1>1, <2>1, <2>5, <2>6, Running2
  <2>8. told = DOMAIN fixture => Rebuilds(packets, "effect2", Look(fixture), asked)
    BY <2>6, <2>7, Zenon
  <2> QED  BY <1>1, <2>7, <2>8, BeginValues
<1>5. CASE ~same
  <2>1. packets = Effect2(e, fresh, 1)
    BY <1>5
  <2>2. /\ DOMAIN fresh = {"intensity", "mode", "kelvin", "gm", "hue", "saturation",
                           "center_kelvin", "min_kelvin", "max_kelvin"}
        /\ fresh["intensity"] = intensity /\ fresh["mode"] = 1 /\ fresh["kelvin"] = DefaultKelvin
        /\ fresh["gm"] = preferredGm /\ fresh["hue"] = Given(steady, "hue", 1)
        /\ fresh["saturation"] = Given(steady, "saturation", 100)
        /\ fresh["center_kelvin"] = DefaultKelvin /\ fresh["min_kelvin"] = MinKelvin
        /\ fresh["max_kelvin"] = MaxKelvin
    OBVIOUS
  <2>3. /\ Given(steady, "hue", 1) \in Int /\ Given(steady, "saturation", 100) \in Int
        /\ preferredGm \in Int
    BY DEF Values, SteadyHeard, Given
  <2>4. DefaultKelvin \in Int
    <3>1. DefaultKelvin \in 800..20000
      BY DefaultTens DEF Values
    <3> QED  BY <3>1
  <2>5. MinKelvin \in Int /\ MaxKelvin \in Int
    BY Profile
  <2> HIDE DEF fresh, packets, intensity
  <2>6. \A n \in DOMAIN fresh : fresh[n] \in Int
    BY <1>2, <2>2, <2>3, <2>4, <2>5
  <2> DEFINE t == fresh ++ Effect2Default(e)
  <2>7. Sends2(e, t, Effect2(e, fresh, 1))
    BY <1>1, <2>6, Sending2
  <2> HIDE DEF t
  <2>8. AllInRange(packets)
    BY <2>1, <2>7, Sent2InRange
  <2> HIDE DEF want, same, asked
  <2> QED  BY <1>1, <1>5, <2>8, BeginValues
<1> QED  BY <1>4, <1>5

-------------------------------------------------------------------------------
(* Calls that end an effect, and those of pixel effects.                 *)

(* A steady look, as the fixture takes it: its output is on.               *)
LEMMA LooksInRange ==
  ASSUME NEW hsi \in BOOLEAN, NEW wire, wire["intensity"] \in 0..1000, NEW p,
         p = Packet(IF hsi THEN 1 ELSE 2, StatusLayout(hsi), wire)
  PROVE  AllInRange(<<p>>)
<1> DEFINE layout == StatusLayout(hsi)
           q == Arrives(p)
           f == <<"intensity", 62, 10>>
           w == Fields(layout, q)
           v == wire["intensity"]
<1>1. Apart(layout) /\ f \in layout
  <2>1. layout = StatusLayout(TRUE) \/ layout = StatusLayout(FALSE)
    OBVIOUS
  <2>2. Apart(StatusLayout(TRUE)) /\ Apart(StatusLayout(FALSE))
    BY DEF StatusLayout, Apart, Place
  <2>3. f \in StatusLayout(TRUE) /\ f \in StatusLayout(FALSE)
    BY DEF StatusLayout
  <2> QED  BY <2>1, <2>2, <2>3
<1>2. f[1] = "intensity" /\ f[2] = 62 /\ f[3] = 10
  OBVIOUS
<1>3. q.bits = p.bits \cup {8} /\ q.command = IF hsi THEN 1 ELSE 2
  <2>1. p.command \in {1, 2} /\ p.command = (IF hsi THEN 1 ELSE 2) /\ {"command", "bits"} = DOMAIN p
    BY DEF Packet
  <2> QED  BY <2>1 DEF Arrives
<1> HIDE DEF layout, f, q
<1>4. Holds(q, f, v)
  <2> DEFINE command == IF hsi THEN 1 ELSE 2
  <2>1. p = Packet(command, layout, wire)
    BY DEF layout
  <2> HIDE DEF command
  <2>2. Holds(Packet(command, layout, wire), f, wire[f[1]])
    BY <1>1, PacketBits
  <2>3. Holds(p, f, v)
    BY <1>2, <2>1, <2>2, Zenon
  <2> HIDE DEF v
  <2>4. \A i \in 0..(f[3] - 1) : f[2] + i # 8
    BY <1>2
  <2> QED  BY <1>3, <2>3, <2>4 DEF Holds
<1>5. w["intensity"] = v
  <2>1. f[2] \in Int /\ f[3] \in 1..10
    BY <1>2
  <2>2. v \in 0..(2^f[3] - 1)
    <3>1. 2^10 - 1 = 1023 /\ v \in 0..1023
      OBVIOUS
    <3>2. v \in 0..(2^10 - 1)
      BY <3>1, SMTT(30)
    <3> HIDE DEF v
    <3> QED  BY <1>2, <3>2, Zenon
  <2> HIDE DEF v, w
  <2>3. Value(q, f[2], f[3]) = v
    BY <1>4, <2>1, <2>2, ValueOf DEF Holds
  <2>4. w[f[1]] = Value(q, f[2], f[3])
    BY <1>1, ReadField DEF w
  <2> QED  BY <1>2, <2>3, <2>4, Zenon
<1> HIDE DEF w
<1> DEFINE s == DecodeStatus(q)
<1>6. s["intensity"] \in 0..1000
  <2>1. CASE hsi
    <3>1. s = [hsi |-> hsi, on |-> w.on] ++
              [intensity |-> Clamp(w.intensity, 0, 1000), hue |-> Clamp(w.hue, 0, 360),
               saturation |-> Clamp(w.saturation, 0, 100)]
      BY <1>3, <2>1, ZenonT(40) DEF DecodeStatus, w, layout
    <3>2. s["intensity"] = Clamp(v, 0, 1000)
      BY <1>5, <3>1 DEF ++
    <3> HIDE DEF s
    <3> QED  BY <3>2 DEF Clamp
  <2>2. CASE ~hsi
    <3> DEFINE shift == Clamp(IF w.gmFlag = 1 THEN w.gm + 100 * w.gmHigh ELSE w.gm * 10, 0, 200)
               kelvin == (w.cct + 1000 * w.high) * 10
    <3>1. (1 = 2) = FALSE /\ q.command = 2
      BY <1>3, <2>2
    <3>2. s = [hsi |-> hsi, on |-> w.on] ++
              [intensity |-> w.intensity, kelvin |-> kelvin, gm |-> shift]
      <4>1. (q.command = 1) = hsi
        BY <2>2, <3>1
      <4> QED  BY <2>2, <4>1, ZenonT(40) DEF DecodeStatus, w, layout
    <3> HIDE DEF shift, kelvin
    <3>3. s["intensity"] = v
      BY <1>5, <3>2 DEF ++
    <3> QED  BY <3>3
  <2> QED  BY <2>1, <2>2
<1>7. InRange(q)
  <2>1. Decoded(q) = s /\ q.command # 7 /\ q.command # 34
    BY <1>3 DEF Decoded
  <2> HIDE DEF s
  <2> QED  BY <1>6, <2>1 DEF InRange
<1>8. DOMAIN <<p>> = {1} /\ <<p>>[1] = p
  OBVIOUS
<1> QED  BY <1>7, <1>8 DEF AllInRange, q

(* The end of an effect: a steady look.                                  *)
LEMMA ExitEffectValues ==
  ASSUME IInv, Values, NEW given \in Asked["intensity"] \cup {NotGiven}, ExitEffect(given)
  PROVE  Values'
<1> DEFINE kept == IF steady # NoLook THEN steady.intensity
                   ELSE IF ShownIntensity > 0 THEN ShownIntensity ELSE 180
           intensity == IF given = NotGiven THEN kept ELSE given
           coloured == Hsi(steady.hue, steady.saturation, intensity)
           kelvin == IF steady # NoLook THEN steady.kelvin ELSE DefaultKelvin
           white == Cct(kelvin, intensity, preferredGm, GmV2)
           hsi == steady # NoLook /\ steady.hsi
           packet == IF hsi THEN coloured ELSE white
           packets == <<packet>>
           want == DecodeStatus(packet)
           asked == [intensity |-> intensity]
<1>1. Begins("steady", "off", packets, want, FALSE, asked)
  BY Zenon DEF ExitEffect
<1>2. intensity \in Int
  <2>1. given # NotGiven => given \in 0..1000
    BY GivenIntensity
  <2>2. steady["intensity"] \in 0..1000
    BY DEF Values, SteadyHeard
  <2>3. KeptIntensity \in 0..1023
    BY KeptBounds
  <2>4. ShownIntensity > 0 => KeptIntensity = ShownIntensity
    BY DEF KeptIntensity
  <2>5. ShownIntensity > 0 => ShownIntensity \in Int
    BY <2>3, <2>4
  <2>6. kept \in Int
    <3>1. steady.intensity \in Int
      BY <2>2
    <3> QED  BY <2>5, <3>1
  <2> HIDE DEF kept
  <2> QED  BY <2>1, <2>6
<1> DEFINE dim == Clamp(intensity, 0, 1000)
<1>3. dim \in 0..1000
  <2> HIDE DEF intensity
  <2> QED  BY <1>2 DEF Clamp
<1>4. AllInRange(<<coloured>>)
  <2> DEFINE wire == [on |-> 0, intensity |-> dim, hue |-> Clamp(steady.hue, 0, 360),
                      saturation |-> Clamp(steady.saturation, 0, 100)]
  <2>1. coloured = Packet(1, StatusLayout(TRUE), wire)
    BY Zenon DEF Hsi
  <2>2. wire["intensity"] = dim
    OBVIOUS
  <2> HIDE DEF wire, coloured, dim
  <2>3. coloured = Packet(IF TRUE THEN 1 ELSE 2, StatusLayout(TRUE), wire)
    BY <2>1
  <2> QED  BY <1>3, <2>2, <2>3, LooksInRange
<1>5. AllInRange(<<white>>)
  <2>1. \E wire : white = Packet(2, StatusLayout(FALSE), wire) /\ wire["intensity"] = dim
    <3> DEFINE tens == Clamp(kelvin, 800, 20000) \div 10
               gm == preferredGm
               wire == [on |-> 0, intensity |-> dim,
                        high |-> IF tens < 1001 THEN 0 ELSE 1,
                        cct |-> IF tens < 1001 THEN tens ELSE (tens + 24) % 1024, gmFlag |-> GmV2,
                        gmHigh |-> IF GmV2 = 1 /\ gm > 100 THEN 1 ELSE 0,
                        gm |-> IF GmV2 = 0 THEN CoarseGm(gm) ELSE IF gm > 100 THEN gm - 100 ELSE gm]
    <3>1. white = Packet(2, StatusLayout(FALSE), wire)
      BY DEF Cct
    <3> HIDE DEF dim, tens, white
    <3>2. wire["intensity"] = dim
      OBVIOUS
    <3> HIDE DEF wire
    <3> QED  BY <3>1, <3>2
  <2>2. PICK wire : white = Packet(2, StatusLayout(FALSE), wire) /\ wire["intensity"] = dim
    BY <2>1
  <2> HIDE DEF white, dim
  <2>3. white = Packet(IF FALSE THEN 1 ELSE 2, StatusLayout(FALSE), wire)
    BY <2>2
  <2> QED  BY <1>3, <2>2, <2>3, LooksInRange
<1>6. packet = coloured \/ packet = white
  OBVIOUS
<1> HIDE DEF packet, coloured, white
<1>7. AllInRange(packets)
  BY <1>4, <1>5, <1>6
<1> HIDE DEF packets, want, asked
<1> QED  BY <1>1, <1>7, BeginValues

(* A pixel packet's own identifier.                                        *)
LEMMA OwnId ==
  ASSUME NEW p, PixelReadable(p)
  PROVE  Value(p, 64, 8) = PixelId(PixelOf(p)) /\ PixelOf(p) \in Pixels
  BY DEF PixelReadable, PixelOf

(* The packets of a pixel program are pages of its own.                    *)
LEMMA SentPages ==
  ASSUME NEW e, NEW source, Good(e, source), NEW packets, NEW keys, NEW n,
         Sends(packets, source, keys, n), NEW i \in 1..n
  PROVE  /\ packets[i].command = 33 /\ Page(packets[i]) = keys[i]
         /\ Changed(source[keys[i]], Decoded(packets[i]))
         /\ "on" \notin DOMAIN Decoded(packets[i])
<1> DEFINE s == source[keys[i]]
           t == DecodePixel(packets[i])
<1>1. packets[i].command = 33 /\ IsPage(t) /\ Changed(s, t) /\ keys[i] \in DOMAIN source
  BY DEF Sends
<1>2. IsPage(s) /\ PageKey(s) = keys[i]
  BY <1>1 DEF Good
<1>3. Decoded(packets[i]) = t /\ Page(packets[i]) = PageKey(t)
  BY <1>1, Decoding
<1> HIDE DEF s, t
<1>4. PageKey(t) = PageKey(s)
  BY <1>1, <1>2, ChangedSame
<1>5. "on" \notin DOMAIN t
  <2>1. \A f \in LayoutOf(t) : f[1] # "on"
    BY <1>1, Widths DEF IsPage, LayoutOf
  <2> QED  BY <1>1, <2>1 DEF IsPage
<1> QED  BY <1>1, <1>2, <1>3, <1>4, <1>5 DEF s

(* The running pixel effect rebuilt at another brightness.                 *)
LEMMA Rebuild33 ==
  ASSUME IInv, told = DOMAIN fixture, shown.family = "pixel", "effect" \in DOMAIN shown,
         shown.effect \in Pixels, NEW intensity \in 0..1023,
         NEW packets, packets = PixelPayloads(shown, intensity)
  PROVE  Rebuilds(packets, "pixel", Look(fixture), [brightness |-> intensity])
<1> DEFINE e == shown.effect
           base == Look(fixture)
           pages == shown.pages
           source == SourceOf(shown)
           asked == [brightness |-> intensity]
<1>1. Good(e, pages)
  BY DEF IInv, ShownGood
<1>2. PICK keys, n : Sends(packets, source, keys, n)
  BY <1>1, Payloads
<1>3. Marked(packets, e, intensity)
  BY <1>1, Payloads
<1>4. Good(e, source)
  BY <1>1, SourceClosed DEF Closed
<1>5. \A k \in DOMAIN fixture : fixture[k].command = 33 /\ Shows(k)
  <2>1. PICK first \in DOMAIN fixture :
          /\ fixture[first].command \in Commands
          /\ \A k \in DOMAIN fixture : /\ fixture[k].command = fixture[first].command
                                       /\ Value(fixture[k], 64, 8) = Value(fixture[first], 64, 8)
                                       /\ Page(fixture[k]) = k /\ Shows(k)
    BY HeardAll
  <2> QED  BY <2>1, Families
<1>6. ASSUME NEW k \in DOMAIN fixture
      PROVE  /\ k \in DOMAIN base /\ k \in DOMAIN pages /\ base[k] = pages[k]
             /\ Value(fixture[k], 64, 8) = PixelId(e)
  <2>1. WellFormed(fixture) /\ PixelReadable(fixture[k])
    BY <1>5 DEF IInv, WellFormed
  <2> DEFINE s == Decoded(fixture[k])
  <2>2. s.effect = PixelOf(fixture[k])
    BY <1>5, <2>1, PixelPagesOf
  <2>3. k \in DOMAIN base /\ base[k] = s
    BY DEF Look
  <2>4. ShowsPixel(k, s)
    BY <1>5 DEF Shows
  <2> HIDE DEF s
  <2>5. e = s.effect /\ k \in DOMAIN pages /\ pages[k] = s
    BY <2>4 DEF ShowsPixel
  <2>6. Value(fixture[k], 64, 8) = PixelId(PixelOf(fixture[k]))
    BY <2>1, OwnId
  <2> QED  BY <2>2, <2>3, <2>5, <2>6
<1>7. DOMAIN base = DOMAIN fixture
  BY DEF Look
<1>8. /\ n \in Nat \ {0} /\ DOMAIN packets = 1..n /\ DOMAIN keys = 1..n
      /\ keys = PixelKeys(source[17]) /\ \A i, j \in 1..n : keys[i] = keys[j] => i = j
  BY <1>2 DEF Sends, KeyList
<1>9. Len(packets) = n
  <2>1. packets = [i \in DOMAIN packets |-> packets[i]]
    BY DEF PixelPayloads
  <2>2. packets = [i \in 1..n |-> packets[i]]
    BY <1>8, <2>1
  <2> QED  BY <1>8, <2>2, SMTT(30)
<1>10. \A i \in 1..n : /\ packets[i].command = 33 /\ Page(packets[i]) = keys[i]
                       /\ Changed(source[keys[i]], Decoded(packets[i]))
                       /\ "on" \notin DOMAIN Decoded(packets[i])
  BY <1>2, <1>4, SentPages
<1>11. ASSUME NEW k \in Rebuilt("pixel", base)
       PROVE  \E i \in DOMAIN packets : Page(packets[i]) = k /\ Keeps(Decoded(packets[i]), base[k], asked)
  <2>1. PixelComplete(base) /\ k \in PixelPages(base[17])
    BY <1>11 DEF Rebuilt
  <2>2. 17 \in DOMAIN base /\ k \in DOMAIN base /\ PixelPages(base[17]) \subseteq DOMAIN base
    BY <2>1 DEF PixelComplete
  <2>3. base[17] = pages[17] /\ 17 \in DOMAIN pages /\ base[k] = pages[k]
    BY <1>6, <1>7, <2>2
  <2>4. PixelComplete(pages)
    <3>1. DOMAIN base \subseteq DOMAIN pages
      BY <1>6, <1>7
    <3> HIDE DEF base, pages
    <3> QED  BY <2>1, <2>2, <2>3, <3>1 DEF PixelComplete
  <2>5. source = pages
    BY <2>4 DEF SourceOf
  <2>6. keys = PixelKeys(base[17])
    BY <1>8, <2>3, <2>5
  <2>7. PICK i \in 1..n : keys[i] = k
    BY <1>8, <2>1, <2>6 DEF PixelPages, Range
  <2> DEFINE now == Decoded(packets[i])
  <2>8. Changed(base[k], now) /\ Page(packets[i]) = k /\ "on" \notin DOMAIN now
    BY <1>10, <2>3, <2>5, <2>7
  <2>9. "brightness" \in DOMAIN now => now["brightness"] = intensity
    <3>1. now = DecodePixel(packets[i])
      BY <1>10, Decoding
    <3> HIDE DEF now
    <3> QED  BY <1>3, <1>8, <3>1, SMTT(30) DEF Marked
  <2> HIDE DEF now, base
  <2>10. DOMAIN asked = {"brightness"} /\ asked["brightness"] = intensity
    OBVIOUS
  <2> HIDE DEF asked
  <2>11. Keeps(now, base[k], asked)
    BY <2>8, <2>9, <2>10 DEF Keeps, Changed
  <2> QED  BY <1>8, <2>8, <2>11 DEF now
<1> HIDE DEF base, asked, source
<1>12. Plan(packets, "pixel", base, asked)
  BY <1>8, <1>9, <1>10, <1>11 DEF Plan
<1>13. \A i \in DOMAIN packets : \A k \in DOMAIN fixture : Alike(fixture[k], packets[i])
  BY <1>3, <1>5, <1>6, <1>8, <1>10 DEF Alike, Marked
<1>14. Rebuilds(packets, "pixel", base, asked)
  BY <1>12, <1>13 DEF Rebuilds
<1> QED  BY <1>14 DEF base, asked

(* A pixel effect, the running one or another.                           *)
LEMMA ApplyPixelValues ==
  ASSUME IInv, Values, NEW e, NEW given \in Asked["intensity"] \cup {NotGiven},
         ApplyPixel(e, given)
  PROVE  Values'
<1> DEFINE same == shown.family = "pixel" /\ Given(shown, "effect", "none") = e
           intensity == IF given = NotGiven THEN KeptIntensity ELSE given
           default == PixelProgram(PixelDefaults(e, TRUE))
           current == IF same THEN shown ELSE default
           packets == PixelPayloads(current, intensity)
           want == PixelProgram([i \in DOMAIN packets |-> DecodePixel(packets[i])])
           asked == [brightness |-> intensity]
<1>1. e \in Pixels /\ Begins("pixel", e, packets, want, same, asked)
  BY Zenon DEF ApplyPixel
<1>2. intensity \in 0..1023
  <2>1. given # NotGiven => given \in 0..1000
    BY GivenIntensity
  <2>2. KeptIntensity \in 0..1023
    BY KeptBounds
  <2> QED  BY <2>1, <2>2
<1>3. same => "effect" \in DOMAIN shown /\ shown.effect = e /\ Good(e, shown.pages)
  <2>1. e # "none"
    BY <1>1 DEF Pixels, Chases
  <2>2. same => "effect" \in DOMAIN shown /\ shown.effect = e
    BY <2>1 DEF Given
  <2> QED  BY <2>2 DEF IInv, ShownGood
<1>4. current.effect = e /\ Good(e, current.pages)
  <2>1. CASE same
    BY <1>3, <2>1
  <2>2. CASE ~same
    BY <1>1, <2>2, DefaultClosed DEF Closed, DefaultPages
  <2> QED  BY <2>1, <2>2
<1> HIDE DEF current, intensity
<1>5. \E source, keys, n : Sends(packets, source, keys, n)
  BY <1>1, <1>4, Payloads
<1>6. AllInRange(packets)
  <2>1. \A i \in DOMAIN packets : packets[i].command = 33
    BY <1>5 DEF Sends
  <2> HIDE DEF packets
  <2>2. \A i \in DOMAIN packets : Arrives(packets[i]) = packets[i]
    BY <2>1 DEF Arrives
  <2>3. \A p : p.command = 33 => InRange(p)
    BY SMTT(30) DEF InRange
  <2> QED  BY <2>1, <2>2, <2>3 DEF AllInRange
<1>7. same /\ told = DOMAIN fixture => Rebuilds(packets, "pixel", Look(fixture), asked)
  <2> SUFFICES ASSUME same, told = DOMAIN fixture
               PROVE  Rebuilds(packets, "pixel", Look(fixture), asked)
    OBVIOUS
  <2>1. packets = PixelPayloads(shown, intensity)
    BY DEF current
  <2> HIDE DEF packets
  <2> QED  BY <1>1, <1>2, <1>3, <2>1, Rebuild33, ZenonT(40)
<1> HIDE DEF packets, want, asked, same
<1> QED  BY <1>1, <1>6, <1>7, BeginValues

-------------------------------------------------------------------------------
(* The steps after a call began, for the values.                         *)

(* What a call keeps while it sends, and while reports come.               *)
SameCall ==
  /\ call'.family = call.family /\ call'.packets = call.packets
  /\ call'.base = call.base /\ call'.asked = call.asked

(* A packet sent: the next one, or the wait for reports.                 *)
LEMMA CallAdvances ==
  ASSUME CallInRange, call.phase # "idle", NEW known \in BOOLEAN, call' = Advance(known)
  PROVE  /\ CallInRange' /\ SameCall
         /\ call'.sent = call.sent + 1
         /\ call'.clean => call.clean /\ known
         /\ call'.phase = IF call.sent + 1 = Len(call.packets) THEN "confirm" ELSE "send"
<1>1. /\ {"phase", "family", "packets", "sent", "clean", "base", "asked"} \subseteq DOMAIN call
      /\ AllInRange(call.packets)
  BY DEF CallInRange
<1>2. DOMAIN call' = DOMAIN call
  BY DEF Advance
<1>3. SameCall /\ call'.sent = call.sent + 1
  BY <1>1 DEF Advance, SameCall
<1>4. call'.clean = (call.clean /\ known)
  BY <1>1, Zenon DEF Advance
<1>5. call'.phase = IF call.sent + 1 = Len(call.packets) THEN "confirm" ELSE "send"
  BY <1>1 DEF Advance
<1>6. CallInRange'
  BY <1>1, <1>2, <1>3 DEF CallInRange, SameCall
<1> QED  BY <1>3, <1>4, <1>5, <1>6

(* A packet the fixture takes: it runs what the call has sent so far.    *)
LEMMA DeliverValues ==
  ASSUME IInv, Values, Deliver
  PROVE  Values'
<1> DEFINE next == call.sent + 1
           packet == call.packets[next]
           taken  == IF packet.command \in {1, 2} THEN [packet EXCEPT !.bits = @ \cup {8}]
                     ELSE packet
           Same(other) == other.command = packet.command /\ packet.command \in {7, 33, 34}
                          /\ Value(other, 64, 8) = Value(packet, 64, 8)
           goesOn == \E k \in DOMAIN fixture : Same(fixture[k])
           j == Page(taken)
<1>1. /\ fixture' = At(j, taken) ++ IF goesOn THEN fixture ELSE <<>>
      /\ call.phase = "send" /\ next \in DOMAIN call.packets /\ call' = Advance(TRUE)
      /\ shown' = shown /\ steady' = steady /\ preferredGm' = preferredGm
  BY DEF Deliver
<1>2. /\ CallInRange' /\ SameCall
      /\ call'.sent = next
      /\ call'.clean => call.clean
      /\ call'.phase = IF next = Len(call.packets) THEN "confirm" ELSE "send"
  BY <1>1, CallAdvances DEF Values
<1>3. InRange(taken)
  <2>1. AllInRange(call.packets)
    BY <1>1 DEF Values, CallInRange
  <2>2. taken = Arrives(packet)
    BY DEF Arrives
  <2> HIDE DEF taken
  <2> QED  BY <1>1, <2>1, <2>2 DEF AllInRange
<1>4. WellFormed(fixture)
  BY DEF IInv
<1> HIDE DEF taken, goesOn, j
<1>5. \A k \in DOMAIN fixture' : fixture'[k] = taken \/ (k \in DOMAIN fixture /\ fixture'[k] = fixture[k])
  BY <1>1 DEF ++, At
<1>6. FixtureInRange'
  BY <1>3, <1>5 DEF Values, FixtureInRange
<1>7. CallRebuilds'
  <2> SUFFICES ASSUME call'.clean PROVE CallRebuilds'
    BY DEF CallRebuilds
  <2> DEFINE packets == call.packets
  <2>1. /\ Rebuilds(packets, call.family, call.base, call.asked)
        /\ call.sent \in 0..Len(packets)
        /\ \A i \in 1..call.sent : /\ Page(packets[i]) \in DOMAIN fixture
                                   /\ fixture[Page(packets[i])] = packets[i]
    BY <1>1, <1>2 DEF Values, CallRebuilds
  <2>2. /\ Plan(packets, call.family, call.base, call.asked)
        /\ \A i \in DOMAIN packets : \A k \in DOMAIN fixture : Alike(fixture[k], packets[i])
    BY <2>1 DEF Rebuilds
  <2>3. /\ Len(packets) \in Nat /\ DOMAIN packets = 1..Len(packets)
        /\ \A i \in DOMAIN packets : packets[i].command \in {7, 33, 34}
        /\ \A i, l \in DOMAIN packets : Page(packets[i]) = Page(packets[l]) => i = l
    BY <2>2 DEF Plan
  <2>4. PICK k0 : k0 \in DOMAIN fixture
    BY <1>4 DEF WellFormed
  <2>5. packet.command \in {7, 33, 34}
    BY <1>1, <2>3
  <2>6. goesOn /\ taken = packet
    <3>1. Alike(fixture[k0], packet)
      BY <1>1, <2>2, <2>4
    <3>2. Same(fixture[k0])
      BY <2>5, <3>1 DEF Alike
    <3>3. goesOn
      BY <2>4, <3>2 DEF goesOn
    <3>4. taken = packet
      BY <2>5 DEF taken
    <3> QED  BY <3>3, <3>4
  <2>7. j = Page(packet) /\ packet = packets[next] /\ next \in DOMAIN packets /\ next = call.sent + 1
    BY <1>1, <2>6 DEF j
  <2>8. fixture' = [n \in DOMAIN fixture \cup {j} |-> IF n = j THEN packet ELSE fixture[n]]
    BY <1>1, <2>6 DEF ++, At
  <2> HIDE DEF packets, packet, next, Same
  <2>9. \A i \in DOMAIN packets : \A k \in DOMAIN fixture' : Alike(fixture'[k], packets[i])
    <3> SUFFICES ASSUME NEW i \in DOMAIN packets, NEW k \in DOMAIN fixture'
                 PROVE  Alike(fixture'[k], packets[i])
      OBVIOUS
    <3>1. CASE k = j
      <4>1. Alike(fixture[k0], packet) /\ Alike(fixture[k0], packets[i])
        BY <2>2, <2>4, <2>7
      <4>2. fixture'[k] = packet
        BY <2>8, <3>1
      <4> QED  BY <4>1, <4>2 DEF Alike
    <3>2. CASE k # j
      <4>1. k \in DOMAIN fixture /\ fixture'[k] = fixture[k]
        BY <2>8, <3>2
      <4> QED  BY <2>2, <4>1
    <3> QED  BY <3>1, <3>2
  <2>10. \A i \in 1..next : /\ Page(packets[i]) \in DOMAIN fixture'
                            /\ fixture'[Page(packets[i])] = packets[i]
    <3> SUFFICES ASSUME NEW i \in 1..next
                 PROVE  Page(packets[i]) \in DOMAIN fixture' /\ fixture'[Page(packets[i])] = packets[i]
      OBVIOUS
    <3>1. CASE i = next
      BY <2>7, <2>8, <3>1
    <3>2. CASE i # next
      <4>1. i \in 1..call.sent /\ i \in DOMAIN packets
        BY <2>1, <2>3, <2>7, <3>2
      <4>2. Page(packets[i]) # j
        BY <2>3, <2>7, <3>2, <4>1
      <4>3. Page(packets[i]) \in DOMAIN fixture /\ fixture[Page(packets[i])] = packets[i]
        BY <2>1, <4>1
      <4> QED  BY <2>8, <4>2, <4>3
    <3> QED  BY <3>1, <3>2
  <2>11. call'.packets = packets /\ call'.sent = next
    BY <1>2 DEF SameCall, packets
  <2>12. Plan(packets, call'.family, call'.base, call'.asked)
    BY <1>2, <2>2 DEF SameCall
  <2>13. Rebuilds(call.packets, call.family, call.base, call.asked)'
    BY <2>9, <2>11, <2>12 DEF Rebuilds
  <2>14. next \in 0..Len(packets)
    BY <2>3, <2>7
  <2>15. call'.phase = "confirm" => next = Len(packets)
    BY <1>2 DEF packets
  <2> QED  BY <2>10, <2>11, <2>13, <2>14, <2>15 DEF CallRebuilds
<1>8. SteadyHeard(steady, preferredGm)' /\ ShownInRange'
  BY <1>1 DEF Values, ShownInRange
<1> QED  BY <1>2, <1>6, <1>7, <1>8 DEF Values

(* A lost packet ends what is known of the fixture, and so does the panel; *)
(* a call that ends leaves no more to be known.                            *)
LEMMA QuietValues ==
  ASSUME Values, Lose \/ SendFails \/ Unconfirmed \/ Confirmed
  PROVE  Values'
<1>1. fixture' = fixture /\ steady' = steady /\ preferredGm' = preferredGm
  BY DEF Lose, SendFails, Unconfirmed, Confirmed
<1>2. FixtureInRange' /\ SteadyHeard(steady, preferredGm)'
  BY <1>1 DEF Values, FixtureInRange
<1>3. ShownInRange'
  <2>1. CASE shown' = shown
    BY <2>1 DEF Values, ShownInRange
  <2>2. CASE shown' # shown
    <3>1. Confirmed
      BY <2>2 DEF Lose, SendFails, Unconfirmed
    <3>2. \E pages, playback : shown' = [family |-> "pixel", effect |-> call.effect,
                                        pages |-> pages, playback |-> playback]
      BY <2>2, <3>1, Zenon DEF Confirmed
    <3>3. shown'.family = "pixel"
      BY <3>2
    <3> QED  BY <3>3 DEF ShownInRange
  <2> QED  BY <2>1, <2>2
<1>4. CallInRange' /\ CallRebuilds'
  <2>1. CASE Lose
    <3>1. call.phase = "send" /\ call' = Advance(FALSE)
      BY <2>1 DEF Lose
    <3>2. CallInRange' /\ ~call'.clean
      BY <3>1, CallAdvances DEF Values
    <3> QED  BY <3>2 DEF CallRebuilds
  <2>2. CASE SendFails \/ Unconfirmed \/ Confirmed
    <3>1. call'.phase = "idle"
      BY <2>2 DEF SendFails, Unconfirmed, Confirmed, Idle
    <3> QED  BY <3>1 DEF CallInRange, CallRebuilds
  <2> QED  BY <2>1, <2>2
<1> QED  BY <1>2, <1>3, <1>4 DEF Values

(* The panel turns to another program in range.                          *)
LEMMA PanelValues ==
  ASSUME Values, PanelTurns
  PROVE  Values'
<1>1. /\ fixture' \in Turns /\ shown' = shown /\ steady' = steady /\ preferredGm' = preferredGm
      /\ call' = IF call.phase = "idle" THEN call ELSE [call EXCEPT !.clean = FALSE]
  BY DEF PanelTurns
<1>2. FixtureInRange'
  <2>1. fixture' \in Programs
    BY <1>1, ProgramsAssumption
  <2> QED  BY <2>1, RangesAssumption DEF FixtureInRange
<1>3. SteadyHeard(steady, preferredGm)' /\ ShownInRange'
  BY <1>1 DEF Values, ShownInRange
<1>4. CallInRange' /\ CallRebuilds'
  <2>1. CASE call.phase = "idle"
    BY <1>1, <2>1 DEF CallInRange, CallRebuilds
  <2>2. CASE call.phase # "idle"
    <3>1. /\ {"phase", "family", "packets", "sent", "clean", "base", "asked"} \subseteq DOMAIN call
          /\ AllInRange(call.packets)
      BY <2>2 DEF Values, CallInRange
    <3>2. DOMAIN call' = DOMAIN call /\ call'.packets = call.packets /\ ~call'.clean
      BY <1>1, <2>2, <3>1
    <3> QED  BY <3>1, <3>2 DEF CallInRange, CallRebuilds
  <2> QED  BY <2>1, <2>2
<1> QED  BY <1>2, <1>3, <1>4 DEF Values

(* The two pages of an effect of command 34, merged.                       *)
LEMMA MergedNumbers ==
  ASSUME NEW s, Numeric2(s), NEW before, before = <<>> \/ Numeric2(before),
         NEW m, m = MergeEffect2(before, s)
  PROVE  Numeric2(m)
<1>1. CASE m = s
  BY <1>1
<1>2. CASE m # s
  <2> DEFINE power == IF s.package = 1 THEN s ELSE before
             named == (DOMAIN s \cup DOMAIN before) \ {"package"}
  <2>1. m = [n \in named |-> IF n \in {"state", "on"} THEN power[n]
                             ELSE Given(s, n, Given(before, n, 0))]
    BY <1>2 DEF MergeEffect2
  <2> HIDE DEF power
  <2>2. {"effect", "on"} \subseteq DOMAIN m
    BY <2>1 DEF Numeric2
  <2>3. ASSUME NEW n \in DOMAIN m \ {"effect", "state", "on"}
        PROVE  m[n] \in Int /\ (n \in {"intensity", "min_intensity"} => m[n] \in 0..1000)
    <3>1. m[n] = Given(s, n, Given(before, n, 0)) /\ n \in DOMAIN s \cup DOMAIN before
      BY <2>1
    <3>2. CASE n \in DOMAIN s
      <4>1. m[n] = s[n]
        BY <3>1, <3>2 DEF Given
      <4>2. s[n] \in Int /\ (n \in {"intensity", "min_intensity"} => s[n] \in 0..1000)
        BY <3>2 DEF Numeric2
      <4> QED  BY <4>1, <4>2
    <3>3. CASE n \notin DOMAIN s
      <4>1. n \in DOMAIN before
        BY <3>1, <3>3
      <4>2. Numeric2(before)
        BY <4>1
      <4> QED  BY <2>3, <3>1, <3>3, <4>1, <4>2 DEF Given, Numeric2
    <3> QED  BY <3>2, <3>3
  <2> QED  BY <2>2, <2>3 DEF Numeric2
<1> QED  BY <1>1, <1>2

(* A report of a page.                                                   *)
LEMMA ReportValues ==
  ASSUME IInv, Values, NEW k, Report(k)
  PROVE  Values'
<1> DEFINE p == fixture[k]
           s == Decoded(p)
           command == p.command
<1>1. /\ k \in DOMAIN fixture /\ fixture' = fixture /\ Show(s, command)
      /\ call' = IF call.phase = "idle" THEN call
                 ELSE [call EXCEPT !.news = call.phase = "confirm",
                         !.fresh = IF command # 33 THEN {}
                                   ELSE IF /\ command = 33 /\ shown.family = "pixel"
                                           /\ Given(shown, "effect", "none") = s.effect
                                   THEN @ \cup {k} ELSE {k}]
  BY DEF Report
<1>2. InRange(p) /\ command \in Commands
  BY <1>1 DEF Values, FixtureInRange, IInv, WellFormed
<1>3. FixtureInRange'
  BY <1>1 DEF Values, FixtureInRange
<1>4. call.phase # "idle" =>
        /\ {"phase", "family", "packets", "sent", "clean", "base", "asked"} \subseteq DOMAIN call
        /\ AllInRange(call.packets)
  BY DEF Values, CallInRange
<1>5. /\ DOMAIN call' = DOMAIN call /\ call'.phase = call.phase
      /\ call.phase # "idle" => SameCall /\ call'.sent = call.sent /\ call'.clean = call.clean
  BY <1>1, <1>4 DEF SameCall
<1>6. CallInRange'
  BY <1>4, <1>5 DEF CallInRange, SameCall
<1>7. CallRebuilds'
  <2> SUFFICES ASSUME call'.phase # "idle", call'.clean PROVE CallRebuilds'
    BY DEF CallRebuilds
  <2>1. /\ Rebuilds(call.packets, call.family, call.base, call.asked)
        /\ call.sent \in 0..Len(call.packets)
        /\ call.phase = "confirm" => call.sent = Len(call.packets)
        /\ \A i \in 1..call.sent : /\ Page(call.packets[i]) \in DOMAIN fixture
                                  /\ fixture[Page(call.packets[i])] = call.packets[i]
    BY <1>5 DEF Values, CallRebuilds
  <2>2. /\ Plan(call.packets, call.family, call.base, call.asked)
        /\ \A i \in DOMAIN call.packets : \A n \in DOMAIN fixture : Alike(fixture[n], call.packets[i])
    BY <2>1 DEF Rebuilds
  <2>3. Rebuilds(call.packets, call.family, call.base, call.asked)'
    BY <1>1, <1>5, <2>2 DEF Rebuilds, SameCall
  <2> QED  BY <1>1, <1>5, <2>1, <2>3 DEF CallRebuilds, SameCall
<1> HIDE DEF p, command
<1>8. SteadyHeard(steady, preferredGm)'
  <2>1. SteadyHeard(steady, preferredGm)
    BY DEF Values
  <2>2. CASE command \notin {1, 2}
    <3>1. steady' = steady /\ preferredGm' = preferredGm
      BY <1>1, <2>2 DEF Show
    <3> QED  BY <2>1, <3>1
  <2>3. CASE command \in {1, 2}
    <3>1. s = DecodeStatus(p)
      BY <2>3 DEF Decoded, command
    <3> DEFINE gm == IF p.command = 2 THEN s.gm ELSE preferredGm
    <3>2. steady' = s /\ preferredGm' = gm
      BY <1>1, <2>3 DEF Show, command
    <3>3. preferredGm \in 0..200
      BY <2>1 DEF SteadyHeard
    <3> HIDE DEF s
    <3>4. SteadyHeard(s, gm)
      BY <1>2, <2>3, <3>1, <3>3, HeardSteady DEF command
    <3> HIDE DEF gm
    <3> QED  BY <3>2, <3>4
  <2> QED  BY <2>2, <2>3
<1>9. ShownInRange'
  <2>1. CASE command \in {1, 2}
    <3>1. shown' = NoEffect
      BY <1>1, <2>1 DEF Show
    <3> QED  BY <3>1 DEF ShownInRange, NoEffect
  <2>2. CASE command = 7
    <3>1. s = DecodeEffect(p) /\ Ranged(p)
      BY <1>2, <2>2, InRange7 DEF Decoded, command
    <3> HIDE DEF s
    <3>2. shown' = [family |-> "effect", state |-> s]
      BY <1>1, <2>2 DEF Show
    <3> QED  BY <3>1, <3>2 DEF ShownInRange
  <2>3. CASE command = 34
    <3> DEFINE before == IF shown.family = "effect2" THEN shown.state ELSE <<>>
               m == MergeEffect2(before, s)
    <3>1. shown' = [family |-> "effect2", state |-> m]
      BY <1>1, <2>3 DEF Show
    <3>2. s = DecodeEffect2(p)
      BY <2>3, Decoding DEF command
    <3> HIDE DEF s
    <3>3. Numeric2(s)
      BY <1>2, <2>3, <3>2, Numbers2 DEF command
    <3>4. before = <<>> \/ Numeric2(before)
      BY DEF Values, ShownInRange
    <3> HIDE DEF before
    <3>5. Numeric2(m)
      BY <3>3, <3>4, MergedNumbers
    <3> HIDE DEF m
    <3> QED  BY <3>1, <3>5 DEF ShownInRange
  <2>4. CASE command = 33
    <3>1. shown' = MergePixel(shown, s)
      BY <1>1, <2>4 DEF Show
    <3>2. shown'.family = "pixel"
      BY <3>1 DEF MergePixel
    <3> QED  BY <3>2 DEF ShownInRange
  <2> QED  BY <1>2, <2>1, <2>2, <2>3, <2>4 DEF Commands
<1> QED  BY <1>3, <1>6, <1>7, <1>8, <1>9 DEF Values

(* The values at the start.                                              *)
LEMMA BeginsInRange == Init => Values
<1> SUFFICES ASSUME Init PROVE Values
  OBVIOUS
<1>1. FixtureInRange
  BY RangesAssumption DEF Init, FixtureInRange
<1>2. SteadyHeard(steady, preferredGm)
  <2>1. steady = [hsi |-> FALSE, on |-> 0, intensity |-> 0] /\ preferredGm = 100
    BY DEF Init, NoLook
  <2> QED  BY <2>1 DEF SteadyHeard
<1>3. ShownInRange
  BY DEF Init, NoEffect, ShownInRange
<1>4. CallInRange /\ CallRebuilds
  BY DEF Init, Idle, CallInRange, CallRebuilds
<1> QED  BY <1>1, <1>2, <1>3, <1>4 DEF Values

(* A step keeps the values in range, and the call on its plan.           *)
LEMMA StepInRange == IInv /\ Values /\ [Next]_vars => Values'
<1> SUFFICES ASSUME IInv, Values, [Next]_vars PROVE Values'
  OBVIOUS
<1>1. CASE Next
  <2>1. CASE \E field \in DOMAIN Asked \ {"intensity"} : SetEffect(field) \/ SetEffect2(field)
    BY <2>1, SetEffectValues, SetEffect2Values
  <2>2. CASE \E given \in Asked["intensity"] \cup {NotGiven} :
               \/ \E e \in Effects : ApplyEffect(e, given) \/ ApplyEffect2(e, given)
                                       \/ ApplyPixel(e, given)
               \/ ExitEffect(given)
    BY <2>2, ApplyEffectValues, ApplyEffect2Values, ApplyPixelValues, ExitEffectValues
  <2>3. CASE Deliver
    BY <2>3, DeliverValues
  <2>4. CASE Lose \/ SendFails \/ Unconfirmed \/ Confirmed
    BY <2>4, QuietValues
  <2>5. CASE \E k \in DOMAIN fixture : Report(k)
    BY <2>5, ReportValues
  <2>6. CASE PanelTurns
    BY <2>6, PanelValues
  <2> QED  BY <1>1, <2>1, <2>2, <2>3, <2>4, <2>5, <2>6 DEF Next
<1>2. CASE UNCHANGED vars
  <2>1. /\ fixture' = fixture /\ steady' = steady /\ preferredGm' = preferredGm
        /\ shown' = shown /\ call' = call
    BY <1>2 DEF vars
  <2> QED  BY <2>1 DEF Values, FixtureInRange, ShownInRange, CallInRange, CallRebuilds, Rebuilds
<1> QED  BY <1>1, <1>2

(* A call whose packets were all taken has rebuilt every page as asked.  *)
LEMMA RestOfClean == Values => KeepsTheRest
<1> SUFFICES ASSUME Values, call.phase = "confirm", call.clean,
                    NEW k \in Rebuilt(call.family, call.base)
             PROVE  k \in DOMAIN fixture /\ Keeps(Decoded(fixture[k]), call.base[k], call.asked)
  BY DEF KeepsTheRest
<1>1. /\ Rebuilds(call.packets, call.family, call.base, call.asked)
      /\ call.sent = Len(call.packets)
      /\ \A i \in 1..call.sent : /\ Page(call.packets[i]) \in DOMAIN fixture
                                /\ fixture[Page(call.packets[i])] = call.packets[i]
  BY DEF Values, CallRebuilds
<1>2. /\ DOMAIN call.packets = 1..Len(call.packets)
      /\ \E i \in DOMAIN call.packets :
           /\ Page(call.packets[i]) = k
           /\ Keeps(Decoded(call.packets[i]), call.base[k], call.asked)
  BY <1>1 DEF Rebuilds, Plan
<1> QED  BY <1>1, <1>2

-------------------------------------------------------------------------------
(* The theorems.                                                         *)

(* Whatever the fixture runs, once it has reported every page of it the    *)
(* app shows just that, after any calls, panel turns, lost packets and     *)
(* reports (device.py:136, 3190-3285, 1376-1387).                          *)
THEOREM ReportedIsShown == Spec => []ShownIsReported
<1>1. Init => IInv
  BY Begin
<1>2. IInv /\ [Next]_vars => IInv'
  BY Step
<1>3. IInv => ShownIsReported
  BY Agrees
<1> QED  BY <1>1, <1>2, <1>3, PTL DEF Spec

(* A call of a pixel effect sends a whole program, whatever the app had    *)
(* heard of the one that runs and whatever was lost: all pages its control *)
(* page calls for, that one last and alone in starting playback, and all   *)
(* as shown or all the app's defaults (device.py:225-325, 276).            *)
THEOREM ProgramSentWhole == Spec => []PixelProgramWhole
<1>1. Init => IInv
  BY Begin
<1>2. IInv /\ [Next]_vars => IInv'
  BY Step
<1>3. IInv => PixelProgramWhole
  BY SendsWhole
<1> QED  BY <1>1, <1>2, <1>3, PTL DEF Spec

(* A call that rebuilds the running effect keeps what it was not asked to  *)
(* change: where the app has heard all the fixture runs, and neither a     *)
(* packet is lost nor the panel touched until the last one is taken, the   *)
(* fixture runs the effect it ran, with every parameter as it was and the  *)
(* asked ones as asked (device.py:1542-1720, telink.py:441-527).           *)
THEOREM RestKept == Spec => []KeepsTheRest
<1>1. Init => IInv /\ Values
  BY Begin, BeginsInRange
<1>2. (IInv /\ Values) /\ [Next]_vars => (IInv /\ Values)'
  BY Step, StepInRange
<1>3. IInv /\ Values => KeepsTheRest
  BY RestOfClean
<1> QED  BY <1>1, <1>2, <1>3, PTL DEF Spec

===============================================================================
