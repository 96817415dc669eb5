--------------------------- MODULE DiscoveryProofs ---------------------------
(***************************************************************************)
(* Two theorems, for every size of a byte and every length of a payload.   *)
(* A request is read as what it says (RequestsReadRight), and the app      *)
(* reads from a reply the device that discover.json gives (OneDevice).     *)
(*                                                                         *)
(* A TLV that appendHDHRTLV writes is the one that is read (TlvReadBack).  *)
(* Tags is a recursive function: that it exists, and what it gives, takes  *)
(* induction.  The library's induction theorems have an operator for a     *)
(* parameter, which no prover here can instantiate; SetInduction says the  *)
(* same of a set, and follows from the pigeonhole principle.  Tags reads a *)
(* payload from the left, and TagsSay says, by induction from its end,     *)
(* that what is read from a place on is what the row of TLVs from there    *)
(* says.  That row, as Pieces has it, is a set of places: Behind,          *)
(* RowSplits and RowJoins take its first TLV off and put it on.            *)
(*                                                                         *)
(* TagsAppended adds a TLV at the other end, and with it the reply's six   *)
(* are followed one by one (ReplyRead).                                    *)
(***************************************************************************)
EXTENDS Discovery, TLAPS, FiniteSetTheorems

\* The two bytes of a length say it.
LEMMA TwoBytes ==
    ASSUME NEW n \in Nat, n < Half * (2 * Half)
    PROVE  /\ (n \div Half) % (2 * Half) = n \div Half
           /\ n \div Half \in Nat
           /\ n = Half * (n \div Half) + (n % Half)
           /\ n % Half \in 0..(Half - 1)
           /\ ((n % Half) + Half) % Half = n % Half
<1>1. n \div Half \in Nat /\ n % Half \in 0..(Half - 1)
  BY DiscoveryAssumption
<1>2. n = Half * (n \div Half) + (n % Half)
  BY DiscoveryAssumption
<1>3. n \div Half < 2 * Half
  BY <1>1, <1>2, DiscoveryAssumption
<1>4. ASSUME NEW m \in 0..(2 * Half - 1) PROVE m % (2 * Half) = m
  BY DiscoveryAssumption
<1>5. (n \div Half) % (2 * Half) = n \div Half
  BY <1>1, <1>3, <1>4, DiscoveryAssumption
<1>6. ASSUME NEW m \in 0..(Half - 1) PROVE (m + Half) % Half = m
  BY DiscoveryAssumption
<1> QED BY <1>1, <1>2, <1>5, <1>6

\* What is where when bytes h, of a tag and a length, and v are appended.
LEMMA Appended ==
    ASSUME NEW p \in Seq(Byte), NEW h \in Seq(Nat), NEW v \in Seq(Byte)
    PROVE  \A q : q = p \o h \o v =>
              /\ Len(q) = Len(p) + Len(h) + Len(v)
              /\ \A i \in 1..Len(h) : q[Len(p) + i] = h[i]
              /\ SubSeq(q, 1, Len(p)) = p
              /\ SubSeq(q, Len(p) + Len(h) + 1, Len(q)) = v
<1> TAKE q
<1> HAVE q = p \o h \o v
<1>1. p \in Seq(Nat) /\ v \in Seq(Nat)
  BY DiscoveryAssumption DEF Byte
<1>2. q \in Seq(Nat) /\ Len(q) = Len(p) + Len(h) + Len(v)
  BY <1>1
<1>3. /\ \A i \in 1..Len(p) : q[i] = p[i]
      /\ \A i \in 1..Len(h) : q[Len(p) + i] = h[i]
      /\ \A i \in 1..Len(v) : q[Len(p) + Len(h) + i] = v[i]
  BY <1>1
<1>4. SubSeq(q, 1, Len(p)) = p
  BY <1>1, <1>2, <1>3
<1>5. SubSeq(q, Len(p) + Len(h) + 1, Len(q)) = v
  BY <1>1, <1>2, <1>3
<1> QED BY <1>2, <1>3, <1>4, <1>5

\* A TLV that is not cut off, by its bytes.
LEMMA ReadShort ==
    ASSUME NEW q \in Seq(Nat), NEW i \in 1..Len(q), NEW n, n = q[i + 1],
           i + 1 <= Len(q), n < Half
    PROVE  Tlv(q, i) = [tag |-> q[i], start |-> i + 2, end |-> i + 2 + n]
<1>1. n \in 0..(Half - 1)
  BY DiscoveryAssumption
<1>2. ASSUME NEW m \in 0..(Half - 1) PROVE m % Half = m
  BY DiscoveryAssumption
<1>3. n % Half = n /\ ~(n >= Half) /\ n + 0 = n
  BY <1>1, <1>2, DiscoveryAssumption
<1>4. ~(i + 1 > Len(q))
  OBVIOUS
<1> QED BY <1>3, <1>4 DEF Tlv

LEMMA ReadLong ==
    ASSUME NEW q \in Seq(Nat), NEW i \in 1..Len(q),
           i + 2 <= Len(q), q[i + 1] >= Half
    PROVE  Tlv(q, i) =
              [tag |-> q[i], start |-> i + 3,
               end |-> i + 3 + ((q[i + 1] % Half) + Half * q[i + 2])]
<1>1. ~(i + 1 > Len(q)) /\ ~(i + 2 > Len(q))
  OBVIOUS
<1> QED BY <1>1 DEF Tlv

\* What AppendTlv appends to p is the TLV that Tlv finds at i.
ReadBack(p, tag, v, q, i) ==
    /\ Tlv(q, i).tag = tag
    /\ Tlv(q, i).end = Len(q) + 1
    /\ SubSeq(q, Tlv(q, i).start, Tlv(q, i).end - 1) = v
    /\ SubSeq(q, 1, Len(p)) = p

LEMMA TlvRead ==
    ASSUME NEW p \in Seq(Byte), NEW tag \in Byte, NEW v \in Seq(Byte),
           Len(v) < Half * (2 * Half)
    PROVE  ReadBack(p, tag, v, AppendTlv(p, tag, v), Len(p) + 1)
<1> SUFFICES ASSUME NEW q, q = AppendTlv(p, tag, v),
                    NEW i, i = Len(p) + 1, NEW n, n = Len(v)
             PROVE  /\ Tlv(q, i).tag = tag
                    /\ Tlv(q, i).end = Len(q) + 1
                    /\ SubSeq(q, Tlv(q, i).start, Tlv(q, i).end - 1) = v
                    /\ SubSeq(q, 1, Len(p)) = p
  BY DEF ReadBack
<1>1. /\ Half \in Nat /\ Half > 1 /\ i \in Nat /\ tag \in Nat
      /\ n \in Nat /\ n < Half * (2 * Half)
  BY DiscoveryAssumption DEF Byte
<1>2. CASE n < Half
  <2>1. PICK h : h = <<tag, n>>
    OBVIOUS
  <2>2. h \in Seq(Nat) /\ Len(h) = 2 /\ h[1] = tag /\ h[2] = n
    BY <1>1, <2>1
  <2>3. q = p \o h \o v
    BY <1>2, <2>1 DEF AppendTlv
  <2>4. /\ q \in Seq(Nat)
        /\ Len(q) = Len(p) + Len(h) + Len(v)
        /\ \A k \in 1..Len(h) : q[Len(p) + k] = h[k]
        /\ SubSeq(q, 1, Len(p)) = p
        /\ SubSeq(q, Len(p) + Len(h) + 1, Len(q)) = v
    <3>1. h \in Seq(Nat)
      BY <2>2
    <3>2. Len(q) = Len(p) + Len(h) + Len(v)
      BY <2>3, <3>1, Appended
    <3>6. q \in Seq(Nat)
      <4>1. p \in Seq(Nat) /\ v \in Seq(Nat)
        BY <1>1 DEF Byte
      <4> QED BY <2>3, <3>1, <4>1
    <3>3. \A k \in 1..Len(h) : q[Len(p) + k] = h[k]
      BY <2>3, <3>1, Appended
    <3>4. SubSeq(q, 1, Len(p)) = p
      BY <2>3, <3>1, Appended
    <3>5. SubSeq(q, Len(p) + Len(h) + 1, Len(q)) = v
      BY <2>3, <3>1, Appended
    <3> QED BY <3>2, <3>3, <3>4, <3>5, <3>6
  <2>5. Len(q) = Len(p) + 2 + n /\ q[Len(p) + 1] = tag /\ q[Len(p) + 2] = n
    BY <2>2, <2>4
  <2>6. /\ i \in 1..Len(q) /\ i + 1 <= Len(q) /\ q[i] = tag /\ n = q[i + 1]
        /\ i + 2 = Len(p) + Len(h) + 1
        /\ i + 2 + n = Len(q) + 1 /\ (Len(q) + 1) - 1 = Len(q)
    BY <1>1, <2>2, <2>5
  <2>7. Tlv(q, i) = [tag |-> tag, start |-> i + 2, end |-> i + 2 + n]
    BY <1>2, <2>4, <2>6, ReadShort
  <2>8. /\ Tlv(q, i).tag = tag /\ Tlv(q, i).start = Len(p) + Len(h) + 1
        /\ Tlv(q, i).end = Len(q) + 1
    BY <2>6, <2>7
  <2> QED BY <2>4, <2>6, <2>8, Zenon
<1>3. CASE ~(n < Half)
  <2>1. PICK lo, hi, h : /\ lo = (n % Half) + Half /\ hi = n \div Half
                         /\ h = <<tag, lo, hi>>
    OBVIOUS
  <2>2. /\ hi % (2 * Half) = hi /\ hi \in Nat
        /\ lo \in Nat /\ lo >= Half /\ n = (lo % Half) + Half * hi
    <3>0. /\ (n \div Half) % (2 * Half) = n \div Half /\ n \div Half \in Nat
          /\ n = Half * (n \div Half) + (n % Half)
          /\ n % Half \in 0..(Half - 1)
          /\ ((n % Half) + Half) % Half = n % Half
      BY <1>1, TwoBytes, Zenon
    <3>1. /\ hi % (2 * Half) = hi /\ hi \in Nat
          /\ n = Half * hi + (n % Half)
          /\ n % Half \in 0..(Half - 1) /\ lo % Half = n % Half
      BY <2>1, <3>0, Zenon
    <3>2. PICK r \in 0..(Half - 1) : r = n % Half
      BY <3>0
    <3>3. lo \in Nat /\ lo >= Half
      BY <1>1, <2>1, <3>2
    <3>4. Half * hi \in Nat
      BY <1>1, <3>1
    <3> QED BY <3>1, <3>2, <3>3, <3>4
  <2>3. h \in Seq(Nat) /\ Len(h) = 3 /\ h[1] = tag /\ h[2] = lo /\ h[3] = hi
    BY <1>1, <2>1, <2>2
  <2>4. q = p \o h \o v
    BY <1>3, <2>1, <2>2 DEF AppendTlv
  <2>5. /\ q \in Seq(Nat)
        /\ Len(q) = Len(p) + Len(h) + Len(v)
        /\ \A k \in 1..Len(h) : q[Len(p) + k] = h[k]
        /\ SubSeq(q, 1, Len(p)) = p
        /\ SubSeq(q, Len(p) + Len(h) + 1, Len(q)) = v
    <3>1. h \in Seq(Nat)
      BY <2>3
    <3>2. Len(q) = Len(p) + Len(h) + Len(v)
      BY <2>4, <3>1, Appended
    <3>6. q \in Seq(Nat)
      <4>1. p \in Seq(Nat) /\ v \in Seq(Nat)
        BY <1>1 DEF Byte
      <4> QED BY <2>4, <3>1, <4>1
    <3>3. \A k \in 1..Len(h) : q[Len(p) + k] = h[k]
      BY <2>4, <3>1, Appended
    <3>4. SubSeq(q, 1, Len(p)) = p
      BY <2>4, <3>1, Appended
    <3>5. SubSeq(q, Len(p) + Len(h) + 1, Len(q)) = v
      BY <2>4, <3>1, Appended
    <3> QED BY <3>2, <3>3, <3>4, <3>5, <3>6
  <2>6. /\ Len(q) = Len(p) + 3 + n
        /\ q[Len(p) + 1] = tag /\ q[Len(p) + 2] = lo /\ q[Len(p) + 3] = hi
    BY <2>3, <2>5
  <2>7. /\ i \in 1..Len(q) /\ i + 2 <= Len(q)
        /\ q[i] = tag /\ q[i + 1] = lo /\ q[i + 2] = hi
        /\ i + 3 = Len(p) + Len(h) + 1
        /\ i + 3 + n = Len(q) + 1 /\ (Len(q) + 1) - 1 = Len(q)
    BY <1>1, <2>3, <2>6
  <2>8. Tlv(q, i) = [tag |-> tag, start |-> i + 3, end |-> i + 3 + n]
    BY <2>2, <2>5, <2>7, ReadLong
  <2>9. /\ Tlv(q, i).tag = tag /\ Tlv(q, i).start = Len(p) + Len(h) + 1
        /\ Tlv(q, i).end = Len(q) + 1
    BY <2>7, <2>8
  <2> QED BY <2>5, <2>7, <2>9, Zenon
<1> QED BY <1>2, <1>3

(***************************************************************************)
(* After the bytes p, a TLV of value v is read back as it was written:     *)
(* tag and value, to its last byte, and p is left as it was                *)
(* (hdhr_discovery.go:60-80, 141-149).                                     *)
(***************************************************************************)
THEOREM TlvReadBack ==
    ASSUME NEW p \in Seq(Byte), NEW tag \in Byte, NEW v \in Seq(Byte),
           Len(v) < Half * (2 * Half)
    PROVE  LET q == AppendTlv(p, tag, v)
               t == Tlv(q, Len(p) + 1)
           IN  /\ t.tag = tag
               /\ t.end = Len(q) + 1
               /\ SubSeq(q, t.start, t.end - 1) = v
               /\ SubSeq(q, 1, Len(p)) = p
<1>1. ReadBack(p, tag, v, AppendTlv(p, tag, v), Len(p) + 1)
  BY TlvRead, Zenon
<1> QED BY <1>1 DEF ReadBack

-----------------------------------------------------------------------------
(* Induction, and what follows from it. *)

\* Were m not in T, x |-> x + 1 would map the numbers of T below m into the
\* fewer of them that are not 0.
LEMMA SetInduction ==
    ASSUME NEW n \in Nat, NEW T \in SUBSET (0..n), 0 \in T,
           \A x \in T : x # n => x + 1 \in T
    PROVE  T = 0..n
<1> SUFFICES ASSUME NEW m \in 0..n, m \notin T PROVE FALSE
  OBVIOUS
<1> DEFINE S == {x \in T : x < m}
           f == [x \in S |-> x + 1]
<1>1. \A x \in T : x \in Nat /\ x <= n
  OBVIOUS
<1>2. S \in SUBSET Nat /\ \A x \in S : x <= n
  BY <1>1
<1>3. 0 \in S
  OBVIOUS
<1>4. f \in [S -> S \ {0}]
  <2> SUFFICES ASSUME NEW x \in S PROVE x + 1 \in S \ {0}
    OBVIOUS
  <2>1. x + 1 \in T /\ x + 1 <= m
    BY <1>1
  <2> QED BY <1>1, <2>1
<1>5. \A x, y \in S : x # y => f[x] # f[y]
  BY <1>1
<1> HIDE DEF S, f
<1>6. IsFiniteSet(S) /\ Cardinality(S) \in Nat
  BY <1>2, FS_BoundedSetOfNaturals, FS_CardinalityType
<1>7. /\ IsFiniteSet(S \ {0})
      /\ Cardinality(S \ {0}) = Cardinality(S) - 1
  BY <1>3, <1>6, FS_RemoveElement
<1>8. Cardinality(S \ {0}) < Cardinality(S)
  BY <1>6, <1>7
<1> QED BY <1>4, <1>5, <1>6, <1>7, <1>8, FS_PigeonHole

LEMMA MaxExists ==
    ASSUME NEW n \in Nat, NEW S \in SUBSET (0..n), S # {}
    PROVE  \E x \in S : \A y \in S : y <= x
<1> DEFINE T == {m \in 0..n : \A U \in SUBSET (0..m) :
                    U # {} => \E x \in U : \A y \in U : y <= x}
<1>1. 0 \in T
  <2> SUFFICES ASSUME NEW U \in SUBSET (0..0), U # {}
               PROVE  \E x \in U : \A y \in U : y <= x
    OBVIOUS
  <2>1. \A y \in U : y = 0
    OBVIOUS
  <2>2. PICK x \in U : TRUE
    OBVIOUS
  <2>3. x = 0 /\ \A y \in U : y <= x
    BY <2>1
  <2> QED BY <2>3
<1>2. ASSUME NEW m \in T, m # n PROVE m + 1 \in T
  <2>0. /\ m \in 0..n /\ m + 1 \in 0..n
        /\ \A U \in SUBSET (0..m) : U # {} => \E x \in U : \A y \in U : y <= x
    BY <1>2
  <2> SUFFICES ASSUME NEW U \in SUBSET (0..(m + 1)), U # {}
               PROVE  \E x \in U : \A y \in U : y <= x
    BY <2>0
  <2>1. CASE m + 1 \in U
    <3>1. \A y \in U : y <= m + 1
      OBVIOUS
    <3> QED BY <2>1, <3>1
  <2>2. CASE m + 1 \notin U
    <3>1. U \in SUBSET (0..m)
      <4>1. \A y \in U : y \in 0..(m + 1) /\ y # m + 1
        BY <2>2
      <4>2. \A y \in U : y \in 0..m
        BY <2>0, <4>1
      <4> QED BY <4>2
    <3> QED BY <2>0, <3>1
  <2> QED BY <2>1, <2>2
<1>3. T \in SUBSET (0..n)
  OBVIOUS
<1> HIDE DEF T
<1>4. n \in T
  BY <1>1, <1>2, <1>3, SetInduction
<1> QED BY <1>4 DEF T

LEMMA MinExists ==
    ASSUME NEW n \in Nat, NEW S \in SUBSET (0..n), S # {}
    PROVE  \E x \in S : \A y \in S : x <= y
<1> DEFINE U == {n - x : x \in S}
<1>1. U \in SUBSET (0..n) /\ U # {}
  <2>1. \A x \in S : x \in 0..n /\ n - x \in 0..n
    OBVIOUS
  <2> QED BY <2>1
<1>2. PICK u \in U : \A y \in U : y <= u
  <2> HIDE DEF U
  <2> QED BY <1>1, MaxExists
<1>3. PICK x \in S : u = n - x
  OBVIOUS
<1>4. ASSUME NEW y \in S PROVE x <= y
  <2>1. n - y <= u
    BY <1>2
  <2> QED BY <1>3, <2>1
<1> QED BY <1>4

-----------------------------------------------------------------------------
(* The reading of a payload: Tags takes a function that reads the rest. *)

LEMMA ByteIsNat == \A b \in Byte : b \in Nat /\ b < 2 * Half
BY DiscoveryAssumption DEF Byte

LEMMA ProductIsNat == \A x, y \in Nat : x * y \in Nat
OBVIOUS

LEMMA HalfMod ==
    ASSUME NEW k \in Byte
    PROVE  /\ k % Half \in Nat
           /\ k < Half => k % Half = k
           /\ k >= Half => k % Half = k - Half /\ k - Half \in Nat
<1>1. k \in Nat /\ k < 2 * Half /\ Half \in Nat /\ Half > 0
  BY ByteIsNat, DiscoveryAssumption
<1>2. ASSUME NEW j \in 0..(Half - 1) PROVE j % Half = j /\ (j + Half) % Half = j
  BY <1>1
<1>3. CASE k < Half
  BY <1>1, <1>2, <1>3
<1>4. CASE k >= Half
  <2>1. k - Half \in 0..(Half - 1) /\ (k - Half) + Half = k
    BY <1>1, <1>4
  <2>2. k % Half = k - Half
    BY <1>2, <2>1
  <2> QED BY <1>1, <1>4, <2>1, <2>2
<1> QED BY <1>1, <1>3, <1>4

\* The three things that Tlv may find at i.
LEMMA TlvCases ==
    ASSUME NEW p \in Seq(Byte), NEW i \in 1..Len(p)
    PROVE  \/ /\ i + 1 > Len(p) \/ (p[i + 1] >= Half /\ i + 2 > Len(p))
              /\ Tlv(p, i).end = Len(p) + 2
           \/ /\ i + 1 <= Len(p) /\ p[i + 1] < Half
              /\ Tlv(p, i) = [tag |-> p[i], start |-> i + 2,
                              end |-> i + 2 + p[i + 1]]
           \/ /\ i + 2 <= Len(p) /\ p[i + 1] >= Half
              /\ Tlv(p, i) = [tag |-> p[i], start |-> i + 3,
                              end |-> i + 3 + ((p[i + 1] - Half)
                                              + Half * p[i + 2])]
<1>1. CASE i + 1 > Len(p) \/ (p[i + 1] >= Half /\ i + 2 > Len(p))
  BY <1>1 DEF Tlv
<1>2. CASE i + 1 <= Len(p) /\ p[i + 1] < Half
  <2>1. p[i + 1] \in Byte /\ p[i + 1] \in Nat /\ Half \in Nat
    BY <1>2, ByteIsNat, DiscoveryAssumption
  <2>2. p[i + 1] % Half = p[i + 1] /\ p[i + 1] + 0 = p[i + 1]
        /\ ~(p[i + 1] >= Half)
    BY <1>2, <2>1, HalfMod
  <2>3. ~(i + 1 > Len(p))
    BY <1>2
  <2> QED BY <1>2, <2>2, <2>3 DEF Tlv
<1>3. CASE i + 2 <= Len(p) /\ p[i + 1] >= Half
  <2>1. p[i + 1] \in Byte
    BY <1>3
  <2>2. p[i + 1] % Half = p[i + 1] - Half
    BY <1>3, <2>1, HalfMod
  <2>3. ~(i + 1 > Len(p)) /\ ~(i + 2 > Len(p))
    BY <1>3
  <2> QED BY <1>3, <2>2, <2>3 DEF Tlv
<1>4. i + 1 <= Len(p) => p[i + 1] \in Nat /\ Half \in Nat
  BY ByteIsNat, DiscoveryAssumption
<1> QED BY <1>1, <1>2, <1>3, <1>4

LEMMA TlvEnd ==
    ASSUME NEW p \in Seq(Byte), NEW i \in 1..Len(p)
    PROVE  Tlv(p, i).end \in Nat /\ Tlv(p, i).end > i
<1>1. CASE Tlv(p, i).end = Len(p) + 2
  BY <1>1
<1>2. CASE i + 1 <= Len(p) /\ Tlv(p, i).end = i + 2 + p[i + 1]
  <2>1. p[i + 1] \in Nat
    BY <1>2, ByteIsNat
  <2> QED BY <1>2, <2>1
<1>3. CASE /\ i + 2 <= Len(p) /\ p[i + 1] >= Half
           /\ Tlv(p, i).end = i + 3 + ((p[i + 1] - Half) + Half * p[i + 2])
  <2>1. p[i + 1] \in Byte /\ p[i + 2] \in Byte
    BY <1>3
  <2>2. p[i + 1] - Half \in Nat
    BY <1>3, <2>1, HalfMod
  <2>3. Half * p[i + 2] \in Nat
    BY <2>1, ByteIsNat, ProductIsNat, DiscoveryAssumption
  <2> QED BY <1>3, <2>2, <2>3
<1> QED BY <1>1, <1>2, <1>3, TlvCases

\* What is read from i on, if f is what is read from later places on.
ReadAt(p, f, i) ==
    IF i = Len(p) + 1 THEN [ok |-> TRUE, tags |-> <<>>]
    ELSE LET t == Tlv(p, i)
             rest == IF t.end <= Len(p) + 1 THEN f[t.end] ELSE Refused
             v == SubSeq(p, t.start, t.end - 1)
         IN  IF rest.ok
             THEN [ok |-> TRUE, tags |-> Preceded(t.tag, v, rest.tags)]
             ELSE Refused

Reading(p, f) == f = [i \in 1..(Len(p) + 1) |-> ReadAt(p, f, i)]

LEMMA ReadDepends ==
    ASSUME NEW p \in Seq(Byte), NEW i \in 1..(Len(p) + 1), NEW f, NEW g,
           \A j \in (i + 1)..(Len(p) + 1) : f[j] = g[j]
    PROVE  ReadAt(p, f, i) = ReadAt(p, g, i)
<1>1. CASE i = Len(p) + 1
  BY <1>1 DEF ReadAt
<1>2. CASE i \in 1..Len(p)
  <2>1. Tlv(p, i).end \in Nat /\ Tlv(p, i).end > i
    BY <1>2, TlvEnd
  <2>2. Tlv(p, i).end <= Len(p) + 1 => f[Tlv(p, i).end] = g[Tlv(p, i).end]
    BY <2>1
  <2> QED BY <2>2 DEF ReadAt
<1> QED BY <1>1, <1>2

\* The recursion ends: there is such a function, and Tags takes one.
LEMMA ReadingExists ==
    ASSUME NEW p \in Seq(Byte)
    PROVE  \E f : Reading(p, f) /\ Tags(p) = f[1]
<1> DEFINE L == Len(p)
           T == {k \in 0..L : \E f :
                    f = [i \in (L + 1 - k)..(L + 1) |-> ReadAt(p, f, i)]}
<1>1. 0 \in T
  <2> DEFINE f == [i \in (L + 1)..(L + 1) |-> [ok |-> TRUE, tags |-> <<>>]]
  <2>1. \A i \in (L + 1)..(L + 1) :
           ReadAt(p, f, i) = [ok |-> TRUE, tags |-> <<>>]
    BY DEF ReadAt
  <2>2. f = [i \in (L + 1 - 0)..(L + 1) |-> ReadAt(p, f, i)]
    BY <2>1
  <2> HIDE DEF f
  <2> QED BY <2>2
<1>2. ASSUME NEW k \in T, k # L PROVE k + 1 \in T
  <2>1. PICK f : f = [i \in (L + 1 - k)..(L + 1) |-> ReadAt(p, f, i)]
    OBVIOUS
  <2> DEFINE g == [i \in (L - k)..(L + 1) |->
                      IF i = L - k THEN ReadAt(p, f, i) ELSE f[i]]
  <2>2. /\ L \in Nat /\ k \in 0..(L - 1) /\ L + 1 - (k + 1) = L - k
        /\ L - k \in 1..L
    BY <1>2
  <2> HIDE DEF T
  <2>3. ASSUME NEW i \in (L - k)..(L + 1) PROVE g[i] = ReadAt(p, g, i)
    <3>1. i \in 1..(L + 1) /\ \A j \in (i + 1)..(L + 1) : f[j] = g[j]
      BY <2>2
    <3>2. g[i] = IF i = L - k THEN ReadAt(p, f, i) ELSE f[i]
      OBVIOUS
    <3> HIDE DEF g
    <3>3. ReadAt(p, f, i) = ReadAt(p, g, i)
      BY <3>1, ReadDepends
    <3>4. CASE i = L - k
      BY <3>2, <3>3, <3>4, Zenon
    <3>5. CASE i # L - k
      <4>1. i \in (L + 1 - k)..(L + 1)
        BY <2>2, <3>5
      <4>2. f[i] = ReadAt(p, f, i)
        BY <2>1, <4>1
      <4> QED BY <3>2, <3>3, <3>5, <4>2, Zenon
    <3> QED BY <3>4, <3>5
  <2>4. g = [i \in (L - k)..(L + 1) |-> ReadAt(p, g, i)]
    <3>1. g = [i \in (L - k)..(L + 1) |-> g[i]]
      OBVIOUS
    <3> HIDE DEF g
    <3> QED BY <2>3, <3>1
  <2> HIDE DEF g
  <2> QED BY <2>2, <2>4 DEF T
<1>3. L \in Nat /\ T \in SUBSET (0..L)
  OBVIOUS
<1> HIDE DEF T
<1>4. L \in T
  BY <1>1, <1>2, <1>3, SetInduction
<1>5. \E f : Reading(p, f)
  <2>1. L + 1 - L = 1
    OBVIOUS
  <2> QED BY <1>4, <2>1 DEF T, Reading
<1>6. Tags(p) = (CHOOSE f : Reading(p, f))[1]
  BY Zenon DEF Tags, Reading, ReadAt
<1> QED BY <1>5, <1>6

-----------------------------------------------------------------------------
(* A payload cut into TLVs *)

\* The ways to cut what follows the first a bytes, and what it says then.
Rows(p, a) ==
    {ends \in SUBSET (a..Len(p)) :
        /\ {a, Len(p)} \subseteq ends
        /\ \A e \in ends \ {a} : WholeTlv(Piece(p, ends, e))}

TagAt(p, ends, e) == Piece(p, ends, e)[1]

\* The last TLV of its tag is at e.
IsLast(p, a, ends, e) ==
    /\ e \in ends \ {a}
    /\ \A x \in ends \ {a} : TagAt(p, ends, x) = TagAt(p, ends, e) => x <= e

Says(p, a, r) ==
    /\ r.ok <=> Rows(p, a) # {}
    /\ \A ends \in Rows(p, a) :
          /\ DOMAIN r.tags = {TagAt(p, ends, e) : e \in ends \ {a}}
          /\ \A e : IsLast(p, a, ends, e) =>
                r.tags[TagAt(p, ends, e)] = Value(Piece(p, ends, e))

\* A piece lies between two ends that follow each other.
LEMMA PieceIs ==
    ASSUME NEW p \in Seq(Byte), NEW ends \in SUBSET (0..Len(p)),
           NEW b \in ends, NEW e \in ends, b < e,
           \A x \in ends : x <= b \/ e <= x
    PROVE  Piece(p, ends, e) = SubSeq(p, b + 1, e)
<1> DEFINE before == {x \in ends : x < e}
           c == CHOOSE x \in before : \A y \in before : y <= x
<1>1. b \in before /\ \A y \in before : y \in Nat /\ y <= b
  OBVIOUS
<1>2. c \in before /\ \A y \in before : y <= c
  BY <1>1
<1> HIDE DEF c
<1>3. c <= b /\ b <= c /\ c \in Nat /\ b \in Nat
  BY <1>1, <1>2
<1>4. c = b
  BY <1>3
<1> QED BY <1>4 DEF Piece, c

\* Before each end there is another one.
LEMMA PieceStarts ==
    ASSUME NEW p \in Seq(Byte), NEW a \in 0..Len(p),
           NEW ends \in SUBSET (a..Len(p)), a \in ends, NEW e \in ends \ {a}
    PROVE  \E b \in ends : /\ b < e /\ \A x \in ends : x <= b \/ e <= x
                           /\ Piece(p, ends, e) = SubSeq(p, b + 1, e)
<1> DEFINE before == {x \in ends : x < e}
<1>1. Len(p) \in Nat /\ before \in SUBSET (0..Len(p)) /\ a \in before
  <2>1. Len(p) \in Nat /\ a \in Nat
    OBVIOUS
  <2>2. \A x \in ends : x \in a..Len(p) /\ x \in 0..Len(p)
    BY <2>1
  <2>3. a < e
    BY <2>1, <2>2
  <2> QED BY <2>1, <2>2, <2>3
<1>2. PICK b \in before : \A y \in before : y <= b
  <2> HIDE DEF before
  <2> QED BY <1>1, MaxExists
<1>3. b \in ends /\ b < e /\ \A x \in ends : x <= b \/ e <= x
  BY <1>2
<1>4. ends \in SUBSET (0..Len(p)) /\ e \in ends
  OBVIOUS
<1> QED BY <1>3, <1>4, PieceIs

LEMMA SubSeqs ==
    ASSUME NEW p \in Seq(Byte), NEW a \in 0..Len(p), NEW m \in (a + 1)..Len(p),
           NEW s, s = SubSeq(p, a + 1, m)
    PROVE  /\ Len(s) = m - a
           /\ \A k \in 1..(m - a) : s[k] = p[a + k] /\ s[k] \in Byte
           /\ \A k \in 1..(m - a + 1) :
                 SubSeq(s, k, m - a) = SubSeq(p, a + k, m)
<1>1. Len(s) = m - a /\ s \in Seq(Byte)
  OBVIOUS
<1>2. \A k \in 1..(m - a) : s[k] = p[a + k] /\ s[k] \in Byte
  OBVIOUS
<1>3. ASSUME NEW k \in 1..(m - a + 1)
      PROVE  SubSeq(s, k, m - a) = SubSeq(p, a + k, m)
  <2>1. Len(SubSeq(s, k, m - a)) = m - a - k + 1
    BY <1>1
  <2>2. Len(SubSeq(p, a + k, m)) = m - a - k + 1
    OBVIOUS
  <2>3. \A j \in 1..(m - a - k + 1) :
           SubSeq(s, k, m - a)[j] = SubSeq(p, a + k, m)[j]
    BY <1>1, <1>2
  <2>4. SubSeq(s, k, m - a) \in Seq(Byte) /\ SubSeq(p, a + k, m) \in Seq(Byte)
    BY <1>1
  <2> QED BY <2>1, <2>2, <2>3, <2>4
<1> QED BY <1>1, <1>2, <1>3

\* The piece after place a is a TLV if and only if Tlv reads it as one.
LEMMA TlvPiece ==
    ASSUME NEW p \in Seq(Byte), NEW a \in 0..(Len(p) - 1),
           NEW m \in (a + 1)..Len(p)
    PROVE  LET s == SubSeq(p, a + 1, m)
               t == Tlv(p, a + 1)
           IN  /\ WholeTlv(s) <=> t.end = m + 1
               /\ WholeTlv(s) => /\ t.tag = s[1]
                                 /\ Value(s) = SubSeq(p, t.start, t.end - 1)
<1>0. a \in 0..Len(p)
  OBVIOUS
<1> SUFFICES ASSUME NEW s, s = SubSeq(p, a + 1, m), NEW t, t = Tlv(p, a + 1)
             PROVE  /\ WholeTlv(s) <=> t.end = m + 1
                    /\ WholeTlv(s) =>
                          /\ t.tag = s[1]
                          /\ Value(s) = SubSeq(p, t.start, t.end - 1)
  OBVIOUS
<1>1. /\ a \in Nat /\ m \in Nat /\ Len(p) \in Nat /\ a < m /\ m <= Len(p)
      /\ Half \in Nat
  BY DiscoveryAssumption
<1>2. /\ Len(s) = m - a
      /\ \A k \in 1..(m - a) : s[k] = p[a + k] /\ s[k] \in Byte
      /\ \A k \in 1..(m - a + 1) : SubSeq(s, k, m - a) = SubSeq(p, a + k, m)
  BY <1>0, SubSeqs
<1>3. s[1] = p[a + 1] /\ (m >= a + 2 => s[2] = p[a + 2])
      /\ (m >= a + 3 => s[3] = p[a + 3])
  BY <1>1, <1>2
<1>4. \A k \in 1..Len(p) : p[k] \in Byte /\ p[k] \in Nat
  BY ByteIsNat
<1>5. CASE /\ a + 2 > Len(p) \/ (p[a + 2] >= Half /\ a + 3 > Len(p))
           /\ t.end = Len(p) + 2
  <2>1. ~WholeTlv(s)
    <3>1. CASE m = a + 1
      BY <1>1, <1>2, <3>1 DEF WholeTlv
    <3>2. CASE m # a + 1
      <4>1. m = a + 2 /\ s[2] >= Half /\ s[2] \in Nat /\ Len(s) = 2
        BY <1>1, <1>2, <1>3, <1>4, <1>5, <3>2
      <4> QED BY <1>1, <4>1 DEF WholeTlv
    <3> QED BY <3>1, <3>2
  <2>2. t.end # m + 1
    BY <1>1, <1>5
  <2> QED BY <2>1, <2>2
<1>6. CASE /\ a + 2 <= Len(p) /\ p[a + 2] < Half
           /\ t = [tag |-> p[a + 1], start |-> a + 3, end |-> a + 3 + p[a + 2]]
  <2>1. PICK n \in Nat : n = p[a + 2] /\ n < Half
    BY <1>1, <1>4, <1>6
  <2>2. t.tag = p[a + 1] /\ t.start = a + 3 /\ t.end = a + 3 + n
    BY <1>6, <2>1
  <2>3. WholeTlv(s) <=> m - a = 2 + n
    <3>1. CASE m = a + 1
      BY <1>1, <1>2, <2>1, <3>1 DEF WholeTlv
    <3>2. CASE m # a + 1
      <4>1. s[2] = n /\ ~(s[2] >= Half) /\ Len(s) = m - a /\ m - a >= 2
        BY <1>1, <1>2, <1>3, <2>1, <3>2
      <4> QED BY <2>1, <4>1 DEF WholeTlv
    <3> QED BY <3>1, <3>2
  <2>4. WholeTlv(s) => Value(s) = SubSeq(p, a + 3, m)
    <3>1. WholeTlv(s) => m >= a + 2 /\ 3 \in 1..(m - a + 1)
      BY <1>1, <2>1, <2>3
    <3>2. WholeTlv(s) => SubSeq(s, 3, m - a) = SubSeq(p, a + 3, m)
      BY <1>2, <3>1
    <3>3. WholeTlv(s) => s[2] < Half
      BY <1>3, <2>1, <3>1
    <3> QED BY <1>2, <3>2, <3>3 DEF Value
  <2>5. WholeTlv(s) <=> t.end = m + 1
    <3>1. m - a = 2 + n <=> a + 3 + n = m + 1
      BY <1>1
    <3> QED BY <2>2, <2>3, <3>1, Zenon
  <2>6. (m + 1) - 1 = m
    BY <1>1
  <2> QED BY <1>3, <2>2, <2>4, <2>5, <2>6
<1>7. CASE /\ a + 3 <= Len(p) /\ p[a + 2] >= Half
           /\ t = [tag |-> p[a + 1], start |-> a + 4,
                   end |-> a + 4 + ((p[a + 2] - Half) + Half * p[a + 3])]
  <2>1. p[a + 2] \in Byte /\ p[a + 2] \in Nat /\ p[a + 3] \in Nat
    BY <1>1, <1>4, <1>7
  <2>2. a + 3 <= Len(p) /\ ~(p[a + 2] < Half) /\ p[a + 2] >= Half
    BY <1>1, <1>7, <2>1
  <2>3. p[a + 2] - Half \in Nat /\ Half * p[a + 3] \in Nat
    BY <1>1, <2>1, <2>2, HalfMod, ProductIsNat
  <2>4. PICK x, y \in Nat : x = p[a + 2] - Half /\ y = Half * p[a + 3]
    BY <2>3
  <2>5. PICK n \in Nat : n = x + y
    OBVIOUS
  <2>6. t.tag = p[a + 1] /\ t.start = a + 4 /\ t.end = a + 4 + n
    <3>1. /\ t.tag = p[a + 1] /\ t.start = a + 4
          /\ t.end = a + 4 + ((p[a + 2] - Half) + Half * p[a + 3])
      BY <1>7
    <3> QED BY <2>4, <2>5, <3>1, Zenon
  <2>7. WholeTlv(s) <=> m - a = 3 + n
    <3>1. CASE m = a + 1 \/ m = a + 2
      <4>1. ~(Len(s) >= 3) /\ (Len(s) >= 2 => ~(s[2] < Half))
        BY <1>1, <1>2, <1>3, <2>2, <3>1
      <4> QED BY <1>1, <3>1, <4>1 DEF WholeTlv
    <3>2. CASE m >= a + 3
      <4>1. s[2] = p[a + 2] /\ s[3] = p[a + 3] /\ Len(s) = m - a
        BY <1>1, <1>2, <1>3, <3>2
      <4>2. m - a >= 3 /\ Len(s) >= 3
        BY <1>1, <3>2, <4>1
      <4>3. WholeTlv(s) <=> Len(s) = 3 + (s[2] - Half) + Half * s[3]
        BY <2>2, <4>1, <4>2, Zenon DEF WholeTlv
      <4>4. WholeTlv(s) <=> m - a = 3 + x + y
        BY <2>4, <4>1, <4>3, Zenon
      <4>5. 3 + x + y = 3 + n
        BY <2>5
      <4> QED BY <4>4, <4>5, Zenon
    <3> QED BY <1>1, <3>1, <3>2
  <2>8. WholeTlv(s) => Value(s) = SubSeq(p, a + 4, m)
    <3>1. m - a = 3 + n => m >= a + 3 /\ 4 \in 1..(m - a + 1)
      BY <1>1
    <3>2. m - a = 3 + n => SubSeq(s, 4, m - a) = SubSeq(p, a + 4, m)
      BY <1>2, <3>1
    <3>3. m - a = 3 + n => ~(s[2] < Half)
      BY <1>1, <1>3, <2>2, <3>1
    <3> QED BY <1>2, <2>7, <3>2, <3>3, Zenon DEF Value
  <2>9. m - a = 3 + n <=> a + 4 + n = m + 1
    BY <1>1
  <2>10. (m + 1) - 1 = m
    BY <1>1
  <2> QED BY <1>3, <2>6, <2>7, <2>8, <2>9, <2>10, Zenon
<1>8. /\ a + 1 \in 1..Len(p) /\ (a + 1) + 1 = a + 2 /\ (a + 1) + 2 = a + 3
      /\ (a + 1) + 3 = a + 4
  BY <1>1
<1> QED BY <1>5, <1>6, <1>7, <1>8, TlvCases

\* The pieces behind the first end are the same without it.
LEMMA Behind ==
    ASSUME NEW p \in Seq(Byte), NEW a \in 0..Len(p), NEW m \in (a + 1)..Len(p),
           NEW ends \in SUBSET (m..Len(p)), m \in ends
    PROVE  /\ Piece(p, ends \cup {a}, m) = SubSeq(p, a + 1, m)
           /\ \A e \in ends \ {m} :
                 Piece(p, ends \cup {a}, e) = Piece(p, ends, e)
<1> DEFINE all == ends \cup {a}
<1>1. /\ a \in Nat /\ m \in Nat /\ Len(p) \in Nat /\ a < m /\ m <= Len(p)
      /\ \A x \in ends : x \in m..Len(p) /\ x \in Nat /\ m <= x
  OBVIOUS
<1>2. all \in SUBSET (0..Len(p)) /\ a \in all /\ m \in all
  BY <1>1
<1>3. Piece(p, all, m) = SubSeq(p, a + 1, m)
  <2>1. \A x \in all : x <= a \/ m <= x
    BY <1>1
  <2> HIDE DEF all
  <2> QED BY <1>1, <1>2, <2>1, PieceIs
<1>4. ASSUME NEW e \in ends \ {m} PROVE Piece(p, all, e) = Piece(p, ends, e)
  <2>1. m \in 0..Len(p)
    BY <1>1
  <2>2. PICK b \in ends : /\ b < e /\ \A x \in ends : x <= b \/ e <= x
                          /\ Piece(p, ends, e) = SubSeq(p, b + 1, e)
    BY <2>1, PieceStarts
  <2>3. b \in all /\ e \in all /\ \A x \in all : x <= b \/ e <= x
    BY <1>1, <2>2
  <2> HIDE DEF all
  <2> QED BY <1>2, <2>2, <2>3, PieceIs
<1> QED BY <1>3, <1>4

\* A row is its first TLV and a row.
LEMMA RowSplits ==
    ASSUME NEW p \in Seq(Byte), NEW a \in 0..(Len(p) - 1),
           NEW ends \in Rows(p, a)
    PROVE  \E m \in (a + 1)..Len(p) :
              /\ m \in ends /\ ends \ {a} \in Rows(p, m)
              /\ ends = (ends \ {a}) \cup {a}
              /\ WholeTlv(SubSeq(p, a + 1, m))
<1> DEFINE rest == ends \ {a}
<1>1. /\ a \in Nat /\ Len(p) \in Nat /\ a < Len(p) /\ a \in 0..Len(p)
      /\ ends \in SUBSET (a..Len(p)) /\ a \in ends /\ Len(p) \in ends
      /\ \A e \in rest : WholeTlv(Piece(p, ends, e))
  BY DEF Rows
<1>2. /\ rest \in SUBSET (0..Len(p)) /\ rest # {}
      /\ \A x \in rest : x \in (a + 1)..Len(p)
  BY <1>1
<1>3. PICK m \in rest : \A x \in rest : m <= x
  <2> HIDE DEF rest
  <2> QED BY <1>1, <1>2, MinExists
<1>4. m \in (a + 1)..Len(p) /\ m \in ends /\ ends = rest \cup {a}
  BY <1>1, <1>2
<1>5. rest \in SUBSET (m..Len(p)) /\ m \in rest /\ Len(p) \in rest
  BY <1>1, <1>2, <1>3
<1>6. /\ Piece(p, ends, m) = SubSeq(p, a + 1, m)
      /\ \A e \in rest \ {m} : Piece(p, ends, e) = Piece(p, rest, e)
  <2> HIDE DEF rest
  <2>1. /\ Piece(p, rest \cup {a}, m) = SubSeq(p, a + 1, m)
        /\ \A e \in rest \ {m} :
              Piece(p, rest \cup {a}, e) = Piece(p, rest, e)
    BY <1>1, <1>4, <1>5, Behind
  <2> QED BY <1>4, <2>1
<1>7. rest \in Rows(p, m)
  BY <1>1, <1>5, <1>6 DEF Rows
<1>8. WholeTlv(SubSeq(p, a + 1, m))
  BY <1>1, <1>3, <1>6
<1> QED BY <1>4, <1>7, <1>8

LEMMA RowJoins ==
    ASSUME NEW p \in Seq(Byte), NEW a \in 0..(Len(p) - 1),
           NEW m \in (a + 1)..Len(p), NEW rest \in Rows(p, m),
           WholeTlv(SubSeq(p, a + 1, m))
    PROVE  rest \cup {a} \in Rows(p, a)
<1> DEFINE ends == rest \cup {a}
<1>1. /\ a \in Nat /\ Len(p) \in Nat /\ a \in 0..Len(p) /\ m \in Nat /\ a < m
      /\ rest \in SUBSET (m..Len(p)) /\ m \in rest /\ Len(p) \in rest
      /\ \A e \in rest \ {m} : WholeTlv(Piece(p, rest, e))
  BY DEF Rows
<1>2. /\ Piece(p, ends, m) = SubSeq(p, a + 1, m)
      /\ \A e \in rest \ {m} : Piece(p, ends, e) = Piece(p, rest, e)
  BY <1>1, Behind
<1>3. \A e \in ends \ {a} : WholeTlv(Piece(p, ends, e))
  <2>1. \A e \in ends \ {a} : e = m \/ e \in rest \ {m}
    OBVIOUS
  <2> HIDE DEF ends
  <2> QED BY <1>1, <1>2, <2>1
<1>4. ends \in SUBSET (a..Len(p)) /\ a \in ends /\ Len(p) \in ends
  BY <1>1
<1> QED BY <1>3, <1>4 DEF Rows

\* With nothing left there is one row, of no TLV.
LEMMA RowEnds ==
    ASSUME NEW p \in Seq(Byte)
    PROVE  Rows(p, Len(p)) = {{Len(p)}}
<1>1. Len(p) \in Nat /\ \A x \in Len(p)..Len(p) : x = Len(p)
  OBVIOUS
<1>2. {Len(p)} \in Rows(p, Len(p))
  BY <1>1 DEF Rows
<1>3. ASSUME NEW ends \in Rows(p, Len(p)) PROVE ends = {Len(p)}
  BY <1>1 DEF Rows
<1> QED BY <1>2, <1>3

LEMMA SaysNothing ==
    ASSUME NEW p \in Seq(Byte)
    PROVE  Says(p, Len(p), [ok |-> TRUE, tags |-> <<>>])
<1>1. DOMAIN <<>> = {}
  OBVIOUS
<1> QED BY <1>1, RowEnds DEF Says, IsLast

\* If a TLV lies after place a, and rest is what the row behind it says.
LEMMA SaysMore ==
    ASSUME NEW p \in Seq(Byte), NEW a \in 0..(Len(p) - 1),
           NEW m \in (a + 1)..Len(p), NEW t, t = Tlv(p, a + 1),
           t.end = m + 1, NEW rest, Says(p, m, rest), NEW r,
           rest.ok => r = [ok |-> TRUE, tags |->
                              Preceded(t.tag, SubSeq(p, t.start, t.end - 1),
                                       rest.tags)],
           ~rest.ok => r = Refused
    PROVE  Says(p, a, r)
<1> DEFINE s == SubSeq(p, a + 1, m)
<1>1. /\ a \in 0..Len(p) /\ a < m /\ a \in Nat /\ m \in Nat /\ Len(p) \in Nat
      /\ m \in 0..Len(p) /\ m # a
  OBVIOUS
<1>2. /\ WholeTlv(s) /\ t.tag = s[1]
      /\ Value(s) = SubSeq(p, t.start, t.end - 1)
  BY TlvPiece, Zenon
<1> HIDE DEF s
\* Every row from a on is m and a row from m on.
<1>3. ASSUME NEW ends \in Rows(p, a)
      PROVE  ends \ {a} \in Rows(p, m) /\ ends = (ends \ {a}) \cup {a}
  <2>1. PICK n \in (a + 1)..Len(p) :
           /\ n \in ends /\ ends \ {a} \in Rows(p, n)
           /\ ends = (ends \ {a}) \cup {a}
           /\ WholeTlv(SubSeq(p, a + 1, n))
    BY RowSplits
  <2>2. t.end = n + 1
    BY <2>1, TlvPiece
  <2>3. n = m
    BY <1>1, <2>2
  <2> QED BY <2>1, <2>3
<1>4. Rows(p, m) # {} => Rows(p, a) # {}
  BY <1>2, RowJoins DEF s
<1>5. rest.ok <=> Rows(p, m) # {}
  BY DEF Says
<1>7. r.ok <=> Rows(p, a) # {}
  <2>1. CASE rest.ok
    <3>1. r.ok = TRUE
      BY <2>1
    <3>2. Rows(p, a) # {}
      BY <1>4, <1>5, <2>1
    <3> QED BY <3>1, <3>2
  <2>2. CASE ~rest.ok
    <3>1. r.ok = FALSE
      BY <2>2 DEF Refused
    <3>2. Rows(p, a) = {}
      BY <1>3, <1>5, <2>2
    <3> QED BY <3>1, <3>2
  <2> QED BY <2>1, <2>2
<1>8. ASSUME NEW ends \in Rows(p, a)
      PROVE  /\ DOMAIN r.tags = {TagAt(p, ends, e) : e \in ends \ {a}}
             /\ \A e : IsLast(p, a, ends, e) =>
                   r.tags[TagAt(p, ends, e)] = Value(Piece(p, ends, e))
  <2> DEFINE back == ends \ {a}
  <2>1. back \in Rows(p, m) /\ ends = back \cup {a} /\ rest.ok
    BY <1>3, <1>5
  <2>2. r.tags = Preceded(s[1], Value(s), rest.tags)
    BY <1>2, <2>1
  <2>3. back \in SUBSET (m..Len(p)) /\ m \in back
    BY <2>1 DEF Rows
  <2> HIDE DEF back
  <2>4. /\ Piece(p, ends, m) = s
        /\ \A e \in back \ {m} : Piece(p, ends, e) = Piece(p, back, e)
    <3>1. /\ Piece(p, back \cup {a}, m) = SubSeq(p, a + 1, m)
          /\ \A e \in back \ {m} :
                Piece(p, back \cup {a}, e) = Piece(p, back, e)
      BY <1>1, <2>3, Behind
    <3> QED BY <2>1, <3>1 DEF s
  <2>5. /\ TagAt(p, ends, m) = s[1]
        /\ \A e \in back \ {m} : TagAt(p, ends, e) = TagAt(p, back, e)
    BY <2>4 DEF TagAt
  <2>6. DOMAIN rest.tags = {TagAt(p, ends, e) : e \in back \ {m}}
    <3>1. DOMAIN rest.tags = {TagAt(p, back, e) : e \in back \ {m}}
      BY <2>1 DEF Says
    <3> QED BY <2>5, <3>1
  <2>7. ends \ {a} = (back \ {m}) \cup {m}
    BY <1>1, <2>3 DEF back
  <2>8. DOMAIN r.tags = {TagAt(p, ends, e) : e \in ends \ {a}}
    <3>1. DOMAIN r.tags = DOMAIN rest.tags \cup {s[1]}
      BY <2>2 DEF Preceded
    <3>2. DOMAIN r.tags = {TagAt(p, ends, e) : e \in back \ {m}}
                             \cup {TagAt(p, ends, m)}
      BY <2>5, <2>6, <3>1
    <3> QED BY <2>7, <3>2
  <2>9. ASSUME NEW e, IsLast(p, a, ends, e)
        PROVE  r.tags[TagAt(p, ends, e)] = Value(Piece(p, ends, e))
    <3>1. /\ e \in (back \ {m}) \cup {m}
          /\ \A x \in (back \ {m}) \cup {m} :
                TagAt(p, ends, x) = TagAt(p, ends, e) => x <= e
      BY <2>7, <2>9 DEF IsLast
    <3>2. CASE e \in back \ {m}
      <4>1. IsLast(p, m, back, e)
        BY <2>5, <3>1, <3>2 DEF IsLast
      <4>2. rest.tags[TagAt(p, back, e)] = Value(Piece(p, back, e))
        BY <2>1, <4>1 DEF Says
      <4>3. TagAt(p, ends, e) \in DOMAIN rest.tags
        BY <2>6, <3>2
      <4>4. r.tags[TagAt(p, ends, e)] = rest.tags[TagAt(p, ends, e)]
        BY <2>2, <4>3 DEF Preceded
      <4> QED BY <2>4, <2>5, <3>2, <4>2, <4>4
    <3>3. CASE e = m
      <4>1. \A x \in back \ {m} : x > m
        BY <1>1, <2>3
      <4>2. \A x \in back \ {m} : TagAt(p, ends, x) # s[1]
        <5>1. \A x \in back \ {m} : x \in Nat /\ ~(x <= m)
          BY <1>1, <2>3, <4>1
        <5> QED BY <2>5, <3>1, <3>3, <5>1
      <4>3. s[1] \notin DOMAIN rest.tags
        BY <2>6, <4>2
      <4>4. r.tags[s[1]] = Value(s)
        BY <2>2, <4>3 DEF Preceded
      <4> QED BY <2>4, <2>5, <3>3, <4>4
    <3> QED BY <3>1, <3>2, <3>3
  <2> QED BY <2>8, <2>9
<1> QED BY <1>7, <1>8 DEF Says

\* Nothing that begins after place a is a TLV.
LEMMA SaysCutOff ==
    ASSUME NEW p \in Seq(Byte), NEW a \in 0..(Len(p) - 1),
           Tlv(p, a + 1).end > Len(p) + 1
    PROVE  Says(p, a, Refused)
<1>1. a \in 0..Len(p) /\ Len(p) \in Nat
  OBVIOUS
<1>2. ASSUME NEW ends \in Rows(p, a) PROVE FALSE
  <2>1. PICK n \in (a + 1)..Len(p) : WholeTlv(SubSeq(p, a + 1, n))
    BY RowSplits
  <2>2. Tlv(p, a + 1).end = n + 1
    BY <2>1, TlvPiece
  <2> QED BY <1>1, <2>2
<1> QED BY <1>2 DEF Says, Refused

LEMMA NextPlace ==
    ASSUME NEW n \in Nat, NEW k \in 0..(n - 1)
    PROVE  /\ n - k - 1 \in 0..(n - 1) /\ n - k - 1 + 1 \in 1..n
           /\ n - k - 1 + 1 # n + 1 /\ n - k - 1 + 1 = n - k
           /\ \A x \in (n - (k + 1))..n : x = n - k - 1 \/ x \in (n - k)..n
OBVIOUS

LEMMA ReadingSays ==
    ASSUME NEW p \in Seq(Byte), NEW f, Reading(p, f)
    PROVE  Says(p, 0, f[1])
<1> DEFINE L == Len(p)
           T == {k \in 0..L : \A a \in (L - k)..L : Says(p, a, f[a + 1])}
<1>1. /\ L \in Nat
      /\ \A i \in 1..(L + 1) : f[i] = ReadAt(p, f, i)
  BY DEF Reading
<1>2. 0 \in T
  <2>1. \A a \in (L - 0)..L : a = L
    BY <1>1
  <2>2. f[L + 1] = [ok |-> TRUE, tags |-> <<>>]
    <3>1. L + 1 \in 1..(L + 1)
      BY <1>1
    <3>2. f[L + 1] = ReadAt(p, f, L + 1)
      BY <1>1, <3>1
    <3> QED BY <3>2 DEF ReadAt
  <2>3. Says(p, L, f[L + 1])
    BY <2>2, SaysNothing
  <2> QED BY <1>1, <2>1, <2>3
<1>3. ASSUME NEW k \in T, k # L PROVE k + 1 \in T
  <2>1. /\ k \in 0..(L - 1) /\ k + 1 \in 0..L /\ L - (k + 1) = L - k - 1
        /\ L - k - 1 \in 0..(L - 1)
        /\ \A x \in (L - k)..L : Says(p, x, f[x + 1])
    BY <1>1, <1>3
  <2> HIDE DEF T
  <2> DEFINE a == L - k - 1
             t == Tlv(p, a + 1)
  <2>2. /\ a \in 0..(L - 1) /\ a + 1 \in 1..L /\ a + 1 # L + 1 /\ a + 1 = L - k
    BY <1>1, <2>1, NextPlace
  <2>3. t.end \in Nat /\ t.end > a + 1
    BY <2>2, TlvEnd
  <2>4. f[a + 1] = ReadAt(p, f, a + 1)
    BY <1>1, <2>2
  <2> HIDE DEF a, t
  <2>5. Says(p, a, f[a + 1])
    <3>1. CASE t.end <= L + 1
      <4> DEFINE m == t.end - 1
      <4>1. /\ m \in (a + 1)..L /\ t.end = m + 1
        BY <1>1, <2>2, <2>3, <3>1
      <4>2. m \in (L - k)..L
        BY <2>2, <4>1
      <4> HIDE DEF m
      <4>3. Says(p, m, f[t.end])
        BY <2>1, <4>1, <4>2
      <4>4. /\ f[t.end].ok =>
                 f[a + 1] = [ok |-> TRUE, tags |->
                                Preceded(t.tag, SubSeq(p, t.start, t.end - 1),
                                         f[t.end].tags)]
            /\ ~f[t.end].ok => f[a + 1] = Refused
        BY <2>2, <2>4, <3>1 DEF ReadAt, t
      <4> QED BY <2>2, <4>1, <4>3, <4>4, SaysMore DEF t
    <3>2. CASE t.end > L + 1
      <4>1. ~(t.end <= L + 1)
        BY <1>1, <2>3, <3>2
      <4>2. f[a + 1] = Refused
        BY <2>2, <2>4, <4>1 DEF ReadAt, t, Refused
      <4> QED BY <2>2, <3>2, <4>2, SaysCutOff DEF t
    <3> QED BY <1>1, <2>3, <3>1, <3>2
  <2>6. \A x \in (L - (k + 1))..L : Says(p, x, f[x + 1])
    <3>1. ASSUME NEW x \in (L - (k + 1))..L PROVE x = a \/ x \in (L - k)..L
      BY <1>1, <2>1, NextPlace DEF a
    <3> QED BY <2>1, <2>5, <3>1
  <2> QED BY <2>1, <2>6 DEF T
<1>4. T \in SUBSET (0..L)
  OBVIOUS
<1> HIDE DEF T
<1>5. L \in T
  BY <1>1, <1>2, <1>3, <1>4, SetInduction
<1>6. 0 \in (L - L)..L /\ 0 + 1 = 1
  BY <1>1
<1> QED BY <1>5, <1>6 DEF T

\* parseDiscoverRequest reads a payload as what it says.
LEMMA TagsSay ==
    ASSUME NEW p \in Seq(Byte)
    PROVE  Says(p, 0, Tags(p))
BY ReadingExists, ReadingSays

\* The packet that is answered came from an app.
RequestOK == request \in Packet \cup {NoPacket}

LEMMA RequestInv == Spec => []RequestOK
<1>1. Init => RequestOK
  BY DEF Init, RequestOK
<1>2. RequestOK /\ [Next]_vars => RequestOK'
  BY DEF RequestOK, Next, Receive, Respond, Save, vars
<1> QED BY <1>1, <1>2, PTL DEF Spec

LEMMA Agrees ==
    ASSUME NEW p \in Seq(Byte)
    PROVE  /\ Tags(p).ok <=> Pieces(p) # {}
           /\ \A ends \in Pieces(p) :
                 /\ DOMAIN Tags(p).tags =
                       {Piece(p, ends, e)[1] : e \in ends \ {0}}
                 /\ \A tag \in DOMAIN Tags(p).tags :
                       Tags(p).tags[tag] = LastOf(p, ends, tag)
<1>1. Pieces(p) = Rows(p, 0)
  BY DEF Pieces, Rows
<1>2. Tags(p).ok <=> Pieces(p) # {}
  BY <1>1, TagsSay DEF Says
<1>3. ASSUME NEW ends \in Pieces(p)
      PROVE  DOMAIN Tags(p).tags = {Piece(p, ends, e)[1] : e \in ends \ {0}}
  BY <1>1, TagsSay DEF Says, TagAt
<1>4. ASSUME NEW ends \in Pieces(p), NEW tag \in DOMAIN Tags(p).tags
      PROVE  Tags(p).tags[tag] = LastOf(p, ends, tag)
  <2> DEFINE at == {e \in ends \ {0} : Piece(p, ends, e)[1] = tag}
             last == CHOOSE e \in at : \A x \in at : x <= e
  <2>1. at # {} /\ at \in SUBSET (0..Len(p)) /\ Len(p) \in Nat
    <3>1. at # {}
      <4>1. \E e \in ends \ {0} : Piece(p, ends, e)[1] = tag
        BY <1>3
      <4> QED BY <4>1, Zenon
    <3>2. at \in SUBSET (0..Len(p))
      <4>1. ends \in SUBSET (0..Len(p))
        BY Zenon DEF Pieces
      <4> QED BY <4>1
    <3>3. Len(p) \in Nat
      OBVIOUS
    <3> QED BY <3>1, <3>2, <3>3, Zenon
  <2>2. \E e \in at : \A x \in at : x <= e
    <3> HIDE DEF at
    <3> QED BY <2>1, MaxExists
  <2>3. last \in at /\ \A x \in at : x <= last
    <3> HIDE DEF at
    <3> QED BY <2>2
  <2>4. LastOf(p, ends, tag) = Value(Piece(p, ends, last))
    BY DEF LastOf
  <2> HIDE DEF last
  <2>5. TagAt(p, ends, last) = tag /\ IsLast(p, 0, ends, last)
    BY <2>3 DEF IsLast, TagAt
  <2>6. Tags(p).tags[TagAt(p, ends, last)] = Value(Piece(p, ends, last))
    BY <1>1, <2>5, TagsSay DEF Says
  <2> QED BY <2>4, <2>5, <2>6
<1> QED BY <1>2, <1>3, <1>4

(***************************************************************************)
(* parseDiscoverRequest reads every payload of every length as what it     *)
(* says, for every size of a byte: it takes the payloads that can be cut   *)
(* into whole TLVs, and of each tag the last value (hdhr_discovery.go:     *)
(* 56-82).                                                                 *)
(***************************************************************************)
THEOREM RequestsReadRight == Spec => []ParseAgrees
<1>1. RequestOK => ParseAgrees
  <2> SUFFICES ASSUME RequestOK PROVE ParseAgrees
    OBVIOUS
  <2>1. request.payload \in Seq(Byte)
    <3>1. NoPacket.payload \in Seq(Byte)
      BY DEF NoPacket, NoReply
    <3> QED BY <3>1, BytesAssumption DEF RequestOK
  <2> QED BY <2>1, Agrees DEF ParseAgrees
<1> QED BY <1>1, RequestInv, PTL

-----------------------------------------------------------------------------
(* The reply, TLV by TLV. *)

LEMMA ConcatType ==
    ASSUME NEW p \in Seq(Byte), NEW h \in Seq(Byte), NEW v \in Seq(Byte)
    PROVE  /\ p \o h \o v \in Seq(Byte)
           /\ Len(p \o h \o v) = Len(p) + Len(h) + Len(v)
OBVIOUS

LEMMA AppendedType ==
    ASSUME NEW p \in Seq(Byte), NEW tag \in Byte, NEW v \in Seq(Byte),
           Len(v) < Half * (2 * Half)
    PROVE  /\ AppendTlv(p, tag, v) \in Seq(Byte)
           /\ Len(AppendTlv(p, tag, v)) \in Nat
           /\ Len(AppendTlv(p, tag, v)) > Len(p)
           /\ Len(AppendTlv(p, tag, v)) <= Len(p) + 3 + Len(v)
<1>1. PICK n \in Nat : n = Len(v)
  OBVIOUS
<1>2. Half \in Nat /\ Half > 1
  BY DiscoveryAssumption
<1>3. CASE n < Half
  <2>1. n \in Byte
    BY <1>2, <1>3 DEF Byte
  <2>2. PICK h \in Seq(Byte) : h = <<tag, n>> /\ Len(h) = 2
    <3>1. <<tag, n>> \in Seq(Byte) /\ Len(<<tag, n>>) = 2
      BY <2>1
    <3> QED BY <3>1, Zenon
  <2>3. AppendTlv(p, tag, v) = p \o h \o v
    BY <1>1, <1>3, <2>2 DEF AppendTlv
  <2> QED BY <1>1, <2>2, <2>3, ConcatType
<1>4. CASE ~(n < Half)
  <2>1. /\ n % Half \in 0..(Half - 1)
        /\ n \div Half \in Nat /\ (n \div Half) % (2 * Half) = n \div Half
    BY <1>1, TwoBytes
  <2>2. (n % Half) + Half \in Byte
    BY <1>2, <2>1 DEF Byte
  <2>3. (n \div Half) % (2 * Half) \in Byte
    <3>1. \A x \in Nat : x % (2 * Half) \in 0..(2 * Half - 1)
      BY <1>2
    <3> QED BY <2>1, <3>1 DEF Byte
  <2>4. PICK h \in Seq(Byte) :
           /\ h = <<tag, (n % Half) + Half, (n \div Half) % (2 * Half)>>
           /\ Len(h) = 3
    <3>1. ASSUME NEW lo \in Byte, NEW hi \in Byte
          PROVE  <<tag, lo, hi>> \in Seq(Byte) /\ Len(<<tag, lo, hi>>) = 3
      OBVIOUS
    <3> QED BY <2>2, <2>3, <3>1, Zenon
  <2>5. AppendTlv(p, tag, v) = p \o h \o v
    BY <1>1, <1>4, <2>4, Zenon DEF AppendTlv
  <2> QED BY <1>1, <2>4, <2>5, ConcatType
<1> QED BY <1>3, <1>4

\* What AppendTlv appends is read as one TLV more, which may replace another.
LEMMA TagsAppended ==
    ASSUME NEW p \in Seq(Byte), Tags(p).ok, NEW tag \in Byte,
           NEW v \in Seq(Byte), Len(v) < Half * (2 * Half),
           NEW q, q = AppendTlv(p, tag, v)
    PROVE  /\ Tags(q).ok
           /\ DOMAIN Tags(q).tags = DOMAIN Tags(p).tags \cup {tag}
           /\ Tags(q).tags[tag] = v
           /\ \A x \in DOMAIN Tags(p).tags \ {tag} :
                 Tags(q).tags[x] = Tags(p).tags[x]
<1> DEFINE n == Len(p)
           m == Len(q)
<1>1. /\ q \in Seq(Byte) /\ n \in Nat /\ m \in Nat /\ n < m
      /\ 0 \in 0..n /\ 0 \in 0..m /\ n \in 0..(m - 1) /\ m \in (n + 1)..m
  <2>1. q \in Seq(Byte) /\ m \in Nat /\ n < m
    BY AppendedType, Zenon
  <2>2. n \in Nat
    OBVIOUS
  <2> HIDE DEF n, m
  <2>3. 0 \in 0..n /\ 0 \in 0..m /\ n \in 0..(m - 1) /\ m \in (n + 1)..m
    BY <2>1, <2>2
  <2> QED BY <2>1, <2>2, <2>3
<1>2. PICK t : t = Tlv(q, n + 1)
  OBVIOUS
<1>3. /\ t.tag = tag /\ t.end = m + 1 /\ SubSeq(q, t.start, t.end - 1) = v
      /\ SubSeq(q, 1, n) = p
  <2>1. ReadBack(p, tag, v, AppendTlv(p, tag, v), Len(p) + 1)
    BY TlvRead, Zenon
  <2> QED BY <1>2, <2>1, Zenon DEF ReadBack
<1> HIDE DEF n, m
<1>4. \A b, e \in 0..n : SubSeq(q, b + 1, e) = SubSeq(p, b + 1, e)
  <2> SUFFICES ASSUME NEW b \in 0..n, NEW e \in 0..n
               PROVE  SubSeq(q, b + 1, e) = SubSeq(p, b + 1, e)
    OBVIOUS
  <2>1. \A k \in 1..n : q[k] = p[k]
    BY <1>1, <1>3 DEF n, m
  <2> QED BY <1>1, <2>1 DEF n, m
<1>5. PICK ends \in Rows(p, 0) : TRUE
  BY TagsSay DEF Says
<1>6. /\ ends \in SUBSET (0..n) /\ 0 \in ends /\ n \in ends
      /\ \A e \in ends \ {0} : WholeTlv(Piece(p, ends, e))
  BY DEF Rows, n
<1> DEFINE all == ends \cup {m}
<1>7. /\ all \in SUBSET (0..m) /\ 0 \in all /\ m \in all /\ n \in all
      /\ \A x \in ends : x \in Nat /\ x <= n
  BY <1>1, <1>6
<1>8. all \ {0} = (ends \ {0}) \cup {m} /\ m \notin ends
  BY <1>1, <1>7
<1>9. \A x \in all : x \in ends \/ x = m
  OBVIOUS
<1> HIDE DEF all
<1>10. ASSUME NEW e \in ends \ {0} PROVE Piece(q, all, e) = Piece(p, ends, e)
  <2>1. PICK b \in ends : /\ b < e /\ \A x \in ends : x <= b \/ e <= x
                          /\ Piece(p, ends, e) = SubSeq(p, b + 1, e)
    BY <1>1, <1>6, PieceStarts DEF n
  <2>2. /\ b \in all /\ e \in all /\ \A x \in all : x <= b \/ e <= x
        /\ b \in 0..n /\ e \in 0..n
    BY <1>1, <1>6, <1>7, <1>9, <2>1 DEF all
  <2>3. Piece(q, all, e) = SubSeq(q, b + 1, e)
    <3>1. all \in SUBSET (0..Len(q))
      BY <1>7 DEF m
    <3> QED BY <1>1, <2>1, <2>2, <3>1, PieceIs, Zenon
  <2> QED BY <1>4, <2>1, <2>2, <2>3
<1>11. Piece(q, all, m) = SubSeq(q, n + 1, m)
  <2>1. \A x \in all : x <= n \/ m <= x
    BY <1>1, <1>7, <1>9
  <2> QED BY <1>1, <1>7, <2>1, PieceIs DEF m
<1>12. /\ WholeTlv(Piece(q, all, m)) /\ Piece(q, all, m)[1] = tag
       /\ Value(Piece(q, all, m)) = v
  <2>1. /\ WholeTlv(SubSeq(q, n + 1, m)) <=> t.end = m + 1
        /\ WholeTlv(SubSeq(q, n + 1, m)) =>
              /\ t.tag = SubSeq(q, n + 1, m)[1]
              /\ Value(SubSeq(q, n + 1, m)) = SubSeq(q, t.start, t.end - 1)
    <3>1. /\ WholeTlv(SubSeq(q, n + 1, m)) <=> Tlv(q, n + 1).end = m + 1
          /\ WholeTlv(SubSeq(q, n + 1, m)) =>
                /\ Tlv(q, n + 1).tag = SubSeq(q, n + 1, m)[1]
                /\ Value(SubSeq(q, n + 1, m))
                     = SubSeq(q, Tlv(q, n + 1).start, Tlv(q, n + 1).end - 1)
      <4>1. n \in 0..(Len(q) - 1) /\ m \in (n + 1)..Len(q)
        BY <1>1 DEF m
      <4> QED BY <1>1, <4>1, TlvPiece
    <3> QED BY <1>2, <3>1, Zenon
  <2> QED BY <1>3, <1>11, <2>1, Zenon
<1>13. all \in Rows(q, 0)
  <2>1. \A e \in all \ {0} : WholeTlv(Piece(q, all, e))
    BY <1>6, <1>8, <1>10, <1>12
  <2> QED BY <1>7, <2>1 DEF Rows, m
<1>14. Says(p, 0, Tags(p)) /\ Says(q, 0, Tags(q))
  BY <1>1, TagsSay
<1>15. Tags(q).ok
  BY <1>13, <1>14 DEF Says
<1>16. /\ \A e \in ends \ {0} : TagAt(q, all, e) = TagAt(p, ends, e)
       /\ TagAt(q, all, m) = tag
  BY <1>10, <1>12 DEF TagAt
<1>17. /\ DOMAIN Tags(p).tags = {TagAt(p, ends, e) : e \in ends \ {0}}
       /\ DOMAIN Tags(q).tags = {TagAt(q, all, e) : e \in all \ {0}}
  BY <1>13, <1>14 DEF Says
<1>18. DOMAIN Tags(q).tags = DOMAIN Tags(p).tags \cup {tag}
  BY <1>8, <1>16, <1>17
<1>19. Tags(q).tags[tag] = v
  <2>1. IsLast(q, 0, all, m)
    BY <1>1, <1>7, <1>8 DEF IsLast
  <2>2. Tags(q).tags[TagAt(q, all, m)] = Value(Piece(q, all, m))
    BY <1>13, <1>14, <2>1 DEF Says
  <2> QED BY <1>12, <1>16, <2>2
<1>20. ASSUME NEW x \in DOMAIN Tags(p).tags \ {tag}
       PROVE  Tags(q).tags[x] = Tags(p).tags[x]
  <2> DEFINE at == {e \in ends \ {0} : TagAt(p, ends, e) = x}
  <2>1. at # {} /\ at \in SUBSET (0..n)
    <3>1. \E e \in ends \ {0} : TagAt(p, ends, e) = x
      BY <1>17
    <3> QED BY <1>6, <3>1
  <2>2. PICK e \in at : \A y \in at : y <= e
    <3> HIDE DEF at
    <3> QED BY <1>1, <2>1, MaxExists
  <2>3. IsLast(p, 0, ends, e) /\ TagAt(p, ends, e) = x
    BY <2>2 DEF IsLast
  <2>4. IsLast(q, 0, all, e) /\ TagAt(q, all, e) = x
    BY <1>8, <1>16, <2>3 DEF IsLast
  <2>5. Tags(p).tags[x] = Value(Piece(p, ends, e))
    BY <1>14, <2>3 DEF Says
  <2>6. Tags(q).tags[x] = Value(Piece(q, all, e))
    BY <1>13, <1>14, <2>4 DEF Says
  <2> QED BY <1>10, <2>3, <2>5, <2>6 DEF IsLast
<1> QED BY <1>15, <1>18, <1>19, <1>20

LEMMA TrimRightType ==
    ASSUME NEW u \in Seq(Byte)
    PROVE  /\ TrimRight(u) \in Seq(Byte)
           /\ Len(TrimRight(u)) \in Nat /\ Len(TrimRight(u)) <= Len(u)
           /\ u = <<>> => TrimRight(u) = <<>>
<1> DEFINE Kept(n) == /\ n > 0 => u[n] # Slash
                      /\ \A i \in (n + 1)..Len(u) : u[i] = Slash
           kept == CHOOSE n \in 0..Len(u) : Kept(n)
<1>1. \E n \in 0..Len(u) : Kept(n)
  <2> DEFINE S == {0} \cup {i \in 1..Len(u) : u[i] # Slash}
  <2>1. S \in SUBSET (0..Len(u)) /\ S # {} /\ Len(u) \in Nat
    OBVIOUS
  <2>2. PICK n \in S : \A y \in S : y <= n
    <3> HIDE DEF S
    <3> QED BY <2>1, MaxExists
  <2>3. n \in 0..Len(u)
    BY <2>1, <2>2
  <2>4. n > 0 => u[n] # Slash
    BY <2>2
  <2>5. ASSUME NEW i \in (n + 1)..Len(u) PROVE u[i] = Slash
    <3>1. i \in 1..Len(u) /\ ~(i <= n)
      BY <2>1, <2>3
    <3> QED BY <2>2, <3>1
  <2> QED BY <2>3, <2>4, <2>5
<1>2. kept \in 0..Len(u)
  <2> HIDE DEF Kept
  <2> QED BY <1>1
<1>3. TrimRight(u) = SubSeq(u, 1, kept)
  BY DEF TrimRight
<1> HIDE DEF kept
<1>4. kept \in Nat /\ kept <= Len(u)
  BY <1>2
<1>5. SubSeq(u, 1, kept) \in Seq(Byte) /\ Len(SubSeq(u, 1, kept)) = kept
  BY <1>4, SubSeqs
<1> QED BY <1>3, <1>4, <1>5

Fits(v) == Len(v) < Half * (2 * Half)

\* q is p and one TLV more.
OneMore(q, p, tag, v) ==
    /\ q \in Seq(Byte) /\ Len(q) <= Len(p) + 3 + Len(v)
    /\ Tags(q).ok
    /\ DOMAIN Tags(q).tags = DOMAIN Tags(p).tags \cup {tag}
    /\ Tags(q).tags[tag] = v
    /\ \A x \in DOMAIN Tags(p).tags \ {tag} : Tags(q).tags[x] = Tags(p).tags[x]

LEMMA Appending ==
    ASSUME NEW p \in Seq(Byte), Tags(p).ok, NEW tag \in Byte,
           NEW v \in Seq(Byte), Fits(v)
    PROVE  OneMore(AppendTlv(p, tag, v), p, tag, v)
<1> SUFFICES ASSUME NEW q, q = AppendTlv(p, tag, v) PROVE OneMore(q, p, tag, v)
  OBVIOUS
<1>1. Len(v) < Half * (2 * Half)
  BY DEF Fits
<1>2. q \in Seq(Byte) /\ Len(q) <= Len(p) + 3 + Len(v)
  <2>1. /\ AppendTlv(p, tag, v) \in Seq(Byte)
        /\ Len(AppendTlv(p, tag, v)) <= Len(p) + 3 + Len(v)
    BY <1>1, AppendedType, Zenon
  <2> QED BY <2>1, Zenon
<1>3. /\ Tags(q).ok
      /\ DOMAIN Tags(q).tags = DOMAIN Tags(p).tags \cup {tag}
      /\ Tags(q).tags[tag] = v
      /\ \A x \in DOMAIN Tags(p).tags \ {tag} :
            Tags(q).tags[x] = Tags(p).tags[x]
  BY <1>1, TagsAppended
<1> QED BY <1>2, <1>3 DEF OneMore

\* The six TLVs of a reply are all read back.
SixTlvs(type, did, auth, base, count, lineup) ==
    LET p1 == AppendTlv(<<>>, TagDeviceType, type)
        p2 == AppendTlv(p1, TagDeviceID, did)
        p3 == AppendTlv(p2, TagDeviceAuthStr, auth)
        p4 == AppendTlv(p3, TagBaseURL, base)
        p5 == AppendTlv(p4, TagTunerCount, count)
    IN  AppendTlv(p5, TagLineupURL, lineup)

Carries(p, type, did, auth, base, count, lineup) ==
    /\ p \in Seq(Byte)
    /\ Len(p) <= Len(type) + Len(did) + Len(auth) + Len(base)
                    + Len(count) + Len(lineup) + 18
    /\ Tags(p).ok
    /\ Tags(p).tags[TagDeviceID] = did
    /\ Tags(p).tags[TagDeviceAuthStr] = auth
    /\ Tags(p).tags[TagBaseURL] = base
    /\ Tags(p).tags[TagTunerCount] = count
    /\ Tags(p).tags[TagLineupURL] = lineup

LEMMA ReplyRead ==
    ASSUME NEW type \in Seq(Byte), NEW did \in Seq(Byte),
           NEW auth \in Seq(Byte), NEW base \in Seq(Byte),
           NEW count \in Seq(Byte), NEW lineup \in Seq(Byte),
           Fits(type), Fits(did), Fits(auth), Fits(base), Fits(count),
           Fits(lineup)
    PROVE  Carries(SixTlvs(type, did, auth, base, count, lineup),
                   type, did, auth, base, count, lineup)
<1> SUFFICES ASSUME NEW p1, p1 = AppendTlv(<<>>, TagDeviceType, type),
                    NEW p2, p2 = AppendTlv(p1, TagDeviceID, did),
                    NEW p3, p3 = AppendTlv(p2, TagDeviceAuthStr, auth),
                    NEW p4, p4 = AppendTlv(p3, TagBaseURL, base),
                    NEW p5, p5 = AppendTlv(p4, TagTunerCount, count),
                    NEW p6, p6 = AppendTlv(p5, TagLineupURL, lineup)
             PROVE  Carries(p6, type, did, auth, base, count, lineup)
  BY DEF SixTlvs
<1>1. /\ 1 \in Byte /\ 2 \in Byte /\ 3 \in Byte
      /\ 4 \in Byte /\ 5 \in Byte /\ 6 \in Byte
  <2>1. \A x \in 1..6 : x \in Byte
    BY BytesAssumption, Zenon
  <2> HIDE DEF Byte
  <2> QED BY <2>1
<1>2. /\ TagDeviceType = 1 /\ TagDeviceID = 2 /\ TagTunerCount = 3
      /\ TagLineupURL = 4 /\ TagBaseURL = 5 /\ TagDeviceAuthStr = 6
  BY DEF TagDeviceType, TagDeviceID, TagTunerCount, TagLineupURL, TagBaseURL,
         TagDeviceAuthStr
<1>3. /\ <<>> \in Seq(Byte) /\ Len(<<>>) = 0
      /\ Tags(<<>>).ok /\ DOMAIN Tags(<<>>).tags = {}
  <2>1. Tags(<<>>) = [ok |-> TRUE, tags |-> <<>>]
    <3>1. PICK f : Reading(<<>>, f) /\ Tags(<<>>) = f[1]
      <4>1. <<>> \in Seq(Byte)
        OBVIOUS
      <4> QED BY <4>1, ReadingExists, Zenon
    <3>2. f[1] = ReadAt(<<>>, f, 1)
      <4>1. Len(<<>>) = 0 /\ 1 \in 1..(0 + 1)
        OBVIOUS
      <4> QED BY <3>1, <4>1 DEF Reading
    <3>3. ReadAt(<<>>, f, 1) = [ok |-> TRUE, tags |-> <<>>]
      BY DEF ReadAt
    <3> QED BY <3>1, <3>2, <3>3
  <2> QED BY <2>1
<1>4. /\ p1 \in Seq(Byte) /\ Len(p1) <= Len(<<>>) + 3 + Len(type)
      /\ Tags(p1).ok /\ DOMAIN Tags(p1).tags = {1}
  <2>1. p1 = AppendTlv(<<>>, 1, type)
    BY <1>2, Zenon
  <2>2. OneMore(AppendTlv(<<>>, 1, type), <<>>, 1, type)
    BY <1>1, <1>3, Appending
  <2> QED BY <1>3, <2>1, <2>2 DEF OneMore
<1>5. /\ p2 \in Seq(Byte) /\ Len(p2) <= Len(p1) + 3 + Len(did)
      /\ Tags(p2).ok /\ DOMAIN Tags(p2).tags = {1, 2}
      /\ Tags(p2).tags[2] = did
  <2>1. p2 = AppendTlv(p1, 2, did)
    BY <1>2, Zenon
  <2>2. OneMore(AppendTlv(p1, 2, did), p1, 2, did)
    BY <1>1, <1>4, Appending
  <2> QED BY <1>4, <2>1, <2>2 DEF OneMore
<1>6. /\ p3 \in Seq(Byte) /\ Len(p3) <= Len(p2) + 3 + Len(auth)
      /\ Tags(p3).ok /\ DOMAIN Tags(p3).tags = {1, 2, 6}
      /\ Tags(p3).tags[2] = did
      /\ Tags(p3).tags[6] = auth
  <2>1. p3 = AppendTlv(p2, 6, auth)
    BY <1>2, Zenon
  <2>2. OneMore(AppendTlv(p2, 6, auth), p2, 6, auth)
    BY <1>1, <1>5, Appending
  <2>3. OneMore(p3, p2, 6, auth)
    BY <2>1, <2>2, Zenon
  <2>4. DOMAIN Tags(p3).tags = {1, 2, 6}
    BY <1>5, <2>3 DEF OneMore
  <2>5. {2} \subseteq DOMAIN Tags(p2).tags \ {6}
    BY <1>5
  <2>6. \A x \in {2} : Tags(p3).tags[x] = Tags(p2).tags[x]
    BY <2>3, <2>5, Zenon DEF OneMore
  <2> QED BY <1>5, <2>3, <2>4, <2>6, Zenon DEF OneMore
<1>7. /\ p4 \in Seq(Byte) /\ Len(p4) <= Len(p3) + 3 + Len(base)
      /\ Tags(p4).ok /\ DOMAIN Tags(p4).tags = {1, 2, 6, 5}
      /\ Tags(p4).tags[2] = did
      /\ Tags(p4).tags[6] = auth
      /\ Tags(p4).tags[5] = base
  <2>1. p4 = AppendTlv(p3, 5, base)
    BY <1>2, Zenon
  <2>2. OneMore(AppendTlv(p3, 5, base), p3, 5, base)
    BY <1>1, <1>6, Appending
  <2>3. OneMore(p4, p3, 5, base)
    BY <2>1, <2>2, Zenon
  <2>4. DOMAIN Tags(p4).tags = {1, 2, 6, 5}
    BY <1>6, <2>3 DEF OneMore
  <2>5. {2, 6} \subseteq DOMAIN Tags(p3).tags \ {5}
    BY <1>6
  <2>6. \A x \in {2, 6} : Tags(p4).tags[x] = Tags(p3).tags[x]
    BY <2>3, <2>5, Zenon DEF OneMore
  <2> QED BY <1>6, <2>3, <2>4, <2>6, Zenon DEF OneMore
<1>8. /\ p5 \in Seq(Byte) /\ Len(p5) <= Len(p4) + 3 + Len(count)
      /\ Tags(p5).ok /\ DOMAIN Tags(p5).tags = {1, 2, 6, 5, 3}
      /\ Tags(p5).tags[2] = did
      /\ Tags(p5).tags[6] = auth
      /\ Tags(p5).tags[5] = base
      /\ Tags(p5).tags[3] = count
  <2>1. p5 = AppendTlv(p4, 3, count)
    BY <1>2, Zenon
  <2>2. OneMore(AppendTlv(p4, 3, count), p4, 3, count)
    BY <1>1, <1>7, Appending
  <2>3. OneMore(p5, p4, 3, count)
    BY <2>1, <2>2, Zenon
  <2>4. DOMAIN Tags(p5).tags = {1, 2, 6, 5, 3}
    BY <1>7, <2>3 DEF OneMore
  <2>5. {2, 6, 5} \subseteq DOMAIN Tags(p4).tags \ {3}
    BY <1>7
  <2>6. \A x \in {2, 6, 5} : Tags(p5).tags[x] = Tags(p4).tags[x]
    BY <2>3, <2>5, Zenon DEF OneMore
  <2> QED BY <1>7, <2>3, <2>4, <2>6, Zenon DEF OneMore
<1>9. /\ p6 \in Seq(Byte) /\ Len(p6) <= Len(p5) + 3 + Len(lineup)
      /\ Tags(p6).ok /\ DOMAIN Tags(p6).tags = {1, 2, 6, 5, 3, 4}
      /\ Tags(p6).tags[2] = did
      /\ Tags(p6).tags[6] = auth
      /\ Tags(p6).tags[5] = base
      /\ Tags(p6).tags[3] = count
      /\ Tags(p6).tags[4] = lineup
  <2>1. p6 = AppendTlv(p5, 4, lineup)
    BY <1>2, Zenon
  <2>2. OneMore(AppendTlv(p5, 4, lineup), p5, 4, lineup)
    BY <1>1, <1>8, Appending
  <2>3. OneMore(p6, p5, 4, lineup)
    BY <2>1, <2>2, Zenon
  <2>4. DOMAIN Tags(p6).tags = {1, 2, 6, 5, 3, 4}
    BY <1>8, <2>3 DEF OneMore
  <2>5. {2, 6, 5, 3} \subseteq DOMAIN Tags(p5).tags \ {4}
    BY <1>8
  <2>6. \A x \in {2, 6, 5, 3} : Tags(p6).tags[x] = Tags(p5).tags[x]
    BY <2>3, <2>5, Zenon DEF OneMore
  <2> QED BY <1>8, <2>3, <2>4, <2>6, Zenon DEF OneMore
<1>10. Len(p6) <= Len(type) + Len(did) + Len(auth) + Len(base)
                     + Len(count) + Len(lineup) + 18
  <2>1. /\ Len(p1) \in Nat /\ Len(p2) \in Nat /\ Len(p3) \in Nat
        /\ Len(p4) \in Nat /\ Len(p5) \in Nat /\ Len(p6) \in Nat
    <3>1. \A s \in Seq(Byte) : Len(s) \in Nat
      OBVIOUS
    <3> QED BY <1>4, <1>5, <1>6, <1>7, <1>8, <1>9, <3>1, Zenon
  <2>2. /\ Len(type) \in Nat /\ Len(did) \in Nat /\ Len(auth) \in Nat
        /\ Len(base) \in Nat /\ Len(count) \in Nat /\ Len(lineup) \in Nat
    OBVIOUS
  <2>3. Len(<<>>) = 0
    OBVIOUS
  <2> QED BY <1>4, <1>5, <1>6, <1>7, <1>8, <1>9, <2>1, <2>2, <2>3
<1> QED BY <1>2, <1>9, <1>10, Zenon DEF Carries

-----------------------------------------------------------------------------
(* What an app sees of the device. *)

Base(d) == OrDefault(TrimRight(d.base), LocalBase)

LEMMA DeviceType ==
    ASSUME NEW d \in Device
    PROVE  /\ TunerType \in Seq(Byte) /\ Len(TunerType) = Word
           /\ IdWord(Identity(d).id) \in Seq(Byte)
           /\ Len(IdWord(Identity(d).id)) = Word
           /\ Len(d.id) \in {0, Word} =>
                 IdWord(Identity(d).id) = Identity(d).id
           /\ Identity(d).auth \in Seq(Byte)
           /\ Base(d) \in Seq(Byte)
           /\ <<Identity(d).tuners>> \in Seq(Byte)
           /\ Len(<<Identity(d).tuners>>) = 1
           /\ Base(d) \o LineupPath \in Seq(Byte)
           /\ Len(Base(d) \o LineupPath) = Len(Base(d)) + Len(LineupPath)
<1>1. 0 \in Byte /\ 1 \in Byte /\ Word \in Nat
  BY DiscoveryAssumption DEF Byte
<1>2. \A w \in [1..Word -> Byte] : w \in Seq(Byte) /\ Len(w) = Word
  BY <1>1
<1>3. TunerType \in [1..Word -> Byte] /\ Zero \in [1..Word -> Byte]
  BY <1>1 DEF TunerType, Zero
<1>4. /\ d.id \in Seq(Byte) /\ d.auth \in Seq(Byte) /\ d.base \in Seq(Byte)
      /\ LocalBase \in Seq(Byte) /\ LineupPath \in Seq(Byte)
      /\ NoAuth \in Seq(Byte)
      /\ RealisticID \in Seq(Byte) /\ Len(RealisticID) = Word
  BY BytesAssumption
<1>5. /\ Identity(d).id = IF d.id # <<>> THEN d.id ELSE RealisticID
      /\ Identity(d).auth = IF d.auth # <<>> THEN d.auth ELSE NoAuth
      /\ Identity(d).tuners
            = Model[IF d.model \in DOMAIN Model THEN d.model ELSE DefaultModel]
  BY DEF Identity, OrDefault
<1>6. Identity(d).id \in Seq(Byte) /\ Identity(d).auth \in Seq(Byte)
  BY <1>4, <1>5
<1>7. Identity(d).tuners \in Byte
  BY <1>5, BytesAssumption, DiscoveryAssumption
<1>8. /\ IdWord(Identity(d).id) \in Seq(Byte)
      /\ Len(IdWord(Identity(d).id)) = Word
  BY <1>2, <1>3, <1>6 DEF IdWord
<1>9. ASSUME Len(d.id) \in {0, Word} PROVE Len(Identity(d).id) = Word
  <2>1. Len(d.id) = 0 => d.id = <<>>
    BY <1>4
  <2> QED BY <1>4, <1>5, <1>9, <2>1
<1>10. Base(d) \in Seq(Byte)
  BY <1>4, TrimRightType DEF Base, OrDefault
<1>11. /\ Base(d) \o LineupPath \in Seq(Byte)
       /\ Len(Base(d) \o LineupPath) = Len(Base(d)) + Len(LineupPath)
  BY <1>4, <1>10
<1>12. /\ <<Identity(d).tuners>> \in Seq(Byte)
       /\ Len(<<Identity(d).tuners>>) = 1
  BY <1>7
<1>13. Len(d.id) \in {0, Word} => IdWord(Identity(d).id) = Identity(d).id
  BY <1>9 DEF IdWord
<1> QED BY <1>2, <1>3, <1>6, <1>8, <1>10, <1>11, <1>12, <1>13

\* ReplyFits, of what is sent.
LEMMA ReplyLengths ==
    ASSUME NEW d \in Device
    PROVE  /\ Fits(TunerType) /\ Fits(IdWord(Identity(d).id))
           /\ Fits(Identity(d).auth) /\ Fits(Base(d))
           /\ Fits(<<Identity(d).tuners>>) /\ Fits(Base(d) \o LineupPath)
           /\ 2 * Word + 1 + Len(Identity(d).auth) + 2 * Len(Base(d))
                 + Len(LineupPath) + 18 < 4 * Half * Half
<1>1. PICK hh \in Nat : /\ hh = Half * Half /\ Half * (2 * Half) = 2 * hh
                        /\ 2 * Half * Half = 2 * hh /\ 4 * Half * Half = 4 * hh
                        /\ hh > 1
  BY DiscoveryAssumption
<1>2. PICK auth \in {d.auth, NoAuth} : auth = Identity(d).auth
  BY DEF Identity, OrDefault
<1>3. /\ d.base \in Seq(Byte) /\ d.auth \in Seq(Byte) /\ NoAuth \in Seq(Byte)
      /\ LocalBase \in Seq(Byte) /\ LineupPath \in Seq(Byte)
  BY BytesAssumption
<1>4. PICK base \in {d.base, LocalBase} : Len(Base(d)) <= Len(base)
  <2>1. CASE TrimRight(d.base) # <<>>
    BY <1>3, <2>1, TrimRightType DEF Base, OrDefault
  <2>2. CASE TrimRight(d.base) = <<>>
    BY <1>3, <2>2 DEF Base, OrDefault
  <2> QED BY <2>1, <2>2
<1>5. /\ Len(auth) < 2 * hh
      /\ Len(base) + Len(LineupPath) < 2 * hh
      /\ 2 * Word + 1 + Len(auth) + 2 * Len(base) + Len(LineupPath) + 18
            < 4 * hh
  BY <1>1, ReplyFits, Zenon
<1>6. /\ Len(Base(d)) \in Nat /\ Len(auth) \in Nat /\ Len(base) \in Nat
      /\ Len(LineupPath) \in Nat /\ Word \in Nat
  BY <1>3, DeviceType, DiscoveryAssumption
<1>7. /\ Word < 2 * hh /\ 1 < 2 * hh
      /\ Len(auth) < 2 * hh
      /\ Len(Base(d)) < 2 * hh
      /\ Len(Base(d)) + Len(LineupPath) < 2 * hh
      /\ 2 * Word + 1 + Len(auth) + 2 * Len(Base(d)) + Len(LineupPath) + 18
            < 4 * hh
  <2>1. hh \in Nat /\ hh > 1
    BY <1>1
  <2>2. Len(Base(d)) <= Len(base)
    BY <1>4
  <2> QED BY <1>5, <1>6, <2>1, <2>2
<1>8. /\ Len(TunerType) < 2 * hh /\ Len(IdWord(Identity(d).id)) < 2 * hh
      /\ Len(<<Identity(d).tuners>>) < 2 * hh
      /\ Len(Base(d) \o LineupPath) < 2 * hh
  BY <1>7, DeviceType, Zenon
<1> QED BY <1>1, <1>2, <1>7, <1>8, Zenon DEF Fits

LEMMA ReplySays ==
    ASSUME NEW d \in Device,
           NEW r, r = BuildDiscoverReply(Identity(d), Base(d))
    PROVE  /\ r.len = Len(r.payload)
           /\ Tags(r.payload).ok
           /\ Tags(r.payload).tags[TagDeviceID] = IdWord(Identity(d).id)
           /\ Tags(r.payload).tags[TagDeviceAuthStr] = Identity(d).auth
           /\ Tags(r.payload).tags[TagBaseURL] = Base(d)
           /\ Tags(r.payload).tags[TagTunerCount] = <<Identity(d).tuners>>
           /\ Tags(r.payload).tags[TagLineupURL] = Base(d) \o LineupPath
<1> DEFINE did == IdWord(Identity(d).id)
           auth == Identity(d).auth
           base == Base(d)
           count == <<Identity(d).tuners>>
           lineup == base \o LineupPath
<1>1. PICK p :
         /\ p = SixTlvs(TunerType, did, auth, base, count, lineup)
         /\ r.payload = p /\ r.len = Len(p) % (4 * Half * Half)
  BY DEF BuildDiscoverReply, SixTlvs
<1>2. /\ TunerType \in Seq(Byte) /\ did \in Seq(Byte) /\ auth \in Seq(Byte)
      /\ base \in Seq(Byte) /\ count \in Seq(Byte) /\ lineup \in Seq(Byte)
      /\ Len(TunerType) = Word /\ Len(did) = Word /\ Len(count) = 1
      /\ Len(lineup) = Len(base) + Len(LineupPath)
  BY DeviceType, Zenon
<1>3. /\ Fits(TunerType) /\ Fits(did) /\ Fits(auth) /\ Fits(base)
      /\ Fits(count) /\ Fits(lineup)
      /\ 2 * Word + 1 + Len(auth) + 2 * Len(base) + Len(LineupPath) + 18
            < 4 * Half * Half
  <2>1. /\ Fits(TunerType) /\ Fits(did) /\ Fits(auth) /\ Fits(base)
        /\ Fits(count) /\ Fits(lineup)
    BY ReplyLengths, Zenon
  <2>2. 2 * Word + 1 + Len(auth) + 2 * Len(base) + Len(LineupPath) + 18
           < 4 * Half * Half
    BY ReplyLengths, Zenon
  <2> QED BY <2>1, <2>2
<1> HIDE DEF did, auth, base, count, lineup
<1>4. Carries(p, TunerType, did, auth, base, count, lineup)
  <2>1. Carries(SixTlvs(TunerType, did, auth, base, count, lineup),
                TunerType, did, auth, base, count, lineup)
    BY <1>2, <1>3, ReplyRead, Zenon
  <2> QED BY <1>1, <2>1, Zenon
<1>5. Len(p) % (4 * Half * Half) = Len(p)
  <2>1. PICK hh \in Nat : hh = 4 * Half * Half /\ hh > 0
    BY DiscoveryAssumption
  <2>2. /\ Len(p) \in Nat /\ Len(auth) \in Nat /\ Len(base) \in Nat
        /\ Len(LineupPath) \in Nat /\ Word \in Nat
    BY <1>2, <1>4, BytesAssumption, DiscoveryAssumption DEF Carries
  <2>3. Len(p) < hh
    BY <1>2, <1>3, <1>4, <2>1, <2>2 DEF Carries
  <2>4. \A x \in Nat : x < hh => x % hh = x
    BY <2>1
  <2> QED BY <2>1, <2>2, <2>3, <2>4, Zenon
<1> QED BY <1>1, <1>4, <1>5, Zenon
           DEF Carries, did, auth, base, count, lineup

ReplyOK ==
    /\ device \in Device
    /\ reply # NoReply =>
          reply = BuildDiscoverReply(Identity(device), Base(device))

LEMMA ReplyInv == Spec => []ReplyOK
<1>1. Init => ReplyOK
  BY DEF Init, ReplyOK
<1>2. ReplyOK /\ [Next]_vars => ReplyOK'
  <2> SUFFICES ASSUME ReplyOK, [Next]_vars PROVE ReplyOK'
    OBVIOUS
  <2>1. CASE Receive
    BY <2>1, Zenon DEF ReplyOK, Receive
  <2>2. CASE Respond
    BY <2>2, Zenon DEF ReplyOK, Respond, DiscoverReply, Base
  <2>3. CASE Save
    BY <2>3, Zenon DEF ReplyOK, Save
  <2>4. CASE UNCHANGED vars
    BY <2>4, Zenon DEF ReplyOK, vars
  <2> QED BY <2>1, <2>2, <2>3, <2>4 DEF Next
<1> QED BY <1>1, <1>2, PTL DEF Spec

(***************************************************************************)
(* Whatever the config and the sizes of its texts, as long as the reply    *)
(* fits: an app reads from the binary reply the device that discover.json  *)
(* gives it, all six TLVs of the reply (hdhr_discovery.go:102-121,         *)
(* hdhr_endpoints.go, getDeviceConfig).                                    *)
(***************************************************************************)
THEOREM OneDevice == Spec => []SameDevice
<1>1. ReplyOK => SameDevice
  <2> SUFFICES ASSUME ReplyOK, reply # NoReply,
                      TrimRight(device.base) = <<>> => device.base = <<>>
               PROVE  LET read == Tags(reply.payload)
                          json == DiscoverJSON(device, read.tags[TagBaseURL])
                      IN  /\ reply.len = Len(reply.payload)
                          /\ read.ok
                          /\ read.tags[TagBaseURL] = json.BaseURL
                          /\ read.tags[TagLineupURL] = json.LineupURL
                          /\ read.tags[TagDeviceAuthStr] = json.DeviceAuth
                          /\ read.tags[TagTunerCount] = <<json.TunerCount>>
                          /\ Len(device.id) \in {0, Word} =>
                                read.tags[TagDeviceID] = json.DeviceID
    BY Zenon DEF SameDevice
  <2>1. device \in Device
    BY DEF ReplyOK
  <2>2. reply = BuildDiscoverReply(Identity(device), Base(device))
    BY DEF ReplyOK
  <2> DEFINE read == Tags(reply.payload)
             json == DiscoverJSON(device, read.tags[TagBaseURL])
  <2>3. /\ reply.len = Len(reply.payload)
        /\ read.ok
        /\ read.tags[TagDeviceID] = IdWord(Identity(device).id)
        /\ read.tags[TagDeviceAuthStr] = Identity(device).auth
        /\ read.tags[TagBaseURL] = Base(device)
        /\ read.tags[TagTunerCount] = <<Identity(device).tuners>>
        /\ read.tags[TagLineupURL] = Base(device) \o LineupPath
    BY <2>1, <2>2, ReplySays, Zenon
  <2> HIDE DEF read
  <2>4. /\ json.BaseURL = Base(device)
        /\ json.LineupURL = Base(device) \o LineupPath
        /\ json.DeviceAuth = Identity(device).auth
        /\ json.TunerCount = Identity(device).tuners
        /\ json.DeviceID = Identity(device).id
    <3>1. Base(device) = IF device.base # <<>> THEN TrimRight(device.base)
                         ELSE read.tags[TagBaseURL]
      <4>1. CASE device.base # <<>>
        BY <4>1, Zenon DEF Base, OrDefault
      <4>2. CASE device.base = <<>>
        BY <2>3, <4>2, Zenon
      <4> QED BY <4>1, <4>2
    <3> QED BY <3>1 DEF DiscoverJSON
  <2>5. Len(device.id) \in {0, Word} =>
           IdWord(Identity(device).id) = Identity(device).id
    BY <2>1, DeviceType, Zenon
  <2> QED BY <2>3, <2>4, <2>5, Zenon DEF read
<1> QED BY <1>1, ReplyInv, PTL
==============================================================================
