-------------------------- MODULE EchoSessionProof ---------------------------
(***************************************************************************)
(* What the codec does to an int, a string and a packet, for every width   *)
(* of an int, and what EchoSession keeps for every set of packets and any  *)
(* number of them.                                                         *)
(***************************************************************************)
EXTENDS EchoSession, LoopLemmas, SequenceTheorems

-----------------------------------------------------------------------------
(* Integers.                                                               *)

\* The loop that defines Weight has a value for every length.
LEMMA WeightDef ==
  /\ Weight[0] = 1
  /\ \A k \in Nat : Weight[k] \in Nat \ {0} /\ Weight[k + 1] = 256 * Weight[k]
<1> DEFINE V == Nat
           base == 1
           step == [k \in Nat |-> [w \in V |-> 256 * w]]
<1>1. step \in [Nat -> [V -> V]] /\ base \in V
  OBVIOUS
<1>2. PICK f \in [Nat -> V] : f[0] = base /\ \A n \in Nat : f[n + 1] = step[n + 1][f[n]]
  <2> HIDE DEF V, base, step
  <2> QED BY <1>1, LoopExists, SMTT(30)
<1>3. f = [k \in Nat |-> IF k = 0 THEN 1 ELSE 256 * f[k - 1]]
  <2>1. ASSUME NEW k \in Nat, k # 0 PROVE f[k] = 256 * f[k - 1]
    <3>1. k - 1 \in Nat /\ (k - 1) + 1 = k
      BY <2>1
    <3> QED BY <3>1, <1>2, ZenonT(30)
  <2> QED BY <2>1, <1>2
<1>4. Weight = [k \in Nat |-> IF k = 0 THEN 1 ELSE 256 * Weight[k - 1]]
  BY <1>3 DEF Weight
<1>5. Weight[0] = 1 /\ \A k \in Nat : Weight[k + 1] = 256 * Weight[k]
  BY <1>4
<1> DEFINE U == {k \in Nat : Weight[k] \in Nat \ {0}}
<1>6. 0 \in U /\ \A k \in Nat : k \in U => k + 1 \in U
  BY <1>5
<1>7. Nat \subseteq U
  <2> HIDE DEF U
  <2> QED BY <1>6, Induction
<1> QED BY <1>5, <1>7

\* A longer number holds more.
LEMMA WeightGrows ==
  ASSUME NEW j \in Nat, NEW k \in Nat, j <= k
  PROVE  Weight[j] <= Weight[k]
<1> DEFINE U == {d \in Nat : Weight[j] <= Weight[j + d]}
<1>1. 0 \in U
  BY WeightDef
<1>2. ASSUME NEW d \in Nat, d \in U PROVE d + 1 \in U
  <2>1. j + d \in Nat /\ (j + d) + 1 = j + (d + 1)
    OBVIOUS
  <2>2. Weight[(j + d) + 1] = 256 * Weight[j + d]
    BY <2>1, WeightDef
  <2> QED BY <1>2, <2>1, <2>2, WeightDef
<1>3. Nat \subseteq U
  <2> HIDE DEF U
  <2> QED BY <1>1, <1>2, Induction
<1>4. k - j \in Nat /\ j + (k - j) = k
  OBVIOUS
<1> QED BY <1>3, <1>4

\* Half of what k bytes can hold, and twice it; more bytes hold more.
LEMMA HalfFacts ==
  ASSUME NEW k \in Nat
  PROVE  /\ Half(k) \in Nat
         /\ k > 0 => Half(k) >= 128 /\ Weight[k] = 2 * Half(k)
         /\ k = 0 => Half(k) = 0
         /\ \A j \in Nat : j <= k => Half(j) <= Half(k)
         /\ \A j \in Nat : j < k => Weight[j] <= Half(k)
<1>1. Weight[k] \in Nat \ {0} /\ Half(k) \in Nat
  BY WeightDef DEF Half
<1>2. ASSUME k > 0
      PROVE  k - 1 \in Nat /\ Weight[k - 1] \in Nat \ {0} /\ Weight[k] = 256 * Weight[k - 1]
  <2>1. k - 1 \in Nat /\ (k - 1) + 1 = k
    BY <1>2
  <2> QED BY <2>1, WeightDef
<1>3. k > 0 => Half(k) = 128 * Weight[k - 1]
  BY <1>1, <1>2 DEF Half
<1>4. k = 0 => Half(k) = 0
  BY WeightDef DEF Half
<1>5. ASSUME NEW j \in Nat, j <= k PROVE Half(j) <= Half(k)
  BY <1>1, <1>5, WeightDef, WeightGrows DEF Half
<1>6. ASSUME NEW j \in Nat, j < k PROVE Weight[j] <= Half(k)
  <2>1. Weight[j] <= Weight[k - 1] /\ Weight[j] \in Nat
    BY <1>2, <1>6, WeightGrows, WeightDef
  <2> QED BY <1>2, <1>3, <1>6, <2>1
<1> QED BY <1>1, <1>2, <1>3, <1>4, <1>5, <1>6

\* An int has a shortest DER form, within its width.
LEMMA DerLengthLeast ==
  ASSUME NEW n \in Int, Fits(n, Width)
  PROVE  /\ DerLength(n) \in 1..Width /\ Fits(n, DerLength(n))
         /\ \A j \in 1..(DerLength(n) - 1) : ~Fits(n, j)
<1> DEFINE T == {k \in 1..Width : Fits(n, k)}
<1>1. Width \in T /\ T \subseteq Nat
  BY WidthAssumption
<1>2. PICK m \in T : \A k \in T : m <= k
  BY <1>1, LeastNatural
<1>3. m \in 1..Width /\ \A j \in 1..(m - 1) : ~Fits(n, j)
  BY <1>2, WidthAssumption
<1> QED BY <1>2, <1>3 DEF DerLength

\* A loop over bytes that computes the values v ends with the last of them.
LEMMA ByteLoop ==
  ASSUME NEW bytes, NEW v, NEW k \in Nat, Len(bytes) = k, v[0] = 0,
         \A i \in 1..k : v[i] = 256 * v[i - 1] + bytes[i]
  PROVE  BytesToInt(bytes) = Wrapped(v[k])
<1> DEFINE Loop(r) ==
      r = [index \in 0..k |-> IF index = 0 THEN 0 ELSE 256 * r[index - 1] + bytes[index]]
<1>1. Loop([i \in 0..k |-> v[i]])
  OBVIOUS
<1> DEFINE result == CHOOSE r : Loop(r)
<1>2. Loop(result)
  BY <1>1
<1>3. BytesToInt(bytes) = Wrapped(result[k])
  BY DEF BytesToInt
<1> HIDE DEF result
<1> DEFINE U == {i \in Nat : i <= k => result[i] = v[i]}
<1>4. 0 \in U
  BY <1>2
<1>5. ASSUME NEW i \in Nat, i \in U PROVE i + 1 \in U
  <2>1. SUFFICES ASSUME i + 1 <= k PROVE result[i + 1] = v[i + 1]
    OBVIOUS
  <2>2. i + 1 \in 1..k /\ (i + 1) - 1 = i
    BY <2>1
  <2>3. result[i + 1] = 256 * result[i] + bytes[i + 1]
    BY <1>2, <2>2
  <2> QED BY <1>5, <2>1, <2>2, <2>3
<1>6. Nat \subseteq U
  <2> HIDE DEF U
  <2> QED BY <1>4, <1>5, Induction
<1> QED BY <1>3, <1>6

\* The divisions by powers of 256 that DerInteger makes: by one more, by the first and
\* by the last.  (Named, so that the provers take them as they are.)
Quotient(n, w) == n \div w
Octet(n, w) == (n \div w) % 256

LEMMA Divisions ==
  ASSUME NEW n \in Int, NEW w \in Nat \ {0}
  PROVE  /\ Quotient(n, w) \in Int /\ Octet(n, w) \in Int
         /\ Quotient(n, w) = 256 * Quotient(n, 256 * w) + Octet(n, w)
         /\ Quotient(n, 1) = n
<1>1. n \div w \in Int
  OBVIOUS
<1>2. n \div (256 * w) = (n \div w) \div 256
  OBVIOUS
<1>3. \A m \in Int : m = 256 * (m \div 256) + (m % 256) /\ m % 256 \in Int
  OBVIOUS
<1>4. n \div 1 = n
  OBVIOUS
<1> QED BY <1>1, <1>2, <1>3, <1>4 DEF Quotient, Octet

\* The first of them finds only the sign.
LEMMA FirstDivision ==
  ASSUME NEW n \in Int, NEW w \in Nat \ {0}
  PROVE  /\ 0 <= n /\ n < w => Quotient(n, w) = 0
         /\ n < 0 /\ -w <= n => Quotient(n, w) = -1
<1>1. 0 <= n /\ n < w => n \div w = 0
  OBVIOUS
<1>2. n < 0 /\ -w <= n => n \div w = -1
  OBVIOUS
<1> QED BY <1>1, <1>2 DEF Quotient

\* What the octets of an int are read as: the int itself, or, of a negative one, the
\* number with the same octets that is not negative.
LEMMA OctetsAreRead ==
  ASSUME NEW n \in Int, NEW k \in Nat \ {0}, Fits(n, k),
         NEW bytes, Len(bytes) = k,
         \A i \in 1..k : bytes[i] = Octet(n, Weight[k - i])
  PROVE  BytesToInt(bytes) = Wrapped(IF n < 0 THEN n + Weight[k] ELSE n)
<1> DEFINE D == [i \in 0..k |-> Quotient(n, Weight[k - i])]
           v == [i \in 0..k |-> IF n < 0 THEN D[i] + Weight[i] ELSE D[i]]
<1>0. k \in Nat /\ k > 0
  OBVIOUS
<1>1. Half(k) \in Nat /\ Weight[k] = 2 * Half(k) /\ Weight[k] \in Nat \ {0}
  BY <1>0, HalfFacts, WeightDef
<1>2. (n < 0 => D[0] = -1) /\ (n >= 0 => D[0] = 0)
  <2>1. D[0] = Quotient(n, Weight[k])
    OBVIOUS
  <2>2. -Weight[k] <= n /\ n < Weight[k]
    BY <1>1 DEF Fits
  <2>3. /\ 0 <= n /\ n < Weight[k] => Quotient(n, Weight[k]) = 0
        /\ n < 0 /\ -Weight[k] <= n => Quotient(n, Weight[k]) = -1
    BY <1>1, FirstDivision
  <2> HIDE DEF D
  <2> QED BY <1>1, <2>1, <2>2, <2>3
<1>3. D[k] = n
  <2>1. D[k] = Quotient(n, Weight[0])
    OBVIOUS
  <2> HIDE DEF D
  <2> QED BY <2>1, WeightDef, Divisions
<1>4. ASSUME NEW i \in 1..k
      PROVE  /\ D[i] \in Int /\ D[i - 1] \in Int
             /\ D[i] = 256 * D[i - 1] + bytes[i] /\ bytes[i] \in Int
  <2> DEFINE w == Weight[k - i]
  <2>1. k - i \in Nat /\ (k - i) + 1 = k - (i - 1) /\ i \in 0..k /\ i - 1 \in 0..k
    OBVIOUS
  <2>2. w \in Nat \ {0} /\ Weight[k - (i - 1)] = 256 * w
    BY <2>1, WeightDef, ZenonT(30)
  <2>3. D[i] = Quotient(n, w) /\ D[i - 1] = Quotient(n, 256 * w) /\ bytes[i] = Octet(n, w)
    BY <2>1, <2>2
  <2> HIDE DEF w, D
  <2>4. 256 * w \in Nat \ {0}
    BY <2>2
  <2>5. Quotient(n, 256 * w) \in Int
    BY <2>4, Divisions
  <2> QED BY <2>2, <2>3, <2>5, Divisions
<1>5. \A i \in 0..k : (n < 0 => v[i] = D[i] + Weight[i]) /\ (n >= 0 => v[i] = D[i])
  OBVIOUS
<1> HIDE DEF v, D
<1>6. v[0] = 0
  <2>1. 0 \in 0..k
    BY <1>0
  <2>2. CASE n < 0
    <3>1. v[0] = D[0] + Weight[0] /\ D[0] = -1
      BY <1>2, <1>5, <2>1, <2>2
    <3>2. Weight[0] = 1
      BY WeightDef
    <3> QED BY <3>1, <3>2
  <2>3. CASE n >= 0
    BY <1>2, <1>5, <2>1, <2>3
  <2> QED BY <2>2, <2>3
<1>7. ASSUME NEW i \in 1..k PROVE v[i] = 256 * v[i - 1] + bytes[i]
  <2>1. i - 1 \in Nat /\ (i - 1) + 1 = i /\ i \in 0..k /\ i - 1 \in 0..k
    OBVIOUS
  <2>2. Weight[i - 1] \in Nat /\ Weight[i] = 256 * Weight[i - 1]
    BY <2>1, WeightDef, ZenonT(30)
  <2>3. CASE n < 0
    <3>1. v[i] = D[i] + Weight[i] /\ v[i - 1] = D[i - 1] + Weight[i - 1]
      BY <1>5, <2>1, <2>3
    <3> QED BY <1>4, <2>2, <3>1, SMTT(30)
  <2>4. CASE n >= 0
    <3>1. v[i] = D[i] /\ v[i - 1] = D[i - 1]
      BY <1>5, <2>1, <2>4
    <3> QED BY <1>4, <3>1
  <2> QED BY <2>3, <2>4
<1>8. BytesToInt(bytes) = Wrapped(v[k])
  BY <1>0, <1>6, <1>7, ByteLoop, SMTT(30)
<1>9. /\ k \in 0..k
      /\ n < 0 => v[k] = n + Weight[k]
      /\ n >= 0 => v[k] = n
  BY <1>0, <1>3, <1>5
<1>10. CASE n < 0
  BY <1>8, <1>9, <1>10
<1>11. CASE n >= 0
  BY <1>8, <1>9, <1>11
<1> QED BY <1>10, <1>11

\* An int in its DER form is read the same way.
LEMMA DerIsRead ==
  ASSUME NEW n \in Int, Fits(n, Width)
  PROVE  BytesToInt(DerInteger(n)) =
           Wrapped(IF n < 0 THEN n + Weight[DerLength(n)] ELSE n)
<1> DEFINE k == DerLength(n)
<1>1. k \in Nat \ {0} /\ Fits(n, k)
  BY DerLengthLeast, WidthAssumption
<1>2. /\ Len(DerInteger(n)) = k
      /\ \A i \in 1..k : DerInteger(n)[i] = Octet(n, Weight[k - i])
  BY <1>1 DEF DerInteger, Octet
<1> HIDE DEF k
<1>3. BytesToInt(DerInteger(n)) = Wrapped(IF n < 0 THEN n + Weight[k] ELSE n)
  BY <1>1, <1>2, OctetsAreRead
<1> QED BY <1>3 DEF k

\* Which ints the codec preserves, and what it makes of the others: ints it preserves,
\* and never the one that stands for "no packet".
LEMMA IntTrip ==
  ASSUME NEW n \in Int, Fits(n, Width), NEW m, m = BytesToInt(DerInteger(n))
  PROVE  /\ m \in Int /\ Fits(m, Width)
         /\ m = n <=> PreservedInt(n)
         /\ BytesToInt(DerInteger(m)) = m
         /\ m = -1 => n = -1
<1> DEFINE k == DerLength(n)
<1>1. /\ k \in 1..Width /\ Width \in Nat \ {0}
      /\ Fits(n, k) /\ \A j \in 1..(k - 1) : ~Fits(n, j)
  BY DerLengthLeast, WidthAssumption
<1>2. m = Wrapped(IF n < 0 THEN n + Weight[k] ELSE n)
  BY DerIsRead
<1> HIDE DEF k
<1>3. /\ Half(k) \in Nat /\ Half(k) >= 128 /\ Weight[k] = 2 * Half(k)
      /\ Half(Width) \in Nat /\ Half(Width) >= 128
      /\ Half(k) <= Half(Width) /\ (k < Width => Weight[k] <= Half(Width))
  <2>1. k \in Nat /\ k > 0 /\ Width \in Nat /\ Width > 0 /\ k <= Width
    BY <1>1
  <2> QED BY <2>1, HalfFacts
<1>4. CASE n >= 0
  <2>1. m = n /\ PreservedInt(n)
    BY <1>1, <1>2, <1>3, <1>4 DEF Fits, Wrapped, PreservedInt
  <2> QED BY <2>1
<1>5. CASE n < 0 /\ k = Width
  <2>1. m = n
    BY <1>1, <1>2, <1>3, <1>5 DEF Fits, Wrapped
  <2>2. ~Fits(n, Width - 1)
    <3>1. CASE Width = 1
      <4>1. Half(0) = 0
        BY HalfFacts
      <4> QED BY <1>5, <3>1, <4>1 DEF Fits
    <3>2. CASE Width # 1
      BY <1>1, <1>5, <3>2
    <3> QED BY <3>1, <3>2
  <2> QED BY <2>1, <2>2 DEF PreservedInt
<1>6. CASE n < 0 /\ k < Width
  <2>1. m = n + Weight[k] /\ m \in Int /\ m > 0 /\ Fits(m, Width)
    BY <1>1, <1>2, <1>3, <1>6 DEF Fits, Wrapped
  <2>2. Fits(n, Width - 1)
    <3>1. Width - 1 \in Nat /\ k \in Nat /\ k <= Width - 1
      BY <1>1, <1>6
    <3>2. Half(k) <= Half(Width - 1) /\ Half(Width - 1) \in Nat
      BY <3>1, HalfFacts
    <3> QED BY <1>1, <1>3, <3>2 DEF Fits
  <2>3. ~PreservedInt(n) /\ m # n
    BY <1>6, <2>1, <2>2 DEF PreservedInt
  <2>4. BytesToInt(DerInteger(m)) = Wrapped(m)
    BY <2>1, DerIsRead
  <2>5. Wrapped(m) = m
    BY <1>3, <2>1 DEF Wrapped, Fits
  <2> QED BY <2>1, <2>3, <2>4, <2>5
<1> QED BY <1>1, <1>4, <1>5, <1>6

-----------------------------------------------------------------------------
(* Strings, fields and packets.                                            *)

\* Up to its first NUL, a string is what the codec preserves of it.
LEMMA StringTrip ==
  ASSUME NEW string \in Seq(0..255)
  PROVE  /\ CString(string) \in Seq(0..255)
         /\ CString(string) = string <=> PreservedString(string)
         /\ PreservedString(CString(string))
<1> DEFINE nuls == {i \in DOMAIN string : string[i] = 0}
<1>1. CASE nuls = {}
  <2>1. CString(string) = string
    BY <1>1 DEF CString
  <2>2. PreservedString(string)
    BY <1>1 DEF PreservedString
  <2> QED BY <2>1, <2>2
<1>2. CASE nuls # {}
  <2>1. nuls \subseteq Nat /\ DOMAIN string = 1..Len(string) /\ Len(string) \in Nat
    OBVIOUS
  <2>2. PICK first \in nuls : \A i \in nuls : first <= i
    <3> HIDE DEF nuls
    <3> QED BY <1>2, <2>1, LeastNatural
  <2>3. Min(nuls) = first
    <3>1. \A m \in nuls : (\A i \in nuls : m =< i) => m = first
      BY <2>1, <2>2
    <3> HIDE DEF nuls
    <3> QED BY <2>2, <3>1 DEF Min
  <2>4. CString(string) = SubSeq(string, 1, first - 1)
    BY <1>2, <2>3 DEF CString
  <2>5. /\ first \in 1..Len(string) /\ string[first] = 0
        /\ \A i \in 1..(first - 1) : string[i] # 0
    BY <2>1, <2>2
  <2> HIDE DEF nuls
  <2>6. /\ SubSeq(string, 1, first - 1) \in Seq(0..255)
        /\ Len(SubSeq(string, 1, first - 1)) = first - 1
        /\ DOMAIN SubSeq(string, 1, first - 1) = 1..(first - 1)
        /\ \A i \in 1..(first - 1) : SubSeq(string, 1, first - 1)[i] = string[i]
    BY <2>1, <2>5
  <2>7. CString(string) # string
    BY <2>1, <2>4, <2>5, <2>6
  <2>8. ~PreservedString(string)
    BY <2>1, <2>5 DEF PreservedString
  <2>9. PreservedString(CString(string))
    BY <2>4, <2>5, <2>6 DEF PreservedString
  <2> QED BY <2>4, <2>6, <2>7, <2>8, <2>9
<1> QED BY <1>1, <1>2

\* What a field is after it has been encoded and decoded.
TripField(kind, value) == DecodeField(kind, EncodeField(kind, value))

HasKind(kind, value) ==
  /\ kind = "int" => value \in Int /\ Fits(value, Width)
  /\ kind = "string" => value \in Seq(0..255)
PreservedField(kind, value) ==
  /\ kind = "int" => PreservedInt(value)
  /\ kind = "string" => PreservedString(value)

LEMMA FieldTrip ==
  ASSUME NEW kind, NEW value, HasKind(kind, value)
  PROVE  /\ HasKind(kind, TripField(kind, value))
         /\ TripField(kind, value) = value <=> PreservedField(kind, value)
         /\ TripField(kind, TripField(kind, value)) = TripField(kind, value)
<1>1. CASE kind = "int"
  <2>1. \A n : TripField(kind, n) = BytesToInt(DerInteger(n))
    BY <1>1 DEF TripField, DecodeField, EncodeField
  <2>2. value \in Int /\ Fits(value, Width)
    BY <1>1 DEF HasKind
  <2>3. /\ BytesToInt(DerInteger(value)) \in Int /\ Fits(BytesToInt(DerInteger(value)), Width)
        /\ BytesToInt(DerInteger(value)) = value <=> PreservedInt(value)
        /\ BytesToInt(DerInteger(BytesToInt(DerInteger(value)))) = BytesToInt(DerInteger(value))
    BY <2>2, IntTrip
  <2> QED BY <1>1, <2>1, <2>3 DEF HasKind, PreservedField
<1>2. CASE kind = "string"
  <2>1. \A s : TripField(kind, s) = CString(s)
    BY <1>2 DEF TripField, DecodeField, EncodeField
  <2>2. value \in Seq(0..255)
    BY <1>2 DEF HasKind
  <2>3. /\ CString(value) \in Seq(0..255) /\ PreservedString(CString(value))
        /\ CString(value) = value <=> PreservedString(value)
    BY <2>2, StringTrip
  <2>4. CString(CString(value)) = CString(value)
    BY <2>3, StringTrip
  <2> QED BY <1>2, <2>1, <2>3, <2>4 DEF HasKind, PreservedField
<1>3. CASE kind # "int" /\ kind # "string"
  <2>1. \A v : TripField(kind, v) = v
    BY <1>3 DEF TripField, DecodeField, EncodeField
  <2> QED BY <1>3, <2>1 DEF HasKind, PreservedField
<1> QED BY <1>1, <1>2, <1>3

\* The decoder reads the fields the encoder writes.
LEMMA ReadIsWritten == Read = Written
BY DEF Read, Written

\* What a packet is after it has been encoded and decoded.
Trip(packet) == Decode(Encode(packet, packet.id))

LEMMA TripIs ==
  ASSUME NEW packet
  PROVE  Trip(packet) =
           [id |-> BytesToInt(DerInteger(packet.id)), type |-> packet.type,
            fields |-> [f \in DOMAIN Written[packet.type] |->
                          TripField(Written[packet.type][f], packet.fields[f])]]
<1> DEFINE names == DOMAIN Written[packet.type]
           written == [f \in names |-> EncodeField(Written[packet.type][f], packet.fields[f])]
<1>1. Encode(packet, packet.id) =
        [id |-> DerInteger(packet.id), type |-> packet.type, fields |-> written]
  BY DEF Encode
<1>2. Decode(Encode(packet, packet.id)) =
        [id |-> BytesToInt(DerInteger(packet.id)), type |-> packet.type,
         fields |-> [f \in names |-> DecodeField(Written[packet.type][f], written[f])]]
  BY <1>1, ReadIsWritten DEF Decode
<1>3. \A f \in names :
        DecodeField(Written[packet.type][f], written[f]) =
        TripField(Written[packet.type][f], packet.fields[f])
  BY DEF TripField
<1> QED BY <1>2, <1>3 DEF Trip

\* The trip of a packet: another packet of its type, the same one if and only if the
\* codec preserves it, and one that a second trip leaves alone.
LEMMA PacketTrip ==
  ASSUME NEW packet, IsPacket(packet)
  PROVE  /\ IsPacket(Trip(packet)) /\ Trip(packet).type = packet.type
         /\ Trip(packet) = packet <=> Preserved(packet)
         /\ Trip(Trip(packet)) = Trip(packet)
         /\ PreservedInt(packet.id) => Trip(packet).id = packet.id
         /\ packet.id # -1 => Trip(packet).id # -1
<1> DEFINE type == packet.type
           names == DOMAIN Written[type]
           id == BytesToInt(DerInteger(packet.id))
           fields == [f \in names |-> TripField(Written[type][f], packet.fields[f])]
           trip == [id |-> id, type |-> type, fields |-> fields]
<1>1. Trip(packet) = trip
  BY TripIs
<1>2. /\ packet = [id |-> packet.id, type |-> type, fields |-> packet.fields]
      /\ type \in DOMAIN Written
      /\ packet.fields = [f \in names |-> packet.fields[f]]
      /\ packet.id \in Int /\ Fits(packet.id, Width)
  BY DEF IsPacket
<1>3. \A f \in names : HasKind(Written[type][f], packet.fields[f])
  BY DEF IsPacket, HasKind
<1>4. /\ id \in Int /\ Fits(id, Width)
      /\ id = packet.id <=> PreservedInt(packet.id)
      /\ BytesToInt(DerInteger(id)) = id /\ (id = -1 => packet.id = -1)
  BY <1>2, IntTrip
<1>5. trip.id = id /\ trip.type = type /\ trip.fields = fields
  OBVIOUS
<1> HIDE DEF type, id
<1>6. ASSUME NEW f \in names
      PROVE  /\ HasKind(Written[type][f], fields[f])
             /\ fields[f] = packet.fields[f] <=> PreservedField(Written[type][f], packet.fields[f])
             /\ TripField(Written[type][f], fields[f]) = fields[f]
  BY <1>3, FieldTrip
<1>7. Trip(trip) = trip
  <2>1. Trip(trip) =
          [id |-> BytesToInt(DerInteger(id)), type |-> type,
           fields |-> [f \in names |-> TripField(Written[type][f], fields[f])]]
    BY TripIs
  <2>2. [f \in names |-> TripField(Written[type][f], fields[f])] = fields
    <3>1. \A f \in names : TripField(Written[type][f], fields[f]) = fields[f]
      BY <1>6
    <3>2. fields = [f \in names |-> fields[f]]
      OBVIOUS
    <3> HIDE DEF fields, names
    <3> QED BY <3>1, <3>2
  <2> HIDE DEF fields
  <2> QED BY <1>4, <2>1, <2>2
<1>8. fields = packet.fields <=>
        \A f \in names : PreservedField(Written[type][f], packet.fields[f])
  <2>1. fields = packet.fields <=> \A f \in names : fields[f] = packet.fields[f]
    <3>1. fields = [f \in names |-> fields[f]]
      OBVIOUS
    <3> HIDE DEF fields, names
    <3> QED BY <1>2, <3>1
  <2> HIDE DEF fields, names
  <2> QED BY <1>6, <2>1
<1>9. trip = packet <=> Preserved(packet)
  <2>1. DOMAIN packet.fields = names
    BY <1>2
  <2>2. Preserved(packet) <=>
          /\ PreservedInt(packet.id)
          /\ \A f \in names : PreservedField(Written[type][f], packet.fields[f])
    BY <2>1 DEF Preserved, PreservedField, type
  <2>3. trip = packet <=> id = packet.id /\ fields = packet.fields
    <3> HIDE DEF fields, names
    <3> QED BY <1>2
  <2> HIDE DEF fields, trip
  <2> QED BY <1>4, <1>8, <2>2, <2>3
<1>10. IsPacket(trip)
  <2>1. fields = [f \in names |-> fields[f]]
    OBVIOUS
  <2>2. trip = [id |-> trip.id, type |-> trip.type, fields |-> trip.fields]
    BY <1>5
  <2> HIDE DEF fields, trip
  <2> QED BY <1>2, <1>4, <1>5, <1>6, <2>1, <2>2, ZenonT(30) DEF IsPacket, HasKind
<1> HIDE DEF trip
<1> QED BY <1>1, <1>4, <1>5, <1>7, <1>9, <1>10 DEF type

\* The encoder and the schema agree on every type.
LEMMA AllFitSchema ==
  ASSUME NEW type \in DOMAIN Written
  PROVE  FitsSchema(type)
<1>1. /\ Asn1Type("int") = "INTEGER" /\ Asn1Type("strings") = "SEQUENCE OF"
      /\ Asn1Type("string") = "OCTET STRING" /\ Asn1Type("bytes") = "OCTET STRING"
      /\ Asn1Type("table") = "OCTET STRING"
  BY DEF Asn1Type
<1>2. FitsSchema("standard")
  <2> DEFINE w == Written["standard"]
             s == Schema["standard"]
  <2>1. DOMAIN s = {"payload"} /\ DOMAIN w = DOMAIN s
    BY DEF Written, Schema
  <2>2. w["payload"] = "string" /\ s["payload"] = "OCTET STRING"
    BY DEF Written, Schema
  <2> QED BY <1>1, <2>1, <2>2 DEF FitsSchema
<1>3. FitsSchema("file")
  <2> DEFINE w == Written["file"]
             s == Schema["file"]
  <2>1. DOMAIN s = {"filePath", "start", "end", "payload"} /\ DOMAIN w = DOMAIN s
    BY DEF Written, Schema
  <2>2. /\ w["filePath"] = "string" /\ s["filePath"] = "OCTET STRING"
        /\ w["start"] = "int" /\ s["start"] = "INTEGER"
        /\ w["end"] = "int" /\ s["end"] = "INTEGER"
        /\ w["payload"] = "table" /\ s["payload"] = "OCTET STRING"
    BY DEF Written, Schema
  <2> QED BY <1>1, <2>1, <2>2 DEF FitsSchema
<1>4. FitsSchema("viewportRequest")
  <2> DEFINE w == Written["viewportRequest"]
             s == Schema["viewportRequest"]
  <2>1. DOMAIN s = {"xStart", "xEnd", "yStart", "yEnd"} /\ DOMAIN w = DOMAIN s
    BY DEF Written, Schema
  <2>2. /\ w["xStart"] = "int" /\ s["xStart"] = "INTEGER"
        /\ w["xEnd"] = "int" /\ s["xEnd"] = "INTEGER"
        /\ w["yStart"] = "int" /\ s["yStart"] = "INTEGER"
        /\ w["yEnd"] = "int" /\ s["yEnd"] = "INTEGER"
    BY DEF Written, Schema
  <2> QED BY <1>1, <2>1, <2>2 DEF FitsSchema
<1>5. FitsSchema("viewport")
  <2> DEFINE w == Written["viewport"]
             s == Schema["viewport"]
  <2>1. DOMAIN s = {"xStart", "xEnd", "yStart", "yEnd", "payload"} /\ DOMAIN w = DOMAIN s
    BY DEF Written, Schema
  <2>2. /\ w["xStart"] = "int" /\ s["xStart"] = "INTEGER"
        /\ w["xEnd"] = "int" /\ s["xEnd"] = "INTEGER"
        /\ w["yStart"] = "int" /\ s["yStart"] = "INTEGER"
        /\ w["yEnd"] = "int" /\ s["yEnd"] = "INTEGER"
        /\ w["payload"] = "table" /\ s["payload"] = "OCTET STRING"
    BY DEF Written, Schema
  <2> QED BY <1>1, <2>1, <2>2 DEF FitsSchema
<1>6. FitsSchema("tqlQuery")
  <2> DEFINE w == Written["tqlQuery"]
             s == Schema["tqlQuery"]
  <2>1. DOMAIN s = {"query"} /\ DOMAIN w = DOMAIN s
    BY DEF Written, Schema
  <2>2. w["query"] = "string" /\ s["query"] = "OCTET STRING"
    BY DEF Written, Schema
  <2> QED BY <1>1, <2>1, <2>2 DEF FitsSchema
<1>7. FitsSchema("error")
  <2> DEFINE w == Written["error"]
             s == Schema["error"]
  <2>1. DOMAIN s = {"code", "message"} /\ DOMAIN w = DOMAIN s
    BY DEF Written, Schema
  <2>2. /\ w["code"] = "int" /\ s["code"] = "INTEGER"
        /\ w["message"] = "string" /\ s["message"] = "OCTET STRING"
    BY DEF Written, Schema
  <2> QED BY <1>1, <2>1, <2>2 DEF FitsSchema
<1>8. FitsSchema("universal")
  <2> DEFINE w == Written["universal"]
             s == Schema["universal"]
  <2>1. DOMAIN s = {"type", "bytes"} /\ DOMAIN w = DOMAIN s
    BY DEF Written, Schema
  <2>2. /\ w["type"] = "int" /\ s["type"] = "INTEGER"
        /\ w["bytes"] = "bytes" /\ s["bytes"] = "OCTET STRING"
    BY DEF Written, Schema
  <2> QED BY <1>1, <2>1, <2>2 DEF FitsSchema
<1>9. FitsSchema("ls")
  <2> DEFINE w == Written["ls"]
             s == Schema["ls"]
  <2>1. DOMAIN s = {"directory"} /\ DOMAIN w = DOMAIN s
    BY DEF Written, Schema
  <2>2. w["directory"] = "string" /\ s["directory"] = "OCTET STRING"
    BY DEF Written, Schema
  <2> QED BY <1>1, <2>1, <2>2 DEF FitsSchema
<1>10. FitsSchema("lsSolution")
  <2> DEFINE w == Written["lsSolution"]
             s == Schema["lsSolution"]
  <2>1. DOMAIN s = {"directoryItems"} /\ DOMAIN w = DOMAIN s
    BY DEF Written, Schema
  <2>2. w["directoryItems"] = "strings" /\ s["directoryItems"] = "SEQUENCE OF"
    BY DEF Written, Schema
  <2> QED BY <1>1, <2>1, <2>2 DEF FitsSchema
<1>11. type \in {"standard", "file", "viewportRequest", "viewport", "tqlQuery", "error",
                 "universal", "ls", "lsSolution"}
  BY DEF Written
<1> QED BY <1>2, <1>3, <1>4, <1>5, <1>6, <1>7, <1>8, <1>9, <1>10, <1>11

\* A byte vector goes through the codec as it is, so a trip empties none.
LEMMA BytesTrip ==
  ASSUME NEW packet, IsPacket(packet), ~EmptyBytes(packet)
  PROVE  ~EmptyBytes(Trip(packet))
<1> DEFINE type == packet.type
           fields == [f \in DOMAIN Written[type] |-> TripField(Written[type][f], packet.fields[f])]
<1>1. Trip(packet).type = type /\ Trip(packet).fields = fields
  BY TripIs
<1>2. ASSUME NEW f \in DOMAIN Written[type], Written[type][f] = "bytes"
      PROVE  fields[f] = packet.fields[f]
  BY <1>2 DEF TripField, DecodeField, EncodeField
<1>3. \A f \in DOMAIN Written[type] : Written[type][f] = "bytes" => packet.fields[f] # <<>>
  BY DEF EmptyBytes
<1> HIDE DEF fields, type
<1> QED BY <1>1, <1>2, <1>3 DEF EmptyBytes

\* A packet with another id: the same fields, encoded alike.
WithId(packet, id) == [packet EXCEPT !.id = id]

LEMMA Renumbered ==
  ASSUME NEW packet, IsPacket(packet), NEW id \in Int, Fits(id, Width)
  PROVE  /\ IsPacket(WithId(packet, id)) /\ WithId(packet, id).id = id
         /\ EmptyBytes(WithId(packet, id)) <=> EmptyBytes(packet)
         /\ Encode(packet, id) = Encode(WithId(packet, id), id)
<1> DEFINE numbered == WithId(packet, id)
<1>1. packet = [id |-> packet.id, type |-> packet.type, fields |-> packet.fields]
  BY DEF IsPacket
<1>2. numbered = [id |-> id, type |-> packet.type, fields |-> packet.fields]
  BY <1>1 DEF WithId
<1>3. numbered.id = id /\ numbered.type = packet.type /\ numbered.fields = packet.fields
  BY <1>2
<1> HIDE DEF numbered
<1>4. IsPacket(numbered)
  BY <1>2, <1>3 DEF IsPacket
<1>5. EmptyBytes(numbered) <=> EmptyBytes(packet)
  BY <1>3 DEF EmptyBytes
<1>6. Encode(packet, id) = Encode(numbered, id)
  BY <1>3 DEF Encode
<1> QED BY <1>3, <1>4, <1>5, <1>6 DEF numbered

-----------------------------------------------------------------------------
(* The inductive invariant.                                                *)

IsSeq(s) == s \in Seq(ToSet(s))

\* A length, and an appended element, named, so that the provers take them as they are.
Size(s) == Len(s)
Grows(s, t, x) == t = Append(s, x)

\* The queues of the two ends.
Queues(f) == f = [end \in Ends |-> f[end]] /\ \A end \in Ends : IsSeq(f[end])

\* Every queue is a sequence, and so is every history.
Shapes ==
  /\ Queues(outgoing) /\ Queues(incoming) /\ Queues(wire)
  /\ autoId = [end \in Ends |-> autoId[end]]
  /\ IsSeq(sent) /\ IsSeq(arrived) /\ IsSeq(vanished)
  /\ pushed \in 0..MaxPackets

\* The client has given out an id for a packet it has taken at most, the server none.
IdsCounted ==
  /\ autoId["client"] \in Nat /\ autoId["server"] = 0
  /\ autoId["client"] + Size(outgoing["client"]) <= pushed

\* Before they are sent, requests are what the application pushed.
RequestsPushed ==
  \A entry \in ToSet(outgoing["client"]) : entry.packet \in Packets /\ entry.of = 0

\* A request is sent with an id and without an empty byte vector, and those the client
\* has numbered with ids that grow.
IdsGrow ==
  /\ \A i \in DOMAIN sent :
       /\ IsPacket(sent[i].packet) /\ sent[i].packet.id # AutoId
       /\ ~EmptyBytes(sent[i].packet)
       /\ sent[i].numbered => sent[i].packet.id \in 0..(autoId["client"] - 1)
  /\ \A i, j \in DOMAIN sent :
       i < j /\ sent[i].numbered /\ sent[j].numbered => sent[i].packet.id < sent[j].packet.id

\* What is on the wire to the server are requests, encoded.
IsSent(frame) ==
  /\ frame.of \in DOMAIN sent
  /\ frame.der = Encode(sent[frame.of].packet, sent[frame.of].packet.id)
RequestsSent == \A frame \in ToSet(wire["client"]) : IsSent(frame)

\* What has arrived are requests after one trip.
HasArrived(request) ==
  /\ request.of \in DOMAIN sent
  /\ request.packet = Trip(sent[request.of].packet)
RequestsArrived == \A request \in ToSet(arrived) : HasArrived(request)

\* Requests arrive in the order they were sent, and once.
ArrivedInOrder ==
  /\ \A i, j \in DOMAIN arrived : i < j => arrived[i].of < arrived[j].of
  /\ \A i, j \in DOMAIN wire["client"] : i < j => wire["client"][i].of < wire["client"][j].of
  /\ \A i \in DOMAIN arrived, j \in DOMAIN wire["client"] :
       arrived[i].of < wire["client"][j].of

\* What the server has received and not yet sent is what has arrived.
Unanswered == ToSet(incoming["server"]) \cup ToSet(outgoing["server"]) \subseteq ToSet(arrived)

\* What is on the wire to the client are arrived requests, encoded again.
IsAnswer(frame) ==
  \E request \in ToSet(arrived) :
    /\ frame.of = request.of
    /\ frame.der = Encode(request.packet, request.packet.id)
AnswersSent == \A frame \in ToSet(wire["server"]) : IsAnswer(frame)

\* What the client has received are arrived requests after a second trip.
IsAnswered(response) ==
  \E request \in ToSet(arrived) :
    /\ response.of = request.of
    /\ response.packet = Trip(request.packet)
AnswersArrived == \A response \in ToSet(incoming["client"]) : IsAnswered(response)

EchoInv ==
  /\ Shapes /\ IdsCounted /\ RequestsPushed /\ IdsGrow
  /\ RequestsSent /\ RequestsArrived /\ ArrivedInOrder
  /\ Unanswered /\ AnswersSent /\ AnswersArrived
  /\ LossesExplained

-----------------------------------------------------------------------------
(* Sequences.                                                              *)

\* Every sequence is one of its elements.
LEMMA ElementsSeq ==
  ASSUME NEW S, NEW s \in Seq(S)
  PROVE  IsSeq(s)
<1>1. Len(s) \in Nat /\ s \in [1..Len(s) -> S] /\ DOMAIN s = 1..Len(s)
  BY LenProperties
<1>2. s \in [1..Len(s) -> ToSet(s)]
  BY <1>1 DEF ToSet
<1> QED BY <1>1, <1>2, SeqDef DEF IsSeq

\* What Append makes of a sequence and of the set of its elements.
LEMMA AppendFacts ==
  ASSUME NEW s, IsSeq(s), NEW x, NEW t, Grows(s, t, x)
  PROVE  /\ IsSeq(t) /\ ToSet(t) = ToSet(s) \cup {x}
         /\ Size(s) \in Nat /\ Size(t) = Size(s) + 1
         /\ DOMAIN s = 1..Size(s) /\ DOMAIN t = 1..(Size(s) + 1)
         /\ \A i \in 1..Size(s) : t[i] = s[i]
         /\ t[Size(s) + 1] = x
<1>1. PICK S : s \in Seq(S)
  BY DEF IsSeq
<1>2. /\ Len(s) \in Nat /\ Len(t) = Len(s) + 1
      /\ DOMAIN s = 1..Len(s) /\ DOMAIN t = 1..(Len(s) + 1)
      /\ \A i \in 1..Len(s) : t[i] = s[i]
      /\ t[Len(s) + 1] = x
  <2>1. s \in Seq(S \cup {x}) /\ x \in S \cup {x}
    BY <1>1
  <2> QED BY <2>1 DEF Grows
<1>3. ToSet(t) = ToSet(s) \cup {x}
  BY <1>2 DEF ToSet
<1>4. IsSeq(t)
  <2>1. t \in Seq(S \cup {x})
    BY <1>1 DEF Grows
  <2> QED BY <2>1, ElementsSeq
<1> QED BY <1>2, <1>3, <1>4 DEF Size

\* What Tail makes of a sequence and of the set of its elements, and where Head is.
LEMMA TailFacts ==
  ASSUME NEW s, IsSeq(s), s # <<>>, NEW t, t = Tail(s)
  PROVE  /\ IsSeq(t) /\ ToSet(t) \subseteq ToSet(s)
         /\ Size(s) \in Nat \ {0} /\ Size(t) = Size(s) - 1
         /\ DOMAIN s = 1..Size(s) /\ DOMAIN t = 1..(Size(s) - 1)
         /\ \A i \in 1..(Size(s) - 1) : t[i] = s[i + 1]
         /\ Head(s) = s[1] /\ Head(s) \in ToSet(s)
<1>1. PICK S : s \in Seq(S)
  BY DEF IsSeq
<1>2. /\ Len(s) \in Nat \ {0} /\ Len(t) = Len(s) - 1
      /\ DOMAIN s = 1..Len(s) /\ DOMAIN t = 1..(Len(s) - 1)
      /\ \A i \in 1..(Len(s) - 1) : t[i] = s[i + 1]
      /\ Head(s) = s[1]
  BY <1>1
<1>3. ToSet(t) \subseteq ToSet(s) /\ Head(s) \in ToSet(s)
  BY <1>2 DEF ToSet
<1>4. IsSeq(t)
  <2>1. t \in Seq(S)
    BY <1>1
  <2> QED BY <2>1, ElementsSeq
<1> QED BY <1>2, <1>3, <1>4 DEF Size

\* The empty sequence.
LEMMA EmptyFacts == IsSeq(<<>>) /\ ToSet(<<>>) = {} /\ Size(<<>>) = 0 /\ DOMAIN <<>> = {}
BY DEF IsSeq, ToSet, Size

-----------------------------------------------------------------------------
(* What the invariant says of the packets under way.                       *)

\* What arrives of a sent request is a packet that can be encoded again and cannot be
\* taken for "no packet".
LEMMA SentTrip ==
  ASSUME IdsGrow, NEW i \in DOMAIN sent, NEW packet, packet = Trip(sent[i].packet)
  PROVE  IsPacket(packet) /\ packet.id # AutoId /\ ~EmptyBytes(packet)
<1>1. IsPacket(sent[i].packet) /\ sent[i].packet.id # AutoId /\ ~EmptyBytes(sent[i].packet)
  BY DEF IdsGrow
<1> QED BY <1>1, PacketTrip, BytesTrip DEF AutoId

\* So is an arrived request.
LEMMA ArrivedIsPacket ==
  ASSUME IdsGrow, NEW request, HasArrived(request)
  PROVE  IsPacket(request.packet) /\ request.packet.id # AutoId /\ ~EmptyBytes(request.packet)
BY SentTrip DEF HasArrived

\* What a history has it keeps.
LEMMA HistoriesGrow ==
  ASSUME IsSeq(sent), IsSeq(arrived),
         sent' = sent \/ \E x : Grows(sent, sent', x),
         arrived' = arrived \/ \E x : Grows(arrived, arrived', x)
  PROVE  /\ \A i \in DOMAIN sent : i \in DOMAIN sent' /\ sent'[i] = sent[i]
         /\ ToSet(arrived) \subseteq ToSet(arrived')
         /\ \A frame : (IsSent(frame) => IsSent(frame)') /\ (HasArrived(frame) => HasArrived(frame)')
         /\ \A frame : (IsAnswer(frame) => IsAnswer(frame)') /\ (IsAnswered(frame) => IsAnswered(frame)')
<1>1. \A i \in DOMAIN sent : i \in DOMAIN sent' /\ sent'[i] = sent[i]
  <2>1. CASE sent' = sent
    BY <2>1
  <2>2. ASSUME NEW x, Grows(sent, sent', x)
        PROVE  \A i \in DOMAIN sent : i \in DOMAIN sent' /\ sent'[i] = sent[i]
    <3>1. /\ Size(sent) \in Nat /\ DOMAIN sent = 1..Size(sent)
          /\ DOMAIN sent' = 1..(Size(sent) + 1)
          /\ \A i \in 1..Size(sent) : sent'[i] = sent[i]
      BY <2>2, AppendFacts
    <3> QED BY <3>1
  <2> QED BY <2>1, <2>2
<1>2. ToSet(arrived) \subseteq ToSet(arrived')
  BY AppendFacts
<1>3. ASSUME NEW frame
      PROVE  (IsSent(frame) => IsSent(frame)') /\ (HasArrived(frame) => HasArrived(frame)')
  BY <1>1 DEF IsSent, HasArrived
<1>4. ASSUME NEW frame
      PROVE  (IsAnswer(frame) => IsAnswer(frame)') /\ (IsAnswered(frame) => IsAnswered(frame)')
  BY <1>2 DEF IsAnswer, IsAnswered
<1> QED BY <1>1, <1>2, <1>3, <1>4

-----------------------------------------------------------------------------
(* The invariant holds initially, and every action keeps it.               *)

\* The invariant holds of an idle session.
LEMMA EchoInit == Init => EchoInv
<1> SUFFICES ASSUME Init PROVE EchoInv
  OBVIOUS
<1>1. /\ outgoing = [end \in Ends |-> <<>>] /\ incoming = [end \in Ends |-> <<>>]
      /\ wire = [end \in Ends |-> <<>>] /\ autoId = [end \in Ends |-> 0]
      /\ pushed = 0 /\ sent = <<>> /\ arrived = <<>> /\ vanished = <<>>
      /\ "client" \in Ends /\ "server" \in Ends
  BY DEF Init, Ends
<1>2. /\ \A end \in Ends : outgoing[end] = <<>> /\ incoming[end] = <<>> /\ wire[end] = <<>>
      /\ autoId["client"] = 0 /\ autoId["server"] = 0
  BY <1>1
<1>3. Shapes /\ IdsCounted
  <2>1. Shapes
    <3>1. /\ Queues(outgoing) /\ Queues(incoming) /\ Queues(wire)
          /\ autoId = [end \in Ends |-> autoId[end]]
      BY <1>1, <1>2, EmptyFacts DEF Queues
    <3>2. pushed \in 0..MaxPackets
      BY <1>1, MaxPacketsAssumption
    <3> QED BY <1>1, <3>1, <3>2, EmptyFacts DEF Shapes
  <2>2. autoId["client"] + Size(outgoing["client"]) = 0
    BY <1>1, <1>2, EmptyFacts
  <2> QED BY <1>1, <1>2, <2>1, <2>2 DEF IdsCounted
<1>4. RequestsPushed /\ IdsGrow /\ RequestsSent /\ RequestsArrived /\ ArrivedInOrder
  BY <1>1, <1>2, EmptyFacts
     DEF RequestsPushed, IdsGrow, RequestsSent, RequestsArrived, ArrivedInOrder
<1>5. Unanswered /\ AnswersSent /\ AnswersArrived
  BY <1>1, <1>2, EmptyFacts DEF Unanswered, AnswersSent, AnswersArrived
<1>6. LossesExplained
  BY <1>1, <1>2, EmptyFacts DEF LossesExplained, Places, Size
<1> QED BY <1>3, <1>4, <1>5, <1>6 DEF EchoInv

\* A queue of one end is appended to, or loses its head: the other's stays.
Gains(f, g, end, x) == g = [f EXCEPT ![end] = Append(f[end], x)]
Loses(f, g, end) == f[end] # <<>> /\ g = [f EXCEPT ![end] = Tail(f[end])]

\* What there is in a queue that is appended to.
LEMMA AppendAt ==
  ASSUME NEW f, Queues(f), NEW end \in Ends, NEW x, NEW g, Gains(f, g, end, x)
  PROVE  /\ Queues(g) /\ \A e \in Ends : e # end => g[e] = f[e]
         /\ Grows(f[end], g[end], x) /\ ToSet(g[end]) = ToSet(f[end]) \cup {x}
         /\ Size(f[end]) \in Nat /\ Size(g[end]) = Size(f[end]) + 1
<1> DEFINE q == f[end]
           r == g[end]
<1>1. /\ g = [e \in Ends |-> g[e]] /\ \A e \in Ends : e # end => g[e] = f[e]
      /\ Grows(q, r, x) /\ IsSeq(q) /\ \A e \in Ends : IsSeq(f[e])
  BY DEF Queues, Gains, Grows
<1> HIDE DEF q, r
<1>2. /\ IsSeq(r) /\ ToSet(r) = ToSet(q) \cup {x}
      /\ Size(q) \in Nat /\ Size(r) = Size(q) + 1
  BY <1>1, AppendFacts
<1>3. Queues(g)
  BY <1>1, <1>2 DEF Queues, q, r
<1> QED BY <1>1, <1>2, <1>3 DEF Queues, q, r

\* What there is in a queue that loses its head.
LEMMA TailAt ==
  ASSUME NEW f, Queues(f), NEW end \in Ends, NEW g, Loses(f, g, end)
  PROVE  /\ Queues(g) /\ \A e \in Ends : e # end => g[e] = f[e]
         /\ g[end] = Tail(f[end]) /\ \A e \in Ends : ToSet(g[e]) \subseteq ToSet(f[e])
         /\ Size(f[end]) \in Nat \ {0} /\ Size(g[end]) = Size(f[end]) - 1
         /\ Head(f[end]) \in ToSet(f[end])
<1> DEFINE q == f[end]
           r == g[end]
<1>1. /\ g = [e \in Ends |-> g[e]] /\ \A e \in Ends : e # end => g[e] = f[e]
      /\ r = Tail(q) /\ IsSeq(q) /\ q # <<>> /\ \A e \in Ends : IsSeq(f[e])
  BY DEF Queues, Gains, Loses
<1> HIDE DEF q, r
<1>2. /\ IsSeq(r) /\ ToSet(r) \subseteq ToSet(q) /\ Head(q) \in ToSet(q)
      /\ Size(q) \in Nat \ {0} /\ Size(r) = Size(q) - 1
  BY <1>1, TailFacts
<1>3. Queues(g)
  BY <1>1, <1>2 DEF Queues, q, r
<1> QED BY <1>1, <1>2, <1>3 DEF Queues, q, r

\* The lengths that LossesExplained adds up are numbers.
LEMMA Lengths ==
  ASSUME Shapes
  PROVE  /\ Size(outgoing["client"]) \in Nat /\ Size(outgoing["server"]) \in Nat
         /\ Size(wire["client"]) \in Nat /\ Size(wire["server"]) \in Nat
         /\ Size(incoming["client"]) \in Nat /\ Size(incoming["server"]) \in Nat
         /\ Size(sent) \in Nat /\ Size(vanished) \in Nat /\ pushed \in Nat
         /\ DOMAIN sent = 1..Size(sent)
<1>1. "client" \in Ends /\ "server" \in Ends
  BY DEF Ends
<1>2. \A q : IsSeq(q) => Size(q) \in Nat /\ DOMAIN q = 1..Size(q)
  BY DEF IsSeq, Size
<1> QED BY <1>1, <1>2, MaxPacketsAssumption DEF Shapes, Queues

\* The same of the sums, now and after a step.
LEMMA PlacesAre ==
  /\ Places("client") =
       Size(outgoing["client"]) + Size(wire["client"]) + Size(incoming["client"])
  /\ Places("server") =
       Size(outgoing["server"]) + Size(wire["server"]) + Size(incoming["server"])
  /\ Places("client")' =
       Size(outgoing'["client"]) + Size(wire'["client"]) + Size(incoming'["client"])
  /\ Places("server")' =
       Size(outgoing'["server"]) + Size(wire'["server"]) + Size(incoming'["server"])
<1>1. /\ Places("client") =
           Size(outgoing["client"]) + Size(wire["client"]) + Size(incoming["client"])
      /\ Places("server") =
           Size(outgoing["server"]) + Size(wire["server"]) + Size(incoming["server"])
  BY DEF Places, Size
<1>2. /\ Places("client")' =
           Size(outgoing'["client"]) + Size(wire'["client"]) + Size(incoming'["client"])
      /\ Places("server")' =
           Size(outgoing'["server"]) + Size(wire'["server"]) + Size(incoming'["server"])
  BY DEF Places, Size
<1> QED BY <1>1, <1>2

\* The application pushes a packet.
LEMMA PushKeeps ==
  ASSUME EchoInv, NEW packet \in Packets, PushRequest(packet)
  PROVE  EchoInv'
<1> DEFINE entry == [packet |-> packet, of |-> 0]
<1>0. "client" \in Ends /\ "server" \in Ends
  BY DEF Ends
<1>1. /\ pushed < MaxPackets /\ pushed' = pushed + 1
      /\ outgoing' = [outgoing EXCEPT !["client"] = Append(outgoing["client"], entry)]
      /\ UNCHANGED <<incoming, wire, autoId, sent, arrived, vanished>>
  BY DEF PushRequest
<1>2. /\ Shapes /\ IdsCounted /\ RequestsPushed /\ IdsGrow /\ RequestsSent /\ RequestsArrived
      /\ ArrivedInOrder /\ Unanswered /\ AnswersSent /\ AnswersArrived /\ LossesExplained
  BY DEF EchoInv
<1>3. entry.packet = packet /\ entry.of = 0
  OBVIOUS
<1> HIDE DEF entry
<1>4. /\ Queues(outgoing') /\ outgoing'["server"] = outgoing["server"]
      /\ ToSet(outgoing'["client"]) = ToSet(outgoing["client"]) \cup {entry}
      /\ Size(outgoing["client"]) \in Nat
      /\ Size(outgoing'["client"]) = Size(outgoing["client"]) + 1
  <2>1. Gains(outgoing, outgoing', "client", entry)
    BY <1>1 DEF Gains
  <2> QED BY <1>0, <1>2, <2>1, AppendAt DEF Shapes
<1>6. Shapes'
  <2>1. pushed' \in 0..MaxPackets
    BY <1>1, <1>2, MaxPacketsAssumption DEF Shapes
  <2> QED BY <1>1, <1>2, <1>4, <2>1 DEF Shapes, Queues, IsSeq
<1>7. IdsCounted'
  BY <1>1, <1>2, <1>4, Lengths DEF IdsCounted
<1>8. RequestsPushed'
  BY <1>2, <1>3, <1>4 DEF RequestsPushed
<1>9. IdsGrow' /\ RequestsSent' /\ RequestsArrived' /\ ArrivedInOrder'
  BY <1>1, <1>2 DEF IdsGrow, RequestsSent, IsSent, RequestsArrived, HasArrived, ArrivedInOrder
<1>10. Unanswered' /\ AnswersSent' /\ AnswersArrived'
  BY <1>1, <1>2, <1>4 DEF Unanswered, AnswersSent, IsAnswer, AnswersArrived, IsAnswered
<1>11. LossesExplained'
  <2>1. Places("client")' = Places("client") + 1 /\ Places("server")' = Places("server")
    BY <1>1, <1>2, <1>4, Lengths, PlacesAre
  <2>2. Places("client") \in Nat /\ Places("server") \in Nat
    BY <1>2, Lengths, PlacesAre
  <2> QED BY <1>1, <1>2, <2>1, <2>2, Lengths, SMTT(30) DEF LossesExplained
<1> QED BY <1>6, <1>7, <1>8, <1>9, <1>10, <1>11 DEF EchoInv

\* What sendMessage() takes from a queue: a packet, which it sends with an id.
LEMMA TakeKeeps ==
  ASSUME EchoInv, NEW end \in Ends, Take(end), pushed' = pushed,
         NEW entry, entry = Head(outgoing[end])
  PROVE  /\ entry \in ToSet(outgoing[end])
         /\ Queues(outgoing') /\ \A e \in Ends : e # end => outgoing'[e] = outgoing[e]
         /\ \A e \in Ends : ToSet(outgoing'[e]) \subseteq ToSet(outgoing[e])
         /\ Size(outgoing[end]) \in Nat /\ Size(outgoing'[end]) = Size(outgoing[end]) - 1
         /\ autoId' = [e \in Ends |-> autoId'[e]]
         /\ IsPacket(entry.packet)
         /\ IdOf(end, entry.packet) \in Int /\ Fits(IdOf(end, entry.packet), Width)
         /\ IdOf(end, entry.packet) # AutoId
         /\ IdsCounted' /\ RequestsPushed'
         /\ autoId["client"] <= autoId'["client"]
         /\ end = "client" /\ entry.packet.id = AutoId =>
              IdOf(end, entry.packet) = autoId["client"] /\
              autoId'["client"] = autoId["client"] + 1
         /\ end = "server" => IdOf(end, entry.packet) = entry.packet.id /\
                              entry \in ToSet(arrived)
<1>0. "client" \in Ends /\ "server" \in Ends /\ end \in {"client", "server"}
  BY DEF Ends
<1>1. /\ Shapes /\ IdsCounted /\ RequestsPushed /\ IdsGrow /\ RequestsArrived /\ Unanswered
  BY DEF EchoInv
<1>2. /\ Loses(outgoing, outgoing', end)
      /\ entry.packet.id = AutoId => autoId' = [autoId EXCEPT ![end] = autoId[end] + 1]
      /\ entry.packet.id # AutoId => autoId' = autoId
  BY DEF Take, Loses
<1>3. /\ Queues(outgoing') /\ \A e \in Ends : e # end => outgoing'[e] = outgoing[e]
      /\ \A e \in Ends : ToSet(outgoing'[e]) \subseteq ToSet(outgoing[e])
      /\ Size(outgoing[end]) \in Nat \ {0} /\ Size(outgoing'[end]) = Size(outgoing[end]) - 1
      /\ entry \in ToSet(outgoing[end])
  BY <1>1, <1>2, TailAt DEF Shapes
<1>4. RequestsPushed'
  BY <1>0, <1>1, <1>3 DEF RequestsPushed
<1>5. autoId = [e \in Ends |-> autoId[e]]
  BY <1>1 DEF Shapes
<1>6. /\ autoId["client"] \in Nat /\ autoId["server"] = 0
      /\ autoId["client"] + Size(outgoing["client"]) <= pushed
      /\ pushed \in Nat /\ pushed <= MaxPackets /\ MaxPackets \in Nat
      /\ Size(outgoing["client"]) \in Nat
  BY <1>1, Lengths, MaxPacketsAssumption DEF IdsCounted, Shapes
<1>7. autoId' = [e \in Ends |-> autoId'[e]]
  BY <1>2, <1>5
<1>8. ASSUME end = "client"
      PROVE  /\ IsPacket(entry.packet) /\ IdsCounted'
             /\ IdOf(end, entry.packet) \in Int /\ Fits(IdOf(end, entry.packet), Width)
             /\ IdOf(end, entry.packet) # AutoId
             /\ autoId["client"] <= autoId'["client"]
             /\ entry.packet.id = AutoId =>
                  IdOf(end, entry.packet) = autoId["client"] /\
                  autoId'["client"] = autoId["client"] + 1
  <2>1. entry.packet \in Packets /\ IsPacket(entry.packet)
    BY <1>1, <1>3, <1>8, PacketsAssumption DEF RequestsPushed
  <2>2. /\ entry.packet.id = AutoId => autoId'["client"] = autoId["client"] + 1
        /\ entry.packet.id # AutoId => autoId'["client"] = autoId["client"]
        /\ autoId'["server"] = 0
    BY <1>0, <1>2, <1>5, <1>6, <1>8
  <2>3. autoId["client"] < MaxPackets
    BY <1>3, <1>6, <1>8
  <2>4. IdsCounted'
    BY <1>3, <1>6, <1>8, <2>2 DEF IdsCounted
  <2>5. /\ IdOf(end, entry.packet) \in Int /\ Fits(IdOf(end, entry.packet), Width)
        /\ IdOf(end, entry.packet) # AutoId
    <3>1. CASE entry.packet.id = AutoId
      <4>1. IdOf(end, entry.packet) = autoId["client"]
        BY <1>8, <3>1 DEF IdOf
      <4>2. Half(Width) \in Nat /\ MaxPackets < Half(Width)
        BY MaxPacketsAssumption, WidthAssumption, HalfFacts DEF Fits
      <4> QED BY <1>6, <2>3, <4>1, <4>2 DEF AutoId, Fits
    <3>2. CASE entry.packet.id # AutoId
      BY <2>1, <3>2 DEF IdOf, IsPacket
    <3> QED BY <3>1, <3>2
  <2>6. entry.packet.id = AutoId => IdOf(end, entry.packet) = autoId["client"]
    BY <1>8 DEF IdOf
  <2>7. autoId["client"] <= autoId'["client"]
    BY <1>6, <2>2
  <2> QED BY <2>1, <2>2, <2>4, <2>5, <2>6, <2>7
<1>9. ASSUME end = "server"
      PROVE  /\ IsPacket(entry.packet) /\ IdsCounted'
             /\ IdOf(end, entry.packet) \in Int /\ Fits(IdOf(end, entry.packet), Width)
             /\ IdOf(end, entry.packet) # AutoId
             /\ autoId["client"] <= autoId'["client"]
             /\ IdOf(end, entry.packet) = entry.packet.id /\ entry \in ToSet(arrived)
  <2>1. entry \in ToSet(arrived)
    BY <1>1, <1>3, <1>9 DEF Unanswered
  <2>2. IsPacket(entry.packet) /\ entry.packet.id # AutoId
    BY <1>1, <2>1, ArrivedIsPacket DEF RequestsArrived
  <2>3. autoId' = autoId /\ outgoing'["client"] = outgoing["client"]
    BY <1>0, <1>2, <1>3, <1>9, <2>2
  <2>4. IdsCounted'
    BY <1>1, <2>3 DEF IdsCounted
  <2>5. IdOf(end, entry.packet) = entry.packet.id
    BY <2>2 DEF IdOf
  <2>6. entry.packet.id \in Int /\ Fits(entry.packet.id, Width)
    BY <2>2 DEF IsPacket
  <2> QED BY <1>6, <2>1, <2>2, <2>3, <2>4, <2>5, <2>6
<1> QED BY <1>0, <1>2, <1>3, <1>4, <1>7, <1>8, <1>9


\* The client sends a request.
LEMMA SendClientKeeps ==
  ASSUME EchoInv, Send("client")
  PROVE  EchoInv'
<1> DEFINE entry == Head(outgoing["client"])
           id == IdOf("client", entry.packet)
           request == [packet |-> WithId(entry.packet, id),
                       numbered |-> entry.packet.id = AutoId]
<1>0. "client" \in Ends /\ "server" \in Ends
  BY DEF Ends
<1>1. /\ Take("client") /\ pushed' = pushed /\ Grows(sent, sent', request)
      /\ UNCHANGED <<incoming, pushed, arrived, vanished>>
  BY DEF Send, WithId, Grows
<1>2. PICK frame :
        /\ frame = [der |-> Encode(entry.packet, id), of |-> Size(sent) + 1]
        /\ Gains(wire, wire', "client", frame)
  BY DEF Send, Gains, Size
<1>3. /\ frame.der = Encode(entry.packet, id) /\ frame.of = Size(sent) + 1
      /\ ~EmptyBytes(entry.packet)
  BY <1>2 DEF Send, Encodable
<1>4. request.packet = WithId(entry.packet, id) /\ request.numbered = (entry.packet.id = AutoId)
  OBVIOUS
<1> HIDE DEF request
<1>5. /\ Shapes /\ IdsCounted /\ IdsGrow /\ RequestsSent /\ RequestsArrived
      /\ ArrivedInOrder /\ Unanswered /\ AnswersSent /\ AnswersArrived /\ LossesExplained
  BY DEF EchoInv
<1>6. /\ Queues(outgoing') /\ outgoing'["server"] = outgoing["server"]
      /\ Size(outgoing["client"]) \in Nat
      /\ Size(outgoing'["client"]) = Size(outgoing["client"]) - 1
      /\ autoId' = [e \in Ends |-> autoId'[e]] /\ IsPacket(entry.packet)
      /\ id \in Int /\ Fits(id, Width) /\ id # AutoId
      /\ IdsCounted' /\ RequestsPushed' /\ autoId["client"] <= autoId'["client"]
      /\ entry.packet.id = AutoId =>
           id = autoId["client"] /\ autoId'["client"] = autoId["client"] + 1
  BY <1>0, <1>1, TakeKeeps
<1> HIDE DEF entry, id
<1>7. /\ Queues(wire') /\ wire'["server"] = wire["server"]
      /\ Grows(wire["client"], wire'["client"], frame)
      /\ ToSet(wire'["client"]) = ToSet(wire["client"]) \cup {frame}
      /\ Size(wire["client"]) \in Nat /\ Size(wire'["client"]) = Size(wire["client"]) + 1
  BY <1>0, <1>2, <1>5, AppendAt DEF Shapes
<1>8. /\ IsSeq(sent') /\ Size(sent) \in Nat /\ DOMAIN sent = 1..Size(sent)
      /\ DOMAIN sent' = 1..(Size(sent) + 1)
      /\ \A i \in 1..Size(sent) : sent'[i] = sent[i]
      /\ sent'[Size(sent) + 1] = request
  <2>1. IsSeq(sent)
    BY <1>5 DEF Shapes
  <2> QED BY <1>1, <2>1, AppendFacts
<1>9. /\ \A x : (IsSent(x) => IsSent(x)') /\ (HasArrived(x) => HasArrived(x)')
      /\ \A x : (IsAnswer(x) => IsAnswer(x)') /\ (IsAnswered(x) => IsAnswered(x)')
  BY <1>1, <1>5, HistoriesGrow DEF Shapes
<1>10. /\ IsPacket(request.packet) /\ request.packet.id = id
       /\ ~EmptyBytes(request.packet) /\ frame.der = Encode(request.packet, request.packet.id)
  BY <1>3, <1>4, <1>6, Renumbered
<1>11. Shapes'
  <2>1. pushed' \in 0..MaxPackets
    BY <1>1, <1>5 DEF Shapes
  <2> QED BY <1>1, <1>5, <1>6, <1>7, <1>8, <2>1 DEF Shapes, Queues, IsSeq
<1>12. IdsGrow'
  <2>1. autoId["client"] \in Nat /\ autoId'["client"] \in Nat
    BY <1>5, <1>6 DEF IdsCounted
  <2>2. ASSUME NEW i \in 1..Size(sent)
        PROVE  /\ IsPacket(sent'[i].packet) /\ sent'[i].packet.id # AutoId
               /\ ~EmptyBytes(sent'[i].packet)
               /\ sent'[i].numbered => sent'[i].packet.id \in 0..(autoId["client"] - 1)
    BY <1>5, <1>8 DEF IdsGrow
  <2>3. ASSUME NEW i, i = Size(sent) + 1
        PROVE  /\ IsPacket(sent'[i].packet) /\ sent'[i].packet.id # AutoId
               /\ ~EmptyBytes(sent'[i].packet)
               /\ sent'[i].numbered => /\ sent'[i].packet.id = autoId["client"]
                                       /\ autoId'["client"] = autoId["client"] + 1
    BY <1>4, <1>6, <1>8, <1>10, <2>3
  <2>4. ASSUME NEW i \in DOMAIN sent'
        PROVE  /\ IsPacket(sent'[i].packet) /\ sent'[i].packet.id # AutoId
               /\ ~EmptyBytes(sent'[i].packet)
               /\ sent'[i].numbered => sent'[i].packet.id \in 0..(autoId'["client"] - 1)
    <3>1. CASE i \in 1..Size(sent)
      BY <1>6, <2>1, <2>2, <3>1
    <3>2. CASE i = Size(sent) + 1
      BY <1>6, <2>1, <2>3, <3>2
    <3> QED BY <1>8, <2>4, <3>1, <3>2
  <2>5. ASSUME NEW i \in DOMAIN sent', NEW j \in DOMAIN sent', i < j,
               sent'[i].numbered, sent'[j].numbered
        PROVE  sent'[i].packet.id < sent'[j].packet.id
    <3>1. i \in 1..Size(sent)
      BY <1>8, <2>5
    <3>2. CASE j \in 1..Size(sent)
      <4>1. sent'[i] = sent[i] /\ sent'[j] = sent[j] /\ i \in DOMAIN sent /\ j \in DOMAIN sent
        BY <1>8, <3>1, <3>2
      <4> QED BY <1>5, <2>5, <4>1 DEF IdsGrow
    <3>3. CASE j = Size(sent) + 1
      BY <2>1, <2>2, <2>3, <2>5, <3>1, <3>3
    <3> QED BY <1>8, <2>5, <3>2, <3>3
  <2> QED BY <2>4, <2>5 DEF IdsGrow
<1>13. RequestsSent'
  <2>1. IsSent(frame)'
    BY <1>3, <1>8, <1>10 DEF IsSent
  <2> QED BY <1>5, <1>7, <1>9, <2>1 DEF RequestsSent
<1>14. RequestsArrived' /\ Unanswered'
  BY <1>1, <1>5, <1>6, <1>9 DEF RequestsArrived, Unanswered
<1>15. ArrivedInOrder'
  <2>1. \A i \in DOMAIN arrived : arrived[i].of \in 1..Size(sent)
    BY <1>5, <1>8 DEF RequestsArrived, HasArrived, ToSet
  <2>2. \A i \in DOMAIN wire["client"] : wire["client"][i].of \in 1..Size(sent)
    BY <1>5, <1>8 DEF RequestsSent, IsSent, ToSet
  <2> DEFINE q == wire["client"]
             r == wire'["client"]
  <2>3. IsSeq(q) /\ Grows(q, r, frame)
    BY <1>0, <1>5, <1>7 DEF Shapes, Queues
  <2>4. /\ \A i, j \in DOMAIN arrived : i < j => arrived[i].of < arrived[j].of
        /\ \A i, j \in DOMAIN q : i < j => q[i].of < q[j].of
        /\ \A i \in DOMAIN arrived, j \in DOMAIN q : arrived[i].of < q[j].of
    BY <1>5 DEF ArrivedInOrder
  <2> HIDE DEF q, r
  <2>5. /\ DOMAIN q = 1..Size(q) /\ DOMAIN r = 1..(Size(q) + 1) /\ Size(q) \in Nat
        /\ \A i \in 1..Size(q) : r[i] = q[i]
        /\ r[Size(q) + 1] = frame
    BY <2>3, AppendFacts
  <2>6. ASSUME NEW i \in DOMAIN r, NEW j \in DOMAIN r, i < j
        PROVE  r[i].of < r[j].of
    <3>1. \A k \in DOMAIN q : q[k].of \in 1..Size(sent)
      BY <2>2 DEF q
    <3>2. i \in 1..Size(q) /\ r[i] = q[i]
      BY <2>5, <2>6
    <3>3. CASE j \in 1..Size(q)
      BY <2>4, <2>5, <2>6, <3>2, <3>3
    <3>4. CASE j = Size(q) + 1
      BY <1>3, <1>8, <2>5, <3>1, <3>2, <3>4
    <3> QED BY <2>5, <2>6, <3>3, <3>4
  <2>7. ASSUME NEW i \in DOMAIN arrived, NEW j \in DOMAIN r
        PROVE  arrived[i].of < r[j].of
    <3>1. CASE j \in 1..Size(q)
      BY <2>4, <2>5, <3>1
    <3>2. CASE j = Size(q) + 1
      BY <1>3, <1>8, <2>1, <2>5, <3>2
    <3> QED BY <2>5, <3>1, <3>2
  <2> QED BY <1>1, <2>4, <2>6, <2>7 DEF ArrivedInOrder, r
<1>16. AnswersSent' /\ AnswersArrived'
  BY <1>1, <1>5, <1>7, <1>9 DEF AnswersSent, AnswersArrived
<1>17. LossesExplained'
  <2>1. Places("client")' = Places("client") /\ Places("server")' = Places("server")
    BY <1>1, <1>5, <1>6, <1>7, Lengths, PlacesAre
  <2> QED BY <1>1, <1>5, <1>6, <2>1 DEF LossesExplained
<1> QED BY <1>6, <1>11, <1>12, <1>13, <1>14, <1>15, <1>16, <1>17 DEF EchoInv


\* The server sends an answer.
LEMMA SendServerKeeps ==
  ASSUME EchoInv, Send("server")
  PROVE  EchoInv'
<1> DEFINE entry == Head(outgoing["server"])
           id == IdOf("server", entry.packet)
<1>0. "client" \in Ends /\ "server" \in Ends
  BY DEF Ends
<1>1. /\ Take("server") /\ pushed' = pushed
      /\ UNCHANGED <<sent, incoming, pushed, arrived, vanished>>
  BY DEF Send
<1>2. PICK frame :
        /\ frame = [der |-> Encode(entry.packet, id), of |-> entry.of]
        /\ Gains(wire, wire', "server", frame)
  BY DEF Send, Gains
<1>3. frame.der = Encode(entry.packet, id) /\ frame.of = entry.of
  BY <1>2
<1>4. /\ Shapes /\ IdsCounted /\ IdsGrow /\ RequestsSent /\ RequestsArrived
      /\ ArrivedInOrder /\ Unanswered /\ AnswersSent /\ AnswersArrived /\ LossesExplained
  BY DEF EchoInv
<1>5. /\ Queues(outgoing') /\ outgoing'["client"] = outgoing["client"]
      /\ ToSet(outgoing'["server"]) \subseteq ToSet(outgoing["server"])
      /\ Size(outgoing["server"]) \in Nat
      /\ Size(outgoing'["server"]) = Size(outgoing["server"]) - 1
      /\ autoId' = [e \in Ends |-> autoId'[e]] /\ IsPacket(entry.packet)
      /\ id = entry.packet.id /\ entry \in ToSet(arrived)
      /\ IdsCounted' /\ RequestsPushed' /\ autoId["client"] <= autoId'["client"]
  BY <1>0, <1>1, TakeKeeps
<1> HIDE DEF entry, id
<1>6. /\ Queues(wire') /\ wire'["client"] = wire["client"]
      /\ ToSet(wire'["server"]) = ToSet(wire["server"]) \cup {frame}
      /\ Size(wire["server"]) \in Nat /\ Size(wire'["server"]) = Size(wire["server"]) + 1
  BY <1>0, <1>2, <1>4, AppendAt DEF Shapes
<1>7. Shapes'
  <2>1. pushed' \in 0..MaxPackets
    BY <1>1, <1>4 DEF Shapes
  <2> QED BY <1>1, <1>4, <1>5, <1>6, <2>1 DEF Shapes, Queues, IsSeq
<1>8. IdsGrow'
  <2>1. autoId["client"] \in Nat /\ autoId'["client"] \in Nat
    BY <1>4, <1>5 DEF IdsCounted
  <2> QED BY <1>1, <1>4, <1>5, <2>1 DEF IdsGrow
<1>9. RequestsSent' /\ RequestsArrived' /\ ArrivedInOrder' /\ AnswersArrived'
  BY <1>1, <1>4, <1>6 DEF RequestsSent, IsSent, RequestsArrived, HasArrived, ArrivedInOrder,
                          AnswersArrived, IsAnswered
<1>10. Unanswered'
  BY <1>1, <1>4, <1>5 DEF Unanswered
<1>11. AnswersSent'
  <2>1. IsAnswer(frame)
    BY <1>3, <1>5 DEF IsAnswer
  <2> QED BY <1>1, <1>4, <1>6, <2>1 DEF AnswersSent, IsAnswer
<1>12. LossesExplained'
  <2>1. Places("client")' = Places("client") /\ Places("server")' = Places("server")
    BY <1>1, <1>4, <1>5, <1>6, Lengths, PlacesAre
  <2> QED BY <1>1, <1>4, <1>5, <2>1 DEF LossesExplained
<1> QED BY <1>5, <1>7, <1>8, <1>9, <1>10, <1>11, <1>12 DEF EchoInv

\* What LossesExplained says of a loss.
Explained(loss) == HasTable(loss.type) \/ (loss.end = "client" /\ loss.empty)

\* What a failed sendMessage() leaves as it was.
LEMMA TakenKeeps ==
  ASSUME EchoInv, NEW end \in Ends, Take(end),
         UNCHANGED <<incoming, wire, pushed, sent, arrived>>
  PROVE  /\ IdsCounted' /\ RequestsPushed' /\ IdsGrow' /\ RequestsSent' /\ RequestsArrived'
         /\ ArrivedInOrder' /\ Unanswered' /\ AnswersSent' /\ AnswersArrived'
<1>0. "client" \in Ends /\ "server" \in Ends
  BY DEF Ends
<1>1. /\ IdsCounted /\ IdsGrow /\ RequestsSent /\ RequestsArrived /\ ArrivedInOrder
      /\ Unanswered /\ AnswersSent /\ AnswersArrived
  BY DEF EchoInv
<1>2. /\ \A e \in Ends : ToSet(outgoing'[e]) \subseteq ToSet(outgoing[e])
      /\ IdsCounted' /\ RequestsPushed' /\ autoId["client"] <= autoId'["client"]
  BY TakeKeeps
<1>3. IdsGrow'
  <2>1. autoId["client"] \in Nat /\ autoId'["client"] \in Nat
    BY <1>1, <1>2 DEF IdsCounted
  <2> QED BY <1>1, <1>2, <2>1 DEF IdsGrow
<1>4. RequestsSent' /\ RequestsArrived' /\ ArrivedInOrder'
  BY <1>1 DEF RequestsSent, IsSent, RequestsArrived, HasArrived, ArrivedInOrder
<1>5. Unanswered' /\ AnswersSent' /\ AnswersArrived'
  BY <1>0, <1>1, <1>2 DEF Unanswered, AnswersSent, IsAnswer, AnswersArrived, IsAnswered
<1> QED BY <1>2, <1>3, <1>4, <1>5

\* encode() throws.
LEMMA SendThrowsKeeps ==
  ASSUME EchoInv, NEW end \in Ends, SendThrows(end)
  PROVE  EchoInv'
<1> DEFINE entry == Head(outgoing[end])
           packet == entry.packet
           loss == Loss(end, packet)
<1>0. "client" \in Ends /\ "server" \in Ends /\ end \in {"client", "server"}
  BY DEF Ends
<1>1. /\ Take(end) /\ (HasTable(packet.type) \/ ~Encodable(packet))
      /\ Grows(vanished, vanished', loss)
      /\ UNCHANGED <<incoming, wire, pushed, sent, arrived>>
  BY DEF SendThrows, Grows
<1>2. /\ Queues(outgoing') /\ \A e \in Ends : e # end => outgoing'[e] = outgoing[e]
      /\ Size(outgoing[end]) \in Nat /\ Size(outgoing'[end]) = Size(outgoing[end]) - 1
      /\ autoId' = [e \in Ends |-> autoId'[e]] /\ IsPacket(entry.packet)
  BY <1>1, TakeKeeps
<1>3. Explained(loss)
  <2>1. loss.end = end /\ loss.type = packet.type /\ loss.empty = EmptyBytes(packet)
    BY DEF Loss
  <2>2. HasTable(packet.type) \/ EmptyBytes(packet)
    BY <1>1, <1>2, AllFitSchema DEF Encodable, IsPacket
  <2>3. CASE end = "client"
    BY <2>1, <2>2, <2>3 DEF Explained
  <2>4. CASE end = "server"
    <3>1. IdsGrow /\ RequestsArrived /\ entry \in ToSet(arrived)
      BY <1>1, <2>4, TakeKeeps DEF EchoInv
    <3>2. ~EmptyBytes(packet)
      BY <3>1, ArrivedIsPacket DEF RequestsArrived
    <3> QED BY <2>1, <2>2, <3>2 DEF Explained
  <2> QED BY <1>0, <2>3, <2>4
<1> HIDE DEF loss
<1>4. Shapes /\ LossesExplained
  BY DEF EchoInv
<1>5. /\ IsSeq(vanished') /\ ToSet(vanished') = ToSet(vanished) \cup {loss}
      /\ Size(vanished) \in Nat /\ Size(vanished') = Size(vanished) + 1
  <2>1. IsSeq(vanished)
    BY <1>4 DEF Shapes
  <2> QED BY <1>1, <2>1, AppendFacts
<1>6. Shapes'
  <2>1. pushed' \in 0..MaxPackets
    BY <1>1, <1>4 DEF Shapes
  <2> QED BY <1>1, <1>2, <1>4, <1>5, <2>1 DEF Shapes, Queues, IsSeq
<1>7. LossesExplained'
  <2>1. Places("client") + Places("server") \in Nat
    BY <1>4, Lengths, PlacesAre
  <2>2. Places("client")' + Places("server")' = (Places("client") + Places("server")) - 1
    <3>1. CASE end = "client"
      <4>1. outgoing'["server"] = outgoing["server"]
        BY <1>0, <1>2, <3>1
      <4> QED BY <1>1, <1>2, <1>4, <3>1, <4>1, Lengths, PlacesAre
    <3>2. CASE end = "server"
      <4>1. outgoing'["client"] = outgoing["client"]
        BY <1>0, <1>2, <3>2
      <4> QED BY <1>1, <1>2, <1>4, <3>2, <4>1, Lengths, PlacesAre
    <3> QED BY <1>0, <3>1, <3>2
  <2>3. \A l \in ToSet(vanished') : Explained(l)
    BY <1>3, <1>4, <1>5 DEF LossesExplained, Explained
  <2>4. pushed = Places("client") + Places("server") + Size(vanished)
    BY <1>2, <1>4 DEF LossesExplained, Size
  <2>5. pushed' = Places("client")' + Places("server")' + Size(vanished')
    BY <1>1, <1>5, <2>1, <2>2, <2>4
  <2> QED BY <2>3, <2>5 DEF LossesExplained, Explained, Size
<1> QED BY <1>1, <1>4, <1>6, <1>7, TakenKeeps DEF EchoInv


\* The server receives a request.
LEMMA ReceiveServerKeeps ==
  ASSUME EchoInv, Receive("server")
  PROVE  EchoInv'
<1>0. "client" \in Ends /\ "server" \in Ends /\ Other("server") = "client"
  BY DEF Ends, Other
<1>1. /\ Shapes /\ IdsCounted /\ RequestsPushed /\ IdsGrow /\ RequestsSent /\ RequestsArrived
      /\ ArrivedInOrder /\ Unanswered /\ AnswersSent /\ AnswersArrived /\ LossesExplained
  BY DEF EchoInv
<1>2. PICK frame, decoded :
        /\ frame = Head(wire["client"])
        /\ decoded = [packet |-> Decode(frame.der), of |-> frame.of]
  OBVIOUS
<1>3. decoded.packet = Decode(frame.der) /\ decoded.of = frame.of
  BY <1>2
<1>4. /\ Loses(wire, wire', "client") /\ Grows(arrived, arrived', decoded)
      /\ decoded.packet.id # AutoId => Gains(incoming, incoming', "server", decoded)
      /\ UNCHANGED <<outgoing, autoId, pushed, sent, vanished>>
  BY <1>0, <1>2, <1>3 DEF Receive, Loses, Gains, Grows
<1>5. /\ Queues(wire') /\ wire'["server"] = wire["server"] /\ frame \in ToSet(wire["client"])
      /\ ToSet(wire'["client"]) \subseteq ToSet(wire["client"])
      /\ Size(wire["client"]) \in Nat /\ Size(wire'["client"]) = Size(wire["client"]) - 1
  <2>1. Queues(wire) /\ "client" # "server"
    BY <1>1 DEF Shapes
  <2>2. /\ Queues(wire') /\ \A e \in Ends : e # "client" => wire'[e] = wire[e]
        /\ \A e \in Ends : ToSet(wire'[e]) \subseteq ToSet(wire[e])
        /\ Size(wire["client"]) \in Nat \ {0} /\ Size(wire'["client"]) = Size(wire["client"]) - 1
        /\ Head(wire["client"]) \in ToSet(wire["client"])
    BY <1>0, <1>4, <2>1, TailAt
  <2> QED BY <1>0, <1>2, <2>1, <2>2
<1>6. HasArrived(decoded) /\ decoded.packet.id # AutoId
  <2>1. IsSent(frame)
    BY <1>1, <1>5 DEF RequestsSent
  <2>2. decoded.packet = Trip(sent[frame.of].packet) /\ frame.of \in DOMAIN sent
    BY <1>3, <2>1 DEF Trip, IsSent
  <2>3. decoded.packet.id # AutoId
    BY <1>1, <2>2, SentTrip
  <2> QED BY <1>3, <2>2, <2>3 DEF HasArrived
<1>7. /\ Queues(incoming') /\ incoming'["client"] = incoming["client"]
      /\ ToSet(incoming'["server"]) = ToSet(incoming["server"]) \cup {decoded}
      /\ Size(incoming["server"]) \in Nat
      /\ Size(incoming'["server"]) = Size(incoming["server"]) + 1
  BY <1>0, <1>1, <1>4, <1>6, AppendAt DEF Shapes
<1>8. /\ IsSeq(arrived') /\ ToSet(arrived') = ToSet(arrived) \cup {decoded}
      /\ Size(arrived) \in Nat /\ DOMAIN arrived = 1..Size(arrived)
      /\ DOMAIN arrived' = 1..(Size(arrived) + 1)
      /\ \A i \in 1..Size(arrived) : arrived'[i] = arrived[i]
      /\ arrived'[Size(arrived) + 1] = decoded
  <2>1. IsSeq(arrived)
    BY <1>1 DEF Shapes
  <2> QED BY <1>4, <2>1, AppendFacts
<1>9. /\ \A x : (IsSent(x) => IsSent(x)') /\ (HasArrived(x) => HasArrived(x)')
      /\ \A x : (IsAnswer(x) => IsAnswer(x)') /\ (IsAnswered(x) => IsAnswered(x)')
  BY <1>1, <1>4, HistoriesGrow DEF Shapes
<1>10. Shapes'
  <2>1. pushed' \in 0..MaxPackets
    BY <1>1, <1>4 DEF Shapes
  <2> QED BY <1>1, <1>4, <1>5, <1>7, <1>8, <2>1 DEF Shapes, Queues, IsSeq
<1>11. IdsCounted' /\ RequestsPushed' /\ IdsGrow'
  BY <1>1, <1>4 DEF IdsCounted, RequestsPushed, IdsGrow
<1>12. RequestsSent' /\ AnswersSent' /\ AnswersArrived'
  BY <1>1, <1>5, <1>7, <1>9 DEF RequestsSent, AnswersSent, AnswersArrived
<1>13. RequestsArrived'
  BY <1>1, <1>6, <1>8, <1>9 DEF RequestsArrived
<1>14. Unanswered'
  BY <1>1, <1>4, <1>7, <1>8 DEF Unanswered
<1>15. ArrivedInOrder'
  <2> DEFINE q == wire["client"]
             r == wire'["client"]
  <2>1. IsSeq(q) /\ q # <<>> /\ r = Tail(q) /\ frame = Head(q)
    BY <1>0, <1>1, <1>2, <1>4, TailAt DEF Shapes, Queues, Loses
  <2>2. /\ \A i, j \in DOMAIN arrived : i < j => arrived[i].of < arrived[j].of
        /\ \A i, j \in DOMAIN q : i < j => q[i].of < q[j].of
        /\ \A i \in DOMAIN arrived, j \in DOMAIN q : arrived[i].of < q[j].of
    BY <1>1 DEF ArrivedInOrder
  <2> HIDE DEF q, r
  <2>3. /\ Size(q) \in Nat \ {0} /\ DOMAIN q = 1..Size(q) /\ DOMAIN r = 1..(Size(q) - 1)
        /\ \A i \in 1..(Size(q) - 1) : r[i] = q[i + 1]
        /\ frame = q[1]
    BY <2>1, TailFacts
  <2>4. ASSUME NEW i \in DOMAIN r, NEW j \in DOMAIN r, i < j
        PROVE  r[i].of < r[j].of
    <3>1. /\ i + 1 \in DOMAIN q /\ j + 1 \in DOMAIN q /\ i + 1 < j + 1
          /\ r[i] = q[i + 1] /\ r[j] = q[j + 1]
      BY <2>3, <2>4
    <3> QED BY <2>2, <3>1
  <2>5. ASSUME NEW i \in DOMAIN arrived', NEW j \in DOMAIN arrived', i < j
        PROVE  arrived'[i].of < arrived'[j].of
    <3>1. i \in DOMAIN arrived /\ arrived'[i] = arrived[i]
      BY <1>8, <2>5
    <3>2. CASE j \in DOMAIN arrived
      BY <1>8, <2>2, <2>5, <3>1, <3>2
    <3>3. CASE j = Size(arrived) + 1
      <4>1. arrived'[j].of = q[1].of /\ 1 \in DOMAIN q
        BY <1>3, <1>8, <2>3, <3>3
      <4> QED BY <2>2, <3>1, <4>1
    <3> QED BY <1>8, <2>5, <3>2, <3>3
  <2>6. ASSUME NEW i \in DOMAIN arrived', NEW j \in DOMAIN r
        PROVE  arrived'[i].of < r[j].of
    <3>1. j + 1 \in DOMAIN q /\ r[j] = q[j + 1] /\ 1 \in DOMAIN q /\ 1 < j + 1
      BY <2>3, <2>6
    <3>2. CASE i \in DOMAIN arrived
      BY <1>8, <2>2, <3>1, <3>2
    <3>3. CASE i = Size(arrived) + 1
      <4>1. arrived'[i].of = q[1].of
        BY <1>3, <1>8, <2>3, <3>3
      <4> QED BY <2>2, <3>1, <4>1
    <3> QED BY <1>8, <2>6, <3>2, <3>3
  <2> QED BY <2>4, <2>5, <2>6 DEF ArrivedInOrder, r
<1>16. LossesExplained'
  <2>1. Places("client")' + Places("server")' = Places("client") + Places("server")
    BY <1>1, <1>4, <1>5, <1>7, Lengths, PlacesAre, SMTT(30)
  <2> QED BY <1>1, <1>4, <2>1 DEF LossesExplained
<1> QED BY <1>10, <1>11, <1>12, <1>13, <1>14, <1>15, <1>16 DEF EchoInv

\* The client receives an answer.
LEMMA ReceiveClientKeeps ==
  ASSUME EchoInv, Receive("client")
  PROVE  EchoInv'
<1>0. "client" \in Ends /\ "server" \in Ends /\ Other("client") = "server"
  BY DEF Ends, Other
<1>1. /\ Shapes /\ IdsCounted /\ RequestsPushed /\ IdsGrow /\ RequestsSent /\ RequestsArrived
      /\ ArrivedInOrder /\ Unanswered /\ AnswersSent /\ AnswersArrived /\ LossesExplained
  BY DEF EchoInv
<1>2. PICK frame, decoded :
        /\ frame = Head(wire["server"])
        /\ decoded = [packet |-> Decode(frame.der), of |-> frame.of]
  OBVIOUS
<1>3. decoded.packet = Decode(frame.der) /\ decoded.of = frame.of
  BY <1>2
<1>4. /\ Loses(wire, wire', "server")
      /\ decoded.packet.id # AutoId => Gains(incoming, incoming', "client", decoded)
      /\ UNCHANGED <<arrived, outgoing, autoId, pushed, sent, vanished>>
  BY <1>0, <1>2, <1>3 DEF Receive, Loses, Gains
<1>5. /\ Queues(wire') /\ wire'["client"] = wire["client"] /\ frame \in ToSet(wire["server"])
      /\ ToSet(wire'["server"]) \subseteq ToSet(wire["server"])
      /\ Size(wire["server"]) \in Nat /\ Size(wire'["server"]) = Size(wire["server"]) - 1
  <2>1. Queues(wire) /\ "client" # "server"
    BY <1>1 DEF Shapes
  <2>2. /\ Queues(wire') /\ \A e \in Ends : e # "server" => wire'[e] = wire[e]
        /\ \A e \in Ends : ToSet(wire'[e]) \subseteq ToSet(wire[e])
        /\ Size(wire["server"]) \in Nat \ {0} /\ Size(wire'["server"]) = Size(wire["server"]) - 1
        /\ Head(wire["server"]) \in ToSet(wire["server"])
    BY <1>0, <1>4, <2>1, TailAt
  <2> QED BY <1>0, <1>2, <2>1, <2>2
<1>6. IsAnswered(decoded) /\ decoded.packet.id # AutoId
  <2>1. IsAnswer(frame)
    BY <1>1, <1>5 DEF AnswersSent
  <2>2. PICK request \in ToSet(arrived) :
          /\ frame.of = request.of
          /\ frame.der = Encode(request.packet, request.packet.id)
    BY <2>1 DEF IsAnswer
  <2>3. decoded.packet = Trip(request.packet) /\ decoded.of = request.of
    BY <1>3, <2>2 DEF Trip
  <2>4. IsPacket(request.packet) /\ request.packet.id # AutoId
    BY <1>1, ArrivedIsPacket DEF RequestsArrived
  <2>5. Trip(request.packet).id # AutoId
    BY <2>4, PacketTrip DEF AutoId
  <2> QED BY <2>2, <2>3, <2>5 DEF IsAnswered
<1>7. /\ Queues(incoming') /\ incoming'["server"] = incoming["server"]
      /\ ToSet(incoming'["client"]) = ToSet(incoming["client"]) \cup {decoded}
      /\ Size(incoming["client"]) \in Nat
      /\ Size(incoming'["client"]) = Size(incoming["client"]) + 1
  BY <1>0, <1>1, <1>4, <1>6, AppendAt DEF Shapes
<1>8. Shapes'
  <2>1. pushed' \in 0..MaxPackets
    BY <1>1, <1>4 DEF Shapes
  <2> QED BY <1>1, <1>4, <1>5, <1>7, <2>1 DEF Shapes, Queues, IsSeq
<1>9. IdsCounted' /\ RequestsPushed' /\ IdsGrow'
  BY <1>1, <1>4 DEF IdsCounted, RequestsPushed, IdsGrow
<1>10. RequestsSent' /\ RequestsArrived' /\ ArrivedInOrder'
  BY <1>1, <1>4, <1>5 DEF RequestsSent, IsSent, RequestsArrived, HasArrived, ArrivedInOrder
<1>11. Unanswered' /\ AnswersSent'
  BY <1>1, <1>4, <1>5, <1>7 DEF Unanswered, AnswersSent, IsAnswer
<1>12. AnswersArrived'
  BY <1>1, <1>4, <1>6, <1>7 DEF AnswersArrived, IsAnswered
<1>13. LossesExplained'
  <2>1. Places("client")' + Places("server")' = Places("client") + Places("server")
    BY <1>1, <1>4, <1>5, <1>7, Lengths, PlacesAre, SMTT(30)
  <2> QED BY <1>1, <1>4, <2>1 DEF LossesExplained
<1> QED BY <1>8, <1>9, <1>10, <1>11, <1>12, <1>13 DEF EchoInv


\* What the wires are after the loss of a frame.
LEMMA WireLoses ==
  ASSUME EchoInv, NEW end \in Ends, Loses(wire, wire', end), UNCHANGED <<sent, arrived>>
  PROVE  RequestsSent' /\ ArrivedInOrder' /\ AnswersSent'
<1>0. "client" \in Ends /\ "server" \in Ends /\ end \in {"client", "server"}
  BY DEF Ends
<1>1. Queues(wire) /\ RequestsSent /\ AnswersSent /\ ArrivedInOrder
  BY DEF EchoInv, Shapes
<1>2. /\ \A e \in Ends : e # end => wire'[e] = wire[e]
      /\ \A e \in Ends : ToSet(wire'[e]) \subseteq ToSet(wire[e])
      /\ wire'[end] = Tail(wire[end])
  BY <1>1, TailAt
<1>3. RequestsSent' /\ AnswersSent'
  BY <1>0, <1>1, <1>2 DEF RequestsSent, IsSent, AnswersSent, IsAnswer
<1> DEFINE q == wire["client"]
           r == wire'["client"]
<1>4. ASSUME NEW j \in DOMAIN r
      PROVE  IF end = "client" THEN j + 1 \in DOMAIN q /\ r[j] = q[j + 1]
                               ELSE j \in DOMAIN q /\ r[j] = q[j]
  <2>1. CASE end = "client"
    <3>1. IsSeq(q) /\ q # <<>> /\ r = Tail(q)
      BY <1>0, <1>1, <1>2, <2>1 DEF Queues, Loses
    <3> HIDE DEF q, r
    <3>2. /\ Size(q) \in Nat \ {0} /\ DOMAIN q = 1..Size(q) /\ DOMAIN r = 1..(Size(q) - 1)
          /\ \A i \in 1..(Size(q) - 1) : r[i] = q[i + 1]
      BY <3>1, TailFacts
    <3>3. j + 1 \in DOMAIN q /\ r[j] = q[j + 1]
      BY <1>4, <3>2
    <3> QED BY <2>1, <3>3
  <2>2. CASE end # "client"
    <3>1. r = q
      BY <1>0, <1>2, <2>2
    <3> QED BY <1>4, <2>2, <3>1
  <2> QED BY <2>1, <2>2
<1>5. /\ \A i, j \in DOMAIN arrived : i < j => arrived[i].of < arrived[j].of
      /\ \A i, j \in DOMAIN q : i < j => q[i].of < q[j].of
      /\ \A i \in DOMAIN arrived, j \in DOMAIN q : arrived[i].of < q[j].of
  BY <1>1 DEF ArrivedInOrder
<1>6. DOMAIN r \subseteq Nat
  <2>1. IsSeq(r)
    BY <1>0, <1>1, TailAt DEF Queues
  <2> HIDE DEF r
  <2>2. DOMAIN r = 1..Size(r) /\ Size(r) \in Nat
    BY <2>1 DEF IsSeq, Size
  <2> QED BY <2>2
<1> HIDE DEF q, r
<1>7. ASSUME NEW i \in DOMAIN r, NEW j \in DOMAIN r, i < j PROVE r[i].of < r[j].of
  <2>1. CASE end = "client"
    <3>1. /\ i + 1 \in DOMAIN q /\ j + 1 \in DOMAIN q /\ r[i] = q[i + 1] /\ r[j] = q[j + 1]
          /\ i + 1 < j + 1
      BY <1>4, <1>6, <1>7, <2>1
    <3> QED BY <1>5, <3>1
  <2>2. CASE end # "client"
    BY <1>4, <1>5, <1>7, <2>2
  <2> QED BY <2>1, <2>2
<1>8. ASSUME NEW i \in DOMAIN arrived, NEW j \in DOMAIN r PROVE arrived[i].of < r[j].of
  <2>1. CASE end = "client"
    BY <1>4, <1>5, <2>1
  <2>2. CASE end # "client"
    BY <1>4, <1>5, <2>2
  <2> QED BY <2>1, <2>2
<1>9. ArrivedInOrder'
  BY <1>5, <1>7, <1>8 DEF ArrivedInOrder, r
<1> QED BY <1>3, <1>9

\* decode() throws.
LEMMA ReceiveThrowsKeeps ==
  ASSUME EchoInv, NEW end \in Ends, ReceiveThrows(end)
  PROVE  EchoInv'
<1> DEFINE der == Head(wire[Other(end)]).der
           loss == Loss(end, der)
<1>0. /\ "client" \in Ends /\ "server" \in Ends /\ Other(end) \in Ends
      /\ Ends = {"client", "server"}
  BY DEF Ends, Other
<1>1. /\ Loses(wire, wire', Other(end)) /\ HasTable(der.type)
      /\ Grows(vanished, vanished', loss)
      /\ UNCHANGED <<outgoing, incoming, autoId, pushed, sent, arrived>>
  BY DEF ReceiveThrows, Loses, Grows
<1>10. Explained(loss)
  <2>1. loss.type = der.type
    BY DEF Loss
  <2> QED BY <1>1, <2>1 DEF Explained
<1> HIDE DEF der, loss
<1>2. /\ Shapes /\ IdsCounted /\ RequestsPushed /\ IdsGrow /\ RequestsArrived /\ Unanswered
      /\ AnswersArrived /\ LossesExplained
  BY DEF EchoInv
<1>3. /\ Queues(wire') /\ \A e \in Ends : e # Other(end) => wire'[e] = wire[e]
      /\ Size(wire[Other(end)]) \in Nat /\ Size(wire'[Other(end)]) = Size(wire[Other(end)]) - 1
  <2>1. Queues(wire)
    BY <1>2 DEF Shapes
  <2> QED BY <1>0, <1>1, <2>1, TailAt
<1>4. /\ IsSeq(vanished') /\ ToSet(vanished') = ToSet(vanished) \cup {loss}
      /\ Size(vanished) \in Nat /\ Size(vanished') = Size(vanished) + 1
  <2>1. IsSeq(vanished)
    BY <1>2 DEF Shapes
  <2> QED BY <1>1, <2>1, AppendFacts
<1>5. Shapes'
  <2>1. pushed' \in 0..MaxPackets
    BY <1>1, <1>2 DEF Shapes
  <2> QED BY <1>1, <1>2, <1>3, <1>4, <2>1 DEF Shapes, Queues, IsSeq
<1>6. IdsCounted' /\ RequestsPushed' /\ IdsGrow' /\ RequestsArrived' /\ Unanswered'
  BY <1>1, <1>2 DEF IdsCounted, RequestsPushed, IdsGrow, RequestsArrived, HasArrived, Unanswered
<1>7. AnswersArrived'
  BY <1>1, <1>2 DEF AnswersArrived, IsAnswered
<1>8. RequestsSent' /\ ArrivedInOrder' /\ AnswersSent'
  BY <1>0, <1>1, WireLoses
<1>9. LossesExplained'
  <2>1. Places("client") + Places("server") \in Nat
    BY <1>2, Lengths, PlacesAre
  <2>2. Places("client")' + Places("server")' = (Places("client") + Places("server")) - 1
    <3>1. CASE Other(end) = "client"
      <4>1. wire'["server"] = wire["server"]
        BY <1>0, <1>3, <3>1
      <4> QED BY <1>1, <1>2, <1>3, <3>1, <4>1, Lengths, PlacesAre, SMTT(30)
    <3>2. CASE Other(end) = "server"
      <4>1. wire'["client"] = wire["client"]
        BY <1>0, <1>3, <3>2
      <4> QED BY <1>1, <1>2, <1>3, <3>2, <4>1, Lengths, PlacesAre
    <3> QED BY <1>0, <3>1, <3>2
  <2>3. \A l \in ToSet(vanished') : Explained(l)
    BY <1>2, <1>4, <1>10 DEF LossesExplained, Explained
  <2>4. pushed = Places("client") + Places("server") + Size(vanished)
    BY <1>1, <1>2 DEF LossesExplained, Size
  <2>5. pushed' = Places("client")' + Places("server")' + Size(vanished')
    BY <1>1, <1>4, <2>1, <2>2, <2>4
  <2> QED BY <2>3, <2>5 DEF LossesExplained, Explained, Size
<1> QED BY <1>5, <1>6, <1>7, <1>8, <1>9 DEF EchoInv

\* clientManager sends a request back.
LEMMA EchoKeeps ==
  ASSUME EchoInv, Echo
  PROVE  EchoInv'
<1>0. "client" \in Ends /\ "server" \in Ends
  BY DEF Ends
<1>1. PICK entry : /\ entry = Head(incoming["server"])
                   /\ Gains(outgoing, outgoing', "server", entry)
  BY DEF Echo, Gains
<1>2. /\ Loses(incoming, incoming', "server")
      /\ UNCHANGED <<wire, autoId, pushed, sent, arrived, vanished>>
  BY DEF Echo, Loses
<1>3. /\ Shapes /\ IdsCounted /\ RequestsPushed /\ IdsGrow /\ RequestsSent /\ RequestsArrived
      /\ ArrivedInOrder /\ Unanswered /\ AnswersSent /\ AnswersArrived /\ LossesExplained
  BY DEF EchoInv
<1>4. /\ Queues(incoming') /\ incoming'["client"] = incoming["client"]
      /\ ToSet(incoming'["server"]) \subseteq ToSet(incoming["server"])
      /\ Size(incoming["server"]) \in Nat
      /\ Size(incoming'["server"]) = Size(incoming["server"]) - 1
      /\ entry \in ToSet(incoming["server"])
  <2>1. Queues(incoming) /\ "client" # "server"
    BY <1>3 DEF Shapes
  <2>2. /\ Queues(incoming') /\ \A e \in Ends : e # "server" => incoming'[e] = incoming[e]
        /\ \A e \in Ends : ToSet(incoming'[e]) \subseteq ToSet(incoming[e])
        /\ Size(incoming["server"]) \in Nat \ {0}
        /\ Size(incoming'["server"]) = Size(incoming["server"]) - 1
        /\ Head(incoming["server"]) \in ToSet(incoming["server"])
    BY <1>0, <1>2, <2>1, TailAt
  <2> QED BY <1>0, <1>1, <2>1, <2>2
<1>5. /\ Queues(outgoing') /\ outgoing'["client"] = outgoing["client"]
      /\ ToSet(outgoing'["server"]) = ToSet(outgoing["server"]) \cup {entry}
      /\ Size(outgoing["server"]) \in Nat
      /\ Size(outgoing'["server"]) = Size(outgoing["server"]) + 1
  BY <1>0, <1>1, <1>3, AppendAt DEF Shapes
<1>6. Shapes'
  <2>1. pushed' \in 0..MaxPackets
    BY <1>2, <1>3 DEF Shapes
  <2> QED BY <1>2, <1>3, <1>4, <1>5, <2>1 DEF Shapes, Queues, IsSeq
<1>7. IdsCounted' /\ RequestsPushed' /\ IdsGrow'
  BY <1>2, <1>3, <1>5 DEF IdsCounted, RequestsPushed, IdsGrow
<1>8. RequestsSent' /\ RequestsArrived' /\ ArrivedInOrder'
  BY <1>2, <1>3 DEF RequestsSent, IsSent, RequestsArrived, HasArrived, ArrivedInOrder
<1>9. Unanswered'
  BY <1>2, <1>3, <1>4, <1>5 DEF Unanswered
<1>10. AnswersSent' /\ AnswersArrived'
  BY <1>2, <1>3, <1>4 DEF AnswersSent, IsAnswer, AnswersArrived, IsAnswered
<1>11. LossesExplained'
  <2>1. Places("client")' + Places("server")' = Places("client") + Places("server")
    BY <1>2, <1>3, <1>4, <1>5, Lengths, PlacesAre
  <2> QED BY <1>2, <1>3, <2>1 DEF LossesExplained
<1> QED BY <1>6, <1>7, <1>8, <1>9, <1>10, <1>11 DEF EchoInv

\* EchoSession keeps its invariant, whatever the packets and however many.
THEOREM EchoInvariance == Spec => []EchoInv
<1>1. Init => EchoInv
  BY EchoInit
<1>2. EchoInv /\ [Next]_vars => EchoInv'
  <2> SUFFICES ASSUME EchoInv, [Next]_vars PROVE EchoInv'
    OBVIOUS
  <2>1. ASSUME NEW packet \in Packets, PushRequest(packet) PROVE EchoInv'
    BY <2>1, PushKeeps
  <2>2. ASSUME NEW end \in Ends, Send(end) PROVE EchoInv'
    <3>1. end = "client" \/ end = "server"
      BY DEF Ends
    <3> QED BY <2>2, <3>1, SendClientKeeps, SendServerKeeps
  <2>3. ASSUME NEW end \in Ends, SendThrows(end) PROVE EchoInv'
    BY <2>3, SendThrowsKeeps
  <2>4. ASSUME NEW end \in Ends, Receive(end) PROVE EchoInv'
    <3>1. end = "client" \/ end = "server"
      BY DEF Ends
    <3> QED BY <2>4, <3>1, ReceiveClientKeeps, ReceiveServerKeeps
  <2>5. ASSUME NEW end \in Ends, ReceiveThrows(end) PROVE EchoInv'
    BY <2>5, ReceiveThrowsKeeps
  <2>6. CASE Echo
    BY <2>6, EchoKeeps
  <2>7. CASE UNCHANGED vars
    <3>1. /\ Shapes' /\ IdsCounted' /\ RequestsPushed' /\ IdsGrow'
      BY <2>7 DEF EchoInv, vars, Shapes, Queues, IsSeq, IdsCounted, RequestsPushed, IdsGrow
    <3>2. RequestsSent' /\ RequestsArrived' /\ ArrivedInOrder' /\ Unanswered'
      BY <2>7 DEF EchoInv, vars, RequestsSent, IsSent, RequestsArrived, HasArrived,
                  ArrivedInOrder, Unanswered
    <3>3. AnswersSent' /\ AnswersArrived' /\ LossesExplained'
      BY <2>7 DEF EchoInv, vars, AnswersSent, IsAnswer, AnswersArrived, IsAnswered,
                  LossesExplained, Places
    <3> QED BY <3>1, <3>2, <3>3 DEF EchoInv
  <2> QED BY <2>1, <2>2, <2>3, <2>4, <2>5, <2>6, <2>7 DEF Next
<1> QED BY <1>1, <1>2, PTL DEF Spec


-----------------------------------------------------------------------------
(* What follows from the invariant.                                        *)

\* What an answer is: the request it answers, after another trip.
LEMMA AnswerIs ==
  ASSUME EchoInv, NEW response \in ToSet(incoming["client"])
  PROVE  \E request \in ToSet(arrived) :
           /\ response.of = request.of /\ IsPacket(request.packet) /\ IsPacket(response.packet)
           /\ response.packet = Trip(request.packet)
           /\ PreservedInt(request.packet.id) => response.packet.id = request.packet.id
<1>1. IdsGrow /\ RequestsArrived /\ AnswersArrived
  BY DEF EchoInv
<1>2. PICK request \in ToSet(arrived) :
        response.of = request.of /\ response.packet = Trip(request.packet)
  BY <1>1 DEF AnswersArrived, IsAnswered
<1>3. IsPacket(request.packet)
  BY <1>1, ArrivedIsPacket DEF RequestsArrived
<1>4. /\ IsPacket(Trip(request.packet))
      /\ PreservedInt(request.packet.id) => Trip(request.packet).id = request.packet.id
  BY <1>3, PacketTrip
<1> QED BY <1>2, <1>3, <1>4

\* What has arrived: a request that was sent, after a trip.
LEMMA ArrivedIs ==
  ASSUME EchoInv, NEW request \in ToSet(arrived), NEW original,
         original = sent[request.of].packet
  PROVE  /\ request.of \in DOMAIN sent /\ IsPacket(original)
         /\ request.packet = Trip(original)
         /\ PreservedInt(original.id) => request.packet.id = original.id
<1>1. IdsGrow /\ RequestsArrived
  BY DEF EchoInv
<1>2. request.of \in DOMAIN sent /\ request.packet = Trip(original)
  BY <1>1 DEF RequestsArrived, HasArrived
<1>3. IsPacket(original)
  BY <1>1, <1>2 DEF IdsGrow
<1>4. PreservedInt(original.id) => Trip(original).id = original.id
  BY <1>3, PacketTrip
<1> QED BY <1>2, <1>3, <1>4

\* Every packet in a queue, under way or answered, holds ints that fit an int, and the
\* counters stay within the number of packets pushed.
THEOREM EchoTypeCorrect == Spec => []TypeOK
<1>1. EchoInv => TypeOK
  <2> SUFFICES ASSUME EchoInv PROVE TypeOK
    OBVIOUS
  <2>1. /\ Shapes /\ IdsCounted /\ RequestsPushed /\ IdsGrow /\ RequestsArrived /\ Unanswered
    BY DEF EchoInv
  <2>2. pushed \in 0..MaxPackets /\ pushed \in Nat /\ Size(sent) \in Nat
    BY <2>1, Lengths DEF Shapes
  <2>3. autoId \in [Ends -> 0..MaxPackets] /\ autoId["server"] = 0
    <3>1. autoId["client"] \in 0..MaxPackets
      BY <2>1, <2>2, Lengths, MaxPacketsAssumption DEF IdsCounted
    <3>2. autoId["server"] = 0 /\ 0 \in 0..MaxPackets
      BY <2>1, MaxPacketsAssumption DEF IdsCounted
    <3>3. autoId = [end \in Ends |-> autoId[end]]
      BY <2>1 DEF Shapes
    <3>4. \A end \in Ends : autoId[end] \in 0..MaxPackets
      BY <3>1, <3>2 DEF Ends
    <3> QED BY <3>2, <3>3, <3>4
  <2>4. ASSUME NEW entry \in Entries
        PROVE  entry.of \in 0..Size(sent) /\ IsPacket(entry.packet)
    <3>1. DOMAIN sent = 1..Size(sent)
      BY <2>1, Lengths
    <3>2. \A request \in ToSet(arrived) :
            request.of \in 0..Size(sent) /\ IsPacket(request.packet)
      BY <2>1, <2>2, <3>1, ArrivedIsPacket DEF RequestsArrived, HasArrived
    <3>3. CASE entry \in ToSet(outgoing["client"])
      BY <2>1, <2>2, <3>3, PacketsAssumption DEF RequestsPushed
    <3>4. CASE entry \in ToSet(incoming["client"])
      BY <3>2, <3>4, AnswerIs
    <3>5. CASE entry \in ToSet(outgoing["server"]) \cup ToSet(incoming["server"])
      BY <2>1, <3>2, <3>5 DEF Unanswered
    <3> QED BY <2>4, <3>3, <3>4, <3>5 DEF Entries, Ends
  <2>5. ASSUME NEW packet, IsPacket(packet), NEW n \in IntFields(packet) \cup {packet.id}
        PROVE  Fits(n, Width)
    BY <2>5 DEF IsPacket, IntFields
  <2>6. Len(sent) = Size(sent)
    BY DEF Size
  <2> QED BY <2>2, <2>3, <2>4, <2>5, <2>6 DEF TypeOK
<1> QED BY <1>1, EchoInvariance, PTL

\* decode() gives the server the packet that encode() was given by the client if and
\* only if its ints and strings are ones the codec preserves.
THEOREM UnalteredExactlyIfPreserved == Spec => []UnalteredIfPreserved
<1>1. EchoInv => UnalteredIfPreserved
  <2> SUFFICES ASSUME EchoInv, NEW request \in ToSet(arrived)
               PROVE  request.packet = sent[request.of].packet <=>
                        Preserved(sent[request.of].packet)
    BY DEF UnalteredIfPreserved
  <2>1. PICK original : original = sent[request.of].packet
    OBVIOUS
  <2>2. IsPacket(original) /\ request.packet = Trip(original)
    BY <2>1, ArrivedIs
  <2>3. Trip(original) = original <=> Preserved(original)
    BY <2>2, PacketTrip
  <2> QED BY <2>1, <2>2, <2>3
<1> QED BY <1>1, EchoInvariance, PTL

\* The echo of a packet is the packet the server saw: encoding and decoding it a second
\* time changes nothing more.
THEOREM EchoSettled == Spec => []EchoSettles
<1>1. EchoInv => EchoSettles
  <2> SUFFICES ASSUME EchoInv, NEW response \in ToSet(incoming["client"]),
                      NEW request \in ToSet(arrived), response.of = request.of
               PROVE  response.packet = request.packet
    BY DEF EchoSettles
  <2>1. PICK answered \in ToSet(arrived) :
          response.of = answered.of /\ response.packet = Trip(answered.packet)
    BY AnswerIs
  <2>2. answered = request
    <3>1. PICK i \in DOMAIN arrived : answered = arrived[i]
      BY DEF ToSet
    <3>2. PICK j \in DOMAIN arrived : request = arrived[j]
      BY DEF ToSet
    <3>3. IsSeq(arrived) /\ ArrivedInOrder /\ RequestsArrived /\ DOMAIN sent = 1..Size(sent)
      BY Lengths DEF EchoInv, Shapes
    <3>4. DOMAIN arrived \subseteq Nat
      BY <3>3 DEF IsSeq
    <3>5. arrived[i].of = arrived[j].of /\ arrived[i].of \in Int
      <4>1. answered.of = request.of /\ answered.of \in DOMAIN sent
        BY <2>1, <3>3 DEF RequestsArrived, HasArrived
      <4>2. Size(sent) \in Nat
        BY Lengths DEF EchoInv
      <4> QED BY <3>1, <3>2, <3>3, <4>1, <4>2
    <3>6. ~(i < j) /\ ~(j < i)
      BY <3>3, <3>5 DEF ArrivedInOrder
    <3>7. i = j
      BY <3>4, <3>6
    <3> QED BY <3>1, <3>2, <3>7
  <2>3. PICK original : IsPacket(original) /\ request.packet = Trip(original)
    BY ArrivedIs
  <2>4. Trip(request.packet) = request.packet
    BY <2>3, PacketTrip
  <2> QED BY <2>1, <2>2, <2>4
<1> QED BY <1>1, EchoInvariance, PTL

\* A client can tell its answers apart by their ids: sendMessage() gives no id twice, and
\* an answer comes with the id of its request unless the codec alters it.
THEOREM AnswersMatch == Spec => []AnswersMatchRequests
<1>1. EchoInv => AnswersMatchRequests
  <2> SUFFICES ASSUME EchoInv PROVE AnswersMatchRequests
    OBVIOUS
  <2>1. ASSUME NEW response \in ToSet(incoming["client"]),
               PreservedInt(sent[response.of].packet.id)
        PROVE  response.packet.id = sent[response.of].packet.id
    <3>1. PICK request \in ToSet(arrived) :
            /\ response.of = request.of
            /\ PreservedInt(request.packet.id) => response.packet.id = request.packet.id
      BY AnswerIs
    <3>2. request.packet.id = sent[request.of].packet.id
      BY <2>1, <3>1, ArrivedIs
    <3> QED BY <2>1, <3>1, <3>2
  <2>2. ASSUME NEW i \in DOMAIN sent, NEW j \in DOMAIN sent, sent[i].numbered,
               sent[j].numbered, sent[i].packet.id = sent[j].packet.id
        PROVE  i = j
    <3>1. IdsGrow /\ DOMAIN sent = 1..Size(sent) /\ Size(sent) \in Nat
      BY Lengths DEF EchoInv
    <3>2. sent[i].packet.id \in Int
      BY <2>2, <3>1 DEF IdsGrow, IsPacket
    <3>3. ~(i < j) /\ ~(j < i)
      BY <2>2, <3>1, <3>2 DEF IdsGrow
    <3> QED BY <3>1, <3>3
  <2> QED BY <2>1, <2>2 DEF AnswersMatchRequests
<1> QED BY <1>1, EchoInvariance, PTL

\* Packets with a table, whose Arrow stream may fail, and those with an empty byte
\* vector, at the client that was given them, are the only ones encode() and decode()
\* lose, and every other one is in exactly one place.
THEOREM LossesAreExplained == Spec => []LossesExplained
<1>1. EchoInv => LossesExplained
  BY DEF EchoInv
<1> QED BY <1>1, EchoInvariance, PTL

=============================================================================
