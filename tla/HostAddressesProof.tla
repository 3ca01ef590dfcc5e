------------------------- MODULE HostAddressesProof --------------------------
(***************************************************************************)
(* What the test server's start and the helpers of TcpNetworking keep, for *)
(* all lists of interfaces and all texts: AddressesRight and VerdictsRight *)
(* of HostAddresses, from an invariant of the loops.                       *)
(***************************************************************************)
EXTENDS HostAddresses, LoopLemmas, SequenceTheorems

-----------------------------------------------------------------------------
(* The octets of an address.                                               *)

Octets == Seq(0..Other)
AllDigits(octet) == \A i \in DOMAIN octet : octet[i] \in Digits

\* Of some integers with an upper bound, Max is the greatest.
LEMMA MaxIs ==
  ASSUME NEW T, T \subseteq Int, T # {}, NEW bound \in Int, \A k \in T : k <= bound
  PROVE  Max(T) \in T /\ \A k \in T : k <= Max(T)
<1> DEFINE D == {d \in Nat : bound - d \in T}
<1>1. D \subseteq Nat /\ D # {}
  <2>1. PICK k \in T : TRUE
    OBVIOUS
  <2>2. bound - k \in Nat /\ bound - (bound - k) = k
    OBVIOUS
  <2> QED BY <2>2
<1>2. PICK d \in D : \A e \in D : d <= e
  <2> HIDE DEF D
  <2> QED BY <1>1, LeastNatural
<1>3. PICK m \in T : m = bound - d
  OBVIOUS
<1>4. ASSUME NEW k \in T PROVE k <= m
  <2>1. bound - k \in Nat /\ bound - (bound - k) = k
    OBVIOUS
  <2>2. d <= bound - k
    BY <1>2, <2>1
  <2> QED BY <1>3, <2>1, <2>2
<1>5. m \in T /\ \A k \in T : m >= k
  BY <1>4
<1>6. Max(T) \in T /\ \A k \in T : Max(T) >= k
  BY <1>5 DEF Max
<1> QED BY <1>6

\* The same of Min.
LEMMA MinIs ==
  ASSUME NEW T, T \subseteq Nat, T # {}
  PROVE  Min(T) \in T /\ \A k \in T : Min(T) <= k
<1>1. PICK m \in T : \A k \in T : m <= k
  BY LeastNatural
<1> QED BY <1>1 DEF Min

\* stoi() reads digits of the octet: none of an empty one, all of one of digits.
LEMMA NumeralIs ==
  ASSUME NEW octet \in Octets
  PROVE  /\ Numeral(octet) \in Seq(Digits)
         /\ octet = <<>> => Numeral(octet) = <<>>
         /\ octet # <<>> /\ AllDigits(octet) =>
              Numeral(octet) # <<>> /\ Value(octet) = Magnitude(octet)
<1>1. PICK n \in Nat : /\ n = Len(octet) /\ DOMAIN octet = 1..n
                       /\ \A i \in 1..n : octet[i] \in Int
  BY DEF Octets, Other
<1> DEFINE blanks == {k \in 0..n : \A i \in 1..k : octet[i] = Space}
           first == Start(octet)
           ends == {k \in (first - 1)..n : \A i \in first..k : octet[i] \in Digits}
           last == Max(ends)
<1>2. Blanks(octet) \in blanks
  <2>1. blanks \subseteq Int /\ 0 \in blanks /\ \A k \in blanks : k <= n
    BY <1>1
  <2> HIDE DEF blanks
  <2>2. Max(blanks) \in blanks
    <3>1. n \in Int
      BY <1>1
    <3> QED BY <2>1, <3>1, MaxIs
  <2> QED BY <1>1, <2>2 DEF Blanks, blanks
<1>3. Sign(octet) \in {0, 1} /\ (Blanks(octet) = n => Sign(octet) = 0)
  BY <1>1, <1>2 DEF Sign
<1>4. first \in 1..(n + 1)
  BY <1>1, <1>2, <1>3 DEF Start
<1>5. last \in ends /\ \A k \in ends : k <= last
  <2>1. ends \subseteq Int /\ first - 1 \in ends /\ \A k \in ends : k <= n
    <3> HIDE DEF first
    <3> QED BY <1>1, <1>4
  <2>2. n \in Int
    BY <1>1
  <2> HIDE DEF ends
  <2> QED BY <2>1, <2>2, MaxIs
<1>6. Numeral(octet) = SubSeq(octet, first, last)
  BY <1>1 DEF Numeral
<1> HIDE DEF first, last
<1>7. first \in Int /\ last \in Int /\ \A i \in first..last : octet[i] \in Digits
  BY <1>4, <1>5
<1>8. /\ Numeral(octet) \in Seq(Digits)
      /\ Len(Numeral(octet)) = IF first <= last THEN last - first + 1 ELSE 0
  BY <1>6, <1>7, SubSeqProperties
<1>9. ASSUME octet = <<>> PROVE Numeral(octet) = <<>>
  <2>1. n = 0
    BY <1>1, <1>9
  <2>2. last < first
    BY <1>4, <1>5, <2>1
  <2> QED BY <1>6, <1>7, <2>2, SubSeqEmpty
<1>10. ASSUME octet # <<>>, AllDigits(octet)
       PROVE  Numeral(octet) # <<>> /\ Value(octet) = Magnitude(octet)
  <2>1. n > 0 /\ \A i \in 1..n : octet[i] \in Digits
    BY <1>1, <1>10 DEF AllDigits, Octets
  <2>2. Blanks(octet) = 0
    <3>1. octet[1] # Space
      BY <2>1, <1>1 DEF Digits, Space
    <3> QED BY <1>1, <1>2, <3>1
  <2>3. Sign(octet) = 0
    <3>1. octet[1] # Minus /\ octet[1] # Plus
      BY <2>1, <1>1 DEF Digits, Minus, Plus
    <3> QED BY <2>2, <3>1 DEF Sign
  <2>4. first = 1
    BY <2>2, <2>3 DEF first, Start
  <2>5. n \in ends
    BY <1>1, <2>1, <2>4
  <2>6. last >= 1
    BY <1>1, <1>5, <1>7, <2>1, <2>5
  <2>7. Len(Numeral(octet)) # 0
    BY <1>7, <1>8, <2>4, <2>6
  <2>8. Value(octet) = Magnitude(octet)
    BY <2>3 DEF Value
  <2> QED BY <2>7, <2>8
<1> QED BY <1>8, <1>9, <1>10

\* What the loop over n digits computes.
Values(n, digits, r) ==
  r = [k \in 0..n |-> IF k = 0 THEN 0 ELSE 10 * r[k - 1] + digits[k]]

\* The loop has a value after each digit.
LEMMA ValuesExist ==
  ASSUME NEW n \in Nat, NEW digits, \A k \in 1..n : digits[k] \in Nat
  PROVE  \E r : Values(n, digits, r)
<1> DEFINE V == Nat
           base == 0
           step == [k \in Nat |-> [w \in V |-> IF k \in 1..n THEN 10 * w + digits[k] ELSE w]]
<1>1. base \in V /\ step \in [Nat -> [V -> V]]
  OBVIOUS
<1>2. PICK f \in [Nat -> V] : f[0] = base /\ \A k \in Nat : f[k + 1] = step[k + 1][f[k]]
  <2> HIDE DEF V, base, step
  <2> QED BY <1>1, LoopExists
<1>3. ASSUME NEW k \in 1..n PROVE f[k] = 10 * f[k - 1] + digits[k]
  <2>1. k - 1 \in Nat /\ (k - 1) + 1 = k
    OBVIOUS
  <2>2. f[k] = step[k][f[k - 1]] /\ f[k - 1] \in V
    BY <1>2, <2>1
  <2> QED BY <2>2
<1>4. Values(n, digits, [k \in 0..n |-> f[k]])
  BY <1>2, <1>3 DEF Values
<1> QED BY <1>4

\* Each of them is a number.
LEMMA ValuesAre ==
  ASSUME NEW n \in Nat, NEW digits, \A k \in 1..n : digits[k] \in Nat,
         NEW value, Values(n, digits, value)
  PROVE  value[n] \in Nat
<1> DEFINE U == {k \in Nat : k <= n => value[k] \in Nat}
<1>1. 0 \in U
  BY DEF Values
<1>2. ASSUME NEW k \in Nat, k \in U PROVE k + 1 \in U
  <2>1. SUFFICES ASSUME k + 1 <= n PROVE value[k + 1] \in Nat
    OBVIOUS
  <2>2. k + 1 \in 1..n /\ k + 1 \in 0..n /\ (k + 1) - 1 = k /\ k <= n /\ k + 1 # 0
    BY <2>1
  <2>3. value[k + 1] = 10 * value[k] + digits[k + 1]
    BY <2>2 DEF Values
  <2> QED BY <1>2, <2>2, <2>3
<1>3. Nat \subseteq U
  <2> HIDE DEF U
  <2> QED BY <1>1, <1>2, Induction
<1> QED BY <1>3

\* The value of an octet's digits is a number.
LEMMA MagnitudeIs ==
  ASSUME NEW octet \in Octets
  PROVE  Magnitude(octet) \in Nat
<1>1. PICK n, digits : n = Len(Numeral(octet)) /\ digits = Numeral(octet)
  OBVIOUS
<1>2. n \in Nat /\ \A k \in 1..n : digits[k] \in Nat
  <2>1. digits \in Seq(Digits)
    BY <1>1, NumeralIs
  <2> QED BY <1>1, <2>1 DEF Digits
<1> DEFINE value == CHOOSE r : Values(n, digits, r)
<1>3. Values(n, digits, value)
  BY <1>2, ValuesExist
<1>4. Magnitude(octet) = value[n]
  BY <1>1 DEF Magnitude, Values
<1> HIDE DEF value
<1> QED BY <1>2, <1>3, <1>4, ValuesAre

\* The loop's body lets no octet of a dotted quad go, and of digits and letters only
\* such octets pass.
QuadOctet(octet) ==
  /\ octet # <<>> /\ AllDigits(octet) /\ (octet[1] = 0 => Len(octet) = 1)
  /\ Magnitude(octet) <= 255

\* What the loop's body makes of an octet.
LEMMA VerdictIs ==
  ASSUME NEW octet \in Octets
  PROVE  /\ QuadOctet(octet) => OctetVerdict(octet) = "good"
         /\ OctetVerdict(octet) = "good" /\
              (\A i \in DOMAIN octet : octet[i] \in Digits \cup {Letter}) => QuadOctet(octet)
         /\ OctetVerdict(octet) = "throws" => NoInt(octet)
         /\ OctetVerdict(octet) \in {"good", "throws", "invalid"}
<1>0. PICK n : n = Len(octet)
  OBVIOUS
<1> DEFINE Padded == n > 1 /\ octet[1] = 0
           Lettered == \E i \in DOMAIN octet : octet[i] = Letter
           Large == Value(octet) > 255
<1>1. /\ Padded => OctetVerdict(octet) = "invalid"
      /\ ~Padded /\ Lettered => OctetVerdict(octet) = "invalid"
      /\ ~Padded /\ ~Lettered /\ NoInt(octet) => OctetVerdict(octet) = "throws"
      /\ ~Padded /\ ~Lettered /\ ~NoInt(octet) /\ Large => OctetVerdict(octet) = "invalid"
      /\ ~Padded /\ ~Lettered /\ ~NoInt(octet) /\ ~Large => OctetVerdict(octet) = "good"
  <2>1. OctetVerdict(octet) =
          IF Padded THEN "invalid" ELSE IF Lettered THEN "invalid"
          ELSE IF NoInt(octet) THEN "throws" ELSE IF Large THEN "invalid" ELSE "good"
    BY <1>0 DEF OctetVerdict
  <2> HIDE DEF Padded, Lettered, Large
  <2> QED BY <2>1
<1>2. /\ Magnitude(octet) \in Nat /\ IntMax \in Nat /\ IntMax > 255 /\ n \in Nat
      /\ octet # <<>> /\ AllDigits(octet) =>
           Numeral(octet) # <<>> /\ Value(octet) = Magnitude(octet)
      /\ octet = <<>> => Numeral(octet) = <<>>
      /\ octet # <<>> => n >= 1
  BY <1>0, MagnitudeIs, NumeralIs, IntMaxAssumption DEF Octets
<1>3. ASSUME QuadOctet(octet) PROVE OctetVerdict(octet) = "good"
  <2>1. ~Padded
    BY <1>0, <1>2, <1>3 DEF QuadOctet
  <2>2. ~Lettered
    BY <1>3 DEF QuadOctet, AllDigits, Digits, Letter
  <2>3. ~NoInt(octet) /\ ~Large
    BY <1>2, <1>3 DEF QuadOctet, NoInt
  <2> HIDE DEF Padded, Lettered, Large
  <2> QED BY <1>1, <2>1, <2>2, <2>3
<1>4. ASSUME OctetVerdict(octet) = "good",
             \A i \in DOMAIN octet : octet[i] \in Digits \cup {Letter}
      PROVE  QuadOctet(octet)
  <2>1. ~Padded /\ ~Lettered /\ ~NoInt(octet) /\ ~Large
    <3> HIDE DEF Padded, Lettered, Large
    <3> QED BY <1>1, <1>4
  <2>2. AllDigits(octet)
    BY <1>4, <2>1 DEF AllDigits
  <2>3. octet # <<>>
    BY <1>2, <2>1 DEF NoInt
  <2>4. Value(octet) = Magnitude(octet)
    BY <1>2, <2>2, <2>3
  <2>5. octet[1] = 0 => n = 1
    BY <1>2, <2>1, <2>3
  <2>6. Magnitude(octet) <= 255
    BY <1>2, <2>1, <2>4
  <2> QED BY <1>0, <2>2, <2>3, <2>5, <2>6 DEF QuadOctet
<1>5. OctetVerdict(octet) = "throws" => NoInt(octet)
  <2> HIDE DEF Padded, Lettered, Large
  <2> QED BY <1>1
<1>6. OctetVerdict(octet) \in {"good", "throws", "invalid"}
  <2> HIDE DEF Padded, Lettered, Large
  <2> QED BY <1>1
<1> QED BY <1>3, <1>4, <1>5, <1>6

\* Quad, octet by octet.
LEMMA QuadIs ==
  ASSUME NEW t \in Seq(Octets)
  PROVE  Quad(t) <=> Len(t) = 4 /\ \A i \in 1..4 : QuadOctet(t[i])
BY DEF Quad, QuadOctet, AllDigits

\* A length, named, so that the provers take it as it is.
Length(s) == Len(s)

\* A dotted quad has at least seven characters.
LEMMA QuadIsLong ==
  ASSUME NEW t \in Seq(Octets), Quad(t)
  PROVE  ~(Size(t) < 7)
<1> DEFINE Joins(f) == f = [i \in 1..4 |-> IF i = 1 THEN t[i] ELSE f[i - 1] \o t[i]]
           joined == CHOOSE f : Joins(f)
           two == t[1] \o t[2]
           three == two \o t[3]
           four == three \o t[4]
<1>1. Len(t) = 4 /\ \A i \in 1..4 : t[i] # <<>>
  BY DEF Quad
<1>2. FlattenSeq(t) = joined[4]
  BY <1>1 DEF FlattenSeq
<1>3. Joins([i \in 1..4 |-> IF i = 1 THEN t[1] ELSE IF i = 2 THEN two
                            ELSE IF i = 3 THEN three ELSE four])
  <2> HIDE DEF two, three, four
  <2> QED BY DEF two, three, four
<1>4. Joins(joined)
  BY <1>3
<1> HIDE DEF joined
<1>5. /\ joined[1] = t[1] /\ joined[2] = joined[1] \o t[2]
      /\ joined[3] = joined[2] \o t[3] /\ joined[4] = joined[3] \o t[4]
  <2>1. joined[1] = t[1]
    BY <1>4
  <2>2. ASSUME NEW i \in 1..4, NEW j \in 1..4, i = j + 1 PROVE joined[i] = joined[j] \o t[i]
    <3>1. i # 1 /\ i - 1 = j
      BY <2>2
    <3> HIDE DEF two, three, four
    <3> QED BY <1>4, <3>1
  <2> HIDE DEF Joins, two, three, four
  <2>3. /\ 1 \in 1..4 /\ 2 \in 1..4 /\ 3 \in 1..4 /\ 4 \in 1..4
        /\ 2 = 1 + 1 /\ 3 = 2 + 1 /\ 4 = 3 + 1
    OBVIOUS
  <2> QED BY <2>1, <2>2, <2>3, Zenon
<1>6. \A i \in 1..4 : t[i] \in Octets
  BY <1>1
<1>7. /\ t[1] \in Octets /\ t[2] \in Octets /\ t[3] \in Octets /\ t[4] \in Octets
      /\ t[1] # <<>> /\ t[2] # <<>> /\ t[3] # <<>> /\ t[4] # <<>>
  BY <1>1, <1>6
<1>8. \A s \in Octets : s # <<>> => Length(s) \in Nat /\ Length(s) >= 1
  BY DEF Octets, Length
<1>9. \A s, r \in Octets : s \o r \in Octets /\ Length(s \o r) = Length(s) + Length(r)
  BY DEF Octets, Length
<1>10. joined[1] \in Octets /\ joined[2] \in Octets /\ joined[3] \in Octets
  BY <1>5, <1>7, <1>9
<1>11. /\ Length(joined[2]) = Length(t[1]) + Length(t[2])
       /\ Length(joined[3]) = Length(joined[2]) + Length(t[3])
       /\ Length(joined[4]) = Length(joined[3]) + Length(t[4])
  BY <1>5, <1>7, <1>9, <1>10
<1>12. Length(joined[4]) >= 4 /\ Length(joined[4]) \in Nat
  BY <1>7, <1>8, <1>11
<1> QED BY <1>1, <1>2, <1>12 DEF Size, Length

-----------------------------------------------------------------------------
(* The inductive invariant.                                                *)

\* What AddressesRight says the functions return.
FirstLocal == FirstOf(IsLocal, LAMBDA entry : entry.ip)
FirstBroadcast == FirstOf(Broadcasts, LAMBDA entry : entry.broadcast)

Shapes == at \in Nat /\ list \in Seq(ToSet(list)) /\ text \in Seq(Octets)

\* The loops over the list have passed over every entry before the position they are at.
WalkInv ==
  /\ pc = "validate" /\ at = 0 => result = NoAddress
  /\ pc = "lookup" => result = NoAddress /\ \A i \in DOMAIN list : i < at => ~IsLocal(list[i])
  /\ pc = "broadcast" =>
       result = NoAddress /\ \A i \in DOMAIN list : i < at => ~Broadcasts(list[i])
  /\ pc \in {"bind", "serving", "bindFailed"} => result = FirstLocal
  /\ pc = "returned" => result = FirstBroadcast

\* The loop over the octets has found every octet before the position it is at good.
TextInv ==
  /\ pc \notin {"octets", "valid", "invalid", "throws"} => text = <<>>
  /\ pc = "octets" => at <= Len(text) + 1 /\
                      \A i \in DOMAIN text : i < at => OctetVerdict(text[i]) = "good"
  /\ pc = "valid" => Len(text) = 4 /\ \A i \in 1..4 : OctetVerdict(text[i]) = "good"
  /\ pc = "invalid" => ~Quad(text)
  /\ pc = "throws" => \E i \in DOMAIN text : NoInt(text[i])

HostInv == Shapes /\ WalkInv /\ TextInv

\* What the first entry is, if none before it passes and if none passes at all.
LEMMA FirstIs ==
  ASSUME Shapes
  PROVE  /\ \A i \in DOMAIN list :
              IsLocal(list[i]) /\ (\A j \in DOMAIN list : j < i => ~IsLocal(list[j])) =>
                FirstLocal = list[i].ip
         /\ (\A j \in DOMAIN list : ~IsLocal(list[j])) => FirstLocal = NoAddress
         /\ \A i \in DOMAIN list :
              Broadcasts(list[i]) /\ (\A j \in DOMAIN list : j < i => ~Broadcasts(list[j])) =>
                FirstBroadcast = list[i].broadcast
         /\ (\A j \in DOMAIN list : ~Broadcasts(list[j])) => FirstBroadcast = NoAddress
<1>1. DOMAIN list \subseteq Nat
  BY DEF Shapes
<1>2. ASSUME NEW T, T \subseteq DOMAIN list, NEW i \in T,
             \A j \in DOMAIN list : j < i => j \notin T
      PROVE  Min(T) = i
  <2>1. Min(T) \in T /\ \A k \in T : Min(T) <= k
    BY <1>1, <1>2, MinIs
  <2>2. ~(Min(T) < i) /\ Min(T) <= i
    BY <1>2, <2>1
  <2> QED BY <1>1, <1>2, <2>1, <2>2
<1> DEFINE local == {i \in DOMAIN list : IsLocal(list[i])}
           broadcasting == {i \in DOMAIN list : Broadcasts(list[i])}
<1>3. /\ local = {} => FirstLocal = NoAddress
      /\ local # {} => FirstLocal = list[Min(local)].ip
  BY DEF FirstLocal, FirstOf
<1>4. /\ broadcasting = {} => FirstBroadcast = NoAddress
      /\ broadcasting # {} => FirstBroadcast = list[Min(broadcasting)].broadcast
  BY DEF FirstBroadcast, FirstOf
<1>5. ASSUME NEW i \in DOMAIN list, IsLocal(list[i]),
             \A j \in DOMAIN list : j < i => ~IsLocal(list[j])
      PROVE  FirstLocal = list[i].ip
  <2>1. local \subseteq DOMAIN list /\ i \in local /\ \A j \in DOMAIN list : j < i => j \notin local
    BY <1>5
  <2> HIDE DEF local
  <2>2. Min(local) = i
    BY <1>2, <2>1
  <2> QED BY <1>3, <2>1, <2>2
<1>6. ASSUME NEW i \in DOMAIN list, Broadcasts(list[i]),
             \A j \in DOMAIN list : j < i => ~Broadcasts(list[j])
      PROVE  FirstBroadcast = list[i].broadcast
  <2>1. /\ broadcasting \subseteq DOMAIN list /\ i \in broadcasting
        /\ \A j \in DOMAIN list : j < i => j \notin broadcasting
    BY <1>6
  <2> HIDE DEF broadcasting
  <2>2. Min(broadcasting) = i
    BY <1>2, <2>1
  <2> QED BY <1>4, <2>1, <2>2
<1>7. (\A j \in DOMAIN list : ~IsLocal(list[j])) => local = {}
  OBVIOUS
<1>8. (\A j \in DOMAIN list : ~Broadcasts(list[j])) => broadcasting = {}
  OBVIOUS
<1> HIDE DEF local, broadcasting
<1> QED BY <1>3, <1>4, <1>5, <1>6, <1>7, <1>8

\* There is no first entry of an empty list.
LEMMA NoFirst == list = <<>> => FirstLocal = NoAddress /\ FirstBroadcast = NoAddress
<1> SUFFICES ASSUME list = <<>> PROVE FirstLocal = NoAddress /\ FirstBroadcast = NoAddress
  OBVIOUS
<1>1. {i \in DOMAIN list : IsLocal(list[i])} = {} /\ {i \in DOMAIN list : Broadcasts(list[i])} = {}
  OBVIOUS
<1> QED BY <1>1 DEF FirstLocal, FirstBroadcast, FirstOf

\* The invariant holds before a call.
LEMMA HostInit == Init => HostInv
<1> SUFFICES ASSUME Init PROVE HostInv
  OBVIOUS
<1>1. list = <<>> /\ at = 0 /\ result = NoAddress
  BY DEF Init
<1>2. \/ pc \in {"validate", "broadcast"} /\ text = <<>>
      \/ pc = "octets" /\ text \in Texts
  BY DEF Init
<1>3. Shapes
  <2>1. text \in Seq(Octets)
    <3>1. \A t \in Texts : t \in Seq(Octets)
      BY TextsAssumption DEF Octets
    <3>2. <<>> \in Seq(Octets)
      OBVIOUS
    <3> QED BY <1>2, <3>1, <3>2
  <2>2. list \in Seq(ToSet(list))
    BY <1>1
  <2> QED BY <1>1, <2>1, <2>2 DEF Shapes
<1>4. WalkInv
  BY <1>1, <1>2 DEF WalkInv
<1>5. TextInv
  <2>1. \A i \in DOMAIN text : ~(i < at)
    BY <1>1, <1>3 DEF Shapes
  <2>2. at <= Len(text) + 1
    BY <1>1, <1>3 DEF Shapes
  <2> QED BY <1>2, <2>1, <2>2 DEF TextInv
<1> QED BY <1>3, <1>4, <1>5 DEF HostInv

\* What the functions return does not change with the loops.
LEMMA FirstStays == list' = list => FirstLocal' = FirstLocal /\ FirstBroadcast' = FirstBroadcast
BY DEF FirstLocal, FirstBroadcast, FirstOf

\* getifaddrs() succeeds.
LEMMA EnumerateKeeps ==
  ASSUME HostInv, NEW caller \in {"validate", "lookup", "broadcast"}, Enumerate(caller)
  PROVE  HostInv'
<1>1. /\ pc = caller /\ list' \in Lists /\ at' = 1 /\ pc' = pc /\ result' = result /\ text' = text
  BY DEF Enumerate
<1>2. Shapes /\ WalkInv /\ TextInv
  BY DEF HostInv
<1>3. Shapes'
  BY <1>1, <1>2, ListsAssumption DEF Shapes
<1>4. \A i \in DOMAIN list' : ~(i < at')
  BY <1>1, <1>3 DEF Shapes
<1>5. WalkInv'
  BY <1>1, <1>2, <1>4 DEF WalkInv
<1>6. TextInv'
  BY <1>1, <1>2 DEF TextInv
<1> QED BY <1>3, <1>5, <1>6 DEF HostInv

\* getifaddrs() fails.
LEMMA EnumerateFailsKeeps ==
  ASSUME HostInv, EnumerateFails
  PROVE  HostInv'
<1>1. /\ at = 0 /\ list' = <<>> /\ at' = at /\ result' = result /\ text' = text
      /\ \/ pc = "broadcast" /\ pc' = "returned"
         \/ pc = "lookup" /\ pc' = "bind"
         \/ pc = "validate" /\ pc' \in {"lookup", "rejected", "crashed"}
  BY DEF EnumerateFails
<1>2. Shapes /\ WalkInv /\ TextInv
  BY DEF HostInv
<1>3. Shapes'
  <2>1. list' \in Seq(ToSet(list'))
    BY <1>1
  <2> QED BY <1>1, <1>2, <2>1 DEF Shapes
<1>4. FirstLocal' = NoAddress /\ FirstBroadcast' = NoAddress
  <2>1. (list = <<>> => FirstLocal = NoAddress /\ FirstBroadcast = NoAddress)'
    BY NoFirst, PTL
  <2> QED BY <1>1, <2>1
<1>5. WalkInv'
  BY <1>1, <1>2, <1>4 DEF WalkInv
<1>6. TextInv'
  BY <1>1, <1>2 DEF TextInv
<1> QED BY <1>3, <1>5, <1>6 DEF HostInv

\* A position in the list or past it.
LEMMA Positions ==
  ASSUME Shapes
  PROVE  /\ DOMAIN list = 1..Len(list) /\ Len(list) \in Nat
         /\ DOMAIN text = 1..Len(text) /\ Len(text) \in Nat
         /\ at \in DOMAIN list => at # 0
         /\ at > Len(list) => at # 0 /\ \A i \in DOMAIN list : i < at
         /\ \A i \in DOMAIN list : i < at + 1 => i = at \/ i < at
         /\ \A i \in DOMAIN text : i < at + 1 => i = at \/ i < at
BY DEF Shapes

\* The validation of the interface, which no address depends on.
LEMMA ValidateKeeps ==
  ASSUME HostInv, Validate
  PROVE  HostInv'
<1>1. /\ pc = "validate" /\ list' = list /\ text' = text /\ at' \in {at + 1, 0}
      /\ \/ pc' = pc /\ at' = at + 1
         \/ pc' \in {"lookup", "rejected"} /\ result' = NoAddress /\ at' = 0
  BY DEF Validate, Walking, Walked, Finish
<1>2. Shapes /\ WalkInv /\ TextInv
  BY DEF HostInv
<1>3. Shapes'
  BY <1>1, <1>2 DEF Shapes
<1>4. WalkInv'
  <2>1. \A i \in DOMAIN list' : ~(i < 0)
    BY <1>3 DEF Shapes
  <2>2. at + 1 # 0
    BY <1>2 DEF Shapes
  <2> QED BY <1>1, <2>1, <2>2 DEF WalkInv
<1>5. TextInv'
  BY <1>1, <1>2 DEF TextInv
<1> QED BY <1>3, <1>4, <1>5 DEF HostInv

\* The search for the interface's first IPv4 address.
LEMMA LookupKeeps ==
  ASSUME HostInv, Lookup
  PROVE  HostInv'
<1>1. /\ pc = "lookup" /\ list' = list /\ text' = text /\ at' \in {at + 1, 0}
      /\ \/ /\ at \in DOMAIN list /\ ~IsLocal(list[at])
            /\ pc' = pc /\ at' = at + 1 /\ result' = result
         \/ /\ at \in DOMAIN list /\ IsLocal(list[at])
            /\ pc' = "bind" /\ result' = list[at].ip
         \/ at > Len(list) /\ pc' = "bind" /\ result' = result
  BY DEF Lookup, Walking, Walked, Finish
<1>2. Shapes /\ WalkInv /\ TextInv
  BY DEF HostInv
<1>3. /\ result = NoAddress /\ \A i \in DOMAIN list : i < at => ~IsLocal(list[i])
  BY <1>1, <1>2 DEF WalkInv
<1>4. Shapes'
  BY <1>1, <1>2 DEF Shapes
<1>5. FirstLocal' = FirstLocal
  BY <1>1, FirstStays
<1>6. pc' = "bind" => result' = FirstLocal
  <2>1. ASSUME at \in DOMAIN list, IsLocal(list[at]), result' = list[at].ip
        PROVE  result' = FirstLocal
    BY <1>2, <1>3, <2>1, FirstIs
  <2>2. ASSUME at > Len(list), result' = result PROVE result' = FirstLocal
    <3>1. \A i \in DOMAIN list : i < at
      BY <1>2, <2>2, Positions
    <3>2. \A i \in DOMAIN list : ~IsLocal(list[i])
      BY <1>3, <3>1
    <3> QED BY <1>2, <1>3, <2>2, <3>2, FirstIs
  <2> QED BY <1>1, <2>1, <2>2
<1>7. pc' = "lookup" =>
        result' = NoAddress /\ \A i \in DOMAIN list' : i < at' => ~IsLocal(list'[i])
  <2>1. \A i \in DOMAIN list : i < at + 1 => i = at \/ i < at
    BY <1>2, Positions
  <2> QED BY <1>1, <1>3, <2>1
<1>8. WalkInv'
  BY <1>1, <1>5, <1>6, <1>7 DEF WalkInv
<1>9. TextInv'
  BY <1>1, <1>2 DEF TextInv
<1> QED BY <1>4, <1>8, <1>9 DEF HostInv

\* The search for the first broadcast address.
LEMMA BroadcastKeeps ==
  ASSUME HostInv, Broadcast
  PROVE  HostInv'
<1>1. /\ pc = "broadcast" /\ list' = list /\ text' = text /\ at' \in {at + 1, 0}
      /\ \/ /\ at \in DOMAIN list /\ ~Broadcasts(list[at])
            /\ pc' = pc /\ at' = at + 1 /\ result' = result
         \/ /\ at \in DOMAIN list /\ Broadcasts(list[at])
            /\ pc' = "returned" /\ result' = list[at].broadcast
         \/ at > Len(list) /\ pc' = "returned" /\ result' = result
  BY DEF Broadcast, Walking, Walked, Finish
<1>2. Shapes /\ WalkInv /\ TextInv
  BY DEF HostInv
<1>3. /\ result = NoAddress /\ \A i \in DOMAIN list : i < at => ~Broadcasts(list[i])
  BY <1>1, <1>2 DEF WalkInv
<1>4. Shapes'
  BY <1>1, <1>2 DEF Shapes
<1>5. FirstBroadcast' = FirstBroadcast
  BY <1>1, FirstStays
<1>6. pc' = "returned" => result' = FirstBroadcast
  <2>1. ASSUME at \in DOMAIN list, Broadcasts(list[at]), result' = list[at].broadcast
        PROVE  result' = FirstBroadcast
    BY <1>2, <1>3, <2>1, FirstIs
  <2>2. ASSUME at > Len(list), result' = result PROVE result' = FirstBroadcast
    <3>1. \A i \in DOMAIN list : i < at
      BY <1>2, <2>2, Positions
    <3>2. \A i \in DOMAIN list : ~Broadcasts(list[i])
      BY <1>3, <3>1
    <3> QED BY <1>2, <1>3, <2>2, <3>2, FirstIs
  <2> QED BY <1>1, <2>1, <2>2
<1>7. pc' = "broadcast" =>
        result' = NoAddress /\ \A i \in DOMAIN list' : i < at' => ~Broadcasts(list'[i])
  <2>1. \A i \in DOMAIN list : i < at + 1 => i = at \/ i < at
    BY <1>2, Positions
  <2> QED BY <1>1, <1>3, <2>1
<1>8. WalkInv'
  BY <1>1, <1>5, <1>6, <1>7 DEF WalkInv
<1>9. TextInv'
  BY <1>1, <1>2 DEF TextInv
<1> QED BY <1>4, <1>8, <1>9 DEF HostInv

\* bind() and listen().
LEMMA BindKeeps ==
  ASSUME HostInv, Bind
  PROVE  HostInv'
<1>1. /\ pc = "bind" /\ pc' \in {"serving", "bindFailed"}
      /\ list' = list /\ at' = at /\ result' = result /\ text' = text
  BY DEF Bind
<1>2. Shapes /\ WalkInv /\ TextInv
  BY DEF HostInv
<1>3. Shapes'
  BY <1>1, <1>2 DEF Shapes
<1>4. WalkInv'
  <2>1. FirstLocal' = FirstLocal
    BY <1>1, FirstStays
  <2> QED BY <1>1, <1>2, <2>1 DEF WalkInv
<1>5. TextInv'
  BY <1>1, <1>2 DEF TextInv
<1> QED BY <1>3, <1>4, <1>5 DEF HostInv

\* A good octet is every octet of a dotted quad.
LEMMA QuadGood ==
  ASSUME NEW t \in Seq(Octets), Quad(t)
  PROVE  Len(t) = 4 /\ \A i \in DOMAIN t : OctetVerdict(t[i]) = "good"
<1>1. Len(t) = 4 /\ \A i \in 1..4 : QuadOctet(t[i])
  BY QuadIs
<1>2. DOMAIN t = 1..4
  BY <1>1
<1>3. \A i \in DOMAIN t : t[i] \in Octets
  OBVIOUS
<1> QED BY <1>1, <1>2, <1>3, VerdictIs

\* The functions that judge a text return no address.
LEMMA TextKeepsWalk ==
  ASSUME WalkInv, pc = "octets", pc' \in {"octets", "valid", "invalid", "throws"}
  PROVE  WalkInv'
BY DEF WalkInv

\* The test of the text's length.
LEMMA CheckSizeKeeps ==
  ASSUME HostInv, CheckSize
  PROVE  HostInv'
<1>1. /\ pc = "octets" /\ at = 0 /\ list' = list /\ text' = text
      /\ \/ Size(text) < 7 /\ pc' = "invalid" /\ at' = at
         \/ at' = 1 /\ pc' = pc
  BY DEF CheckSize
<1>2. Shapes /\ WalkInv /\ TextInv
  BY DEF HostInv
<1>3. Shapes'
  BY <1>1, <1>2 DEF Shapes
<1>4. WalkInv'
  BY <1>1, <1>2, TextKeepsWalk
<1>5. TextInv'
  <2>1. CASE Size(text) < 7 /\ pc' = "invalid"
    <3>1. ~Quad(text)
      BY <1>2, <2>1, QuadIsLong DEF Shapes
    <3> QED BY <1>1, <2>1, <3>1 DEF TextInv
  <2>2. CASE at' = 1 /\ pc' = pc
    <3>1. Len(text) \in Nat /\ \A i \in DOMAIN text : ~(i < 1)
      BY <1>2, Positions
    <3> QED BY <1>1, <2>2, <3>1 DEF TextInv
  <2> QED BY <1>1, <2>1, <2>2
<1> QED BY <1>3, <1>4, <1>5 DEF HostInv

\* The loop's body.
LEMMA CheckOctetKeeps ==
  ASSUME HostInv, CheckOctet
  PROVE  HostInv'
<1>1. /\ pc = "octets" /\ at \in DOMAIN text /\ list' = list /\ text' = text
      /\ \/ OctetVerdict(text[at]) = "good" /\ at' = at + 1 /\ pc' = pc
         \/ OctetVerdict(text[at]) # "good" /\ pc' = OctetVerdict(text[at]) /\ at' = at
  BY DEF CheckOctet
<1>2. Shapes /\ WalkInv /\ TextInv
  BY DEF HostInv
<1>3. text[at] \in Octets
  BY <1>1, <1>2 DEF Shapes
<1>4. OctetVerdict(text[at]) \in {"good", "throws", "invalid"}
  BY <1>3, VerdictIs
<1>5. Shapes'
  BY <1>1, <1>2 DEF Shapes
<1>6. WalkInv'
  <2>1. pc' \in {"octets", "valid", "invalid", "throws"}
    BY <1>1, <1>4
  <2> QED BY <1>1, <1>2, <2>1, TextKeepsWalk
<1>7. TextInv'
  <2>1. CASE OctetVerdict(text[at]) = "good"
    <3>1. at' <= Len(text') + 1
      BY <1>1, <1>2, <2>1, Positions
    <3>2. \A i \in DOMAIN text : i < at' => OctetVerdict(text[i]) = "good"
      <4>1. \A i \in DOMAIN text : i < at + 1 => i = at \/ i < at
        BY <1>2, Positions
      <4> QED BY <1>1, <1>2, <2>1, <4>1 DEF TextInv
    <3> QED BY <1>1, <2>1, <3>1, <3>2 DEF TextInv
  <2>2. CASE OctetVerdict(text[at]) = "throws"
    <3>1. NoInt(text[at])
      BY <1>3, <2>2, VerdictIs
    <3> QED BY <1>1, <2>2, <3>1 DEF TextInv
  <2>3. CASE OctetVerdict(text[at]) = "invalid"
    <3>1. ~Quad(text)
      BY <1>1, <1>2, <2>3, QuadGood DEF Shapes
    <3> QED BY <1>1, <2>3, <3>1 DEF TextInv
  <2> QED BY <1>4, <2>1, <2>2, <2>3
<1> QED BY <1>5, <1>6, <1>7 DEF HostInv

\* The test of the number of octets.
LEMMA CheckCountKeeps ==
  ASSUME HostInv, CheckCount
  PROVE  HostInv'
<1>1. /\ pc = "octets" /\ at > Len(text) /\ list' = list /\ text' = text /\ at' = at
      /\ \/ at - 1 = 4 /\ pc' = "valid"
         \/ at - 1 # 4 /\ pc' = "invalid"
  BY DEF CheckCount
<1>2. Shapes /\ WalkInv /\ TextInv
  BY DEF HostInv
<1>3. Shapes'
  BY <1>1, <1>2 DEF Shapes
<1>4. WalkInv'
  BY <1>1, <1>2, TextKeepsWalk
<1>5. at \in Nat /\ Len(text) \in Nat /\ DOMAIN text = 1..Len(text) /\ at <= Len(text) + 1
  BY <1>1, <1>2, Positions DEF Shapes, TextInv
<1>6. TextInv'
  <2>1. CASE at - 1 = 4 /\ pc' = "valid"
    <3>1. Len(text) = 4 /\ \A i \in 1..4 : i \in DOMAIN text /\ i < at
      BY <1>1, <1>5, <2>1
    <3>2. \A i \in 1..4 : OctetVerdict(text[i]) = "good"
      BY <1>1, <1>2, <3>1 DEF TextInv
    <3> QED BY <1>1, <2>1, <3>1, <3>2 DEF TextInv
  <2>2. CASE at - 1 # 4 /\ pc' = "invalid"
    <3>1. Len(text) # 4
      BY <1>1, <1>5, <2>2
    <3>2. ~Quad(text)
      BY <3>1 DEF Quad
    <3> QED BY <1>1, <2>2, <3>2 DEF TextInv
  <2> QED BY <1>1, <2>1, <2>2
<1> QED BY <1>3, <1>4, <1>6 DEF HostInv

-----------------------------------------------------------------------------
(* The theorems.                                                           *)

\* Whatever interfaces come and go, and whatever text is asked about, the loops of
\* isValidInterface(), getLocalIpAddress(), getBroadcastIpAddress() and isValidIpV4()
\* keep their invariant.
THEOREM HostInvariance == Spec => []HostInv
<1>1. Init => HostInv
  BY HostInit
<1>2. HostInv /\ [Next]_vars => HostInv'
  <2> SUFFICES ASSUME HostInv, [Next]_vars PROVE HostInv'
    OBVIOUS
  <2>1. ASSUME NEW caller \in {"validate", "lookup", "broadcast"}, Enumerate(caller)
        PROVE  HostInv'
    BY <2>1, EnumerateKeeps
  <2>2. CASE EnumerateFails
    BY <2>2, EnumerateFailsKeeps
  <2>3. CASE Validate
    BY <2>3, ValidateKeeps
  <2>4. CASE Lookup
    BY <2>4, LookupKeeps
  <2>5. CASE Broadcast
    BY <2>5, BroadcastKeeps
  <2>6. CASE Bind
    BY <2>6, BindKeeps
  <2>7. CASE CheckSize
    BY <2>7, CheckSizeKeeps
  <2>8. CASE CheckOctet
    BY <2>8, CheckOctetKeeps
  <2>9. CASE CheckCount
    BY <2>9, CheckCountKeeps
  <2>10. CASE UNCHANGED vars
    <3>1. FirstLocal' = FirstLocal /\ FirstBroadcast' = FirstBroadcast
      BY <2>10, FirstStays DEF vars
    <3> QED BY <2>10, <3>1 DEF vars, HostInv, Shapes, WalkInv, TextInv
  <2> QED BY <2>1, <2>2, <2>3, <2>4, <2>5, <2>6, <2>7, <2>8, <2>9, <2>10 DEF Next
<1> QED BY <1>1, <1>2, PTL DEF Spec

\* The test server binds to the first IPv4 address of its interface and to none of
\* another one's, and to none at all only for want of one; getBroadcastIpAddress()
\* returns the first broadcast address there is.
THEOREM AddressesAreRight == Spec => []AddressesRight
<1>1. HostInv => AddressesRight
  BY DEF HostInv, WalkInv, AddressesRight, FirstLocal, FirstBroadcast
<1> QED BY <1>1, HostInvariance, PTL

\* isValidIpV4() accepts every dotted quad, of the texts of digits, letters and dots no
\* other text, and throws only where stoi() finds no int.
THEOREM VerdictsAreRight == Spec => []VerdictsRight
<1>1. HostInv => VerdictsRight
  <2> SUFFICES ASSUME HostInv PROVE VerdictsRight
    OBVIOUS
  <2>1. Shapes /\ TextInv
    BY DEF HostInv
  <2>2. Quad(text) => pc \in {"octets", "valid"}
    <3> SUFFICES ASSUME Quad(text) PROVE pc \in {"octets", "valid"}
      OBVIOUS
    <3>1. Len(text) = 4 /\ \A i \in DOMAIN text : OctetVerdict(text[i]) = "good"
      BY <2>1, QuadGood DEF Shapes
    <3>2. text # <<>>
      BY <3>1
    <3>3. pc # "throws"
      <4> SUFFICES ASSUME pc = "throws" PROVE FALSE
        OBVIOUS
      <4>1. PICK i \in DOMAIN text : NoInt(text[i])
        BY <2>1 DEF TextInv
      <4>2. text[i] \in Octets /\ QuadOctet(text[i])
        BY <2>1, <3>1, QuadIs DEF Shapes
      <4>3. Numeral(text[i]) # <<>> /\ Value(text[i]) = Magnitude(text[i])
        BY <4>2, NumeralIs DEF QuadOctet
      <4>4. Magnitude(text[i]) \in Nat /\ Magnitude(text[i]) <= 255
        BY <4>2, MagnitudeIs DEF QuadOctet
      <4>5. ~(Magnitude(text[i]) > IntMax) /\ ~(Magnitude(text[i]) < -IntMax - 1)
        BY <4>4, IntMaxAssumption
      <4> QED BY <4>1, <4>3, <4>5 DEF NoInt
    <3> QED BY <2>1, <3>2, <3>3 DEF TextInv
  <2>3. pc = "valid" /\ Plain(text) => Quad(text)
    <3> SUFFICES ASSUME pc = "valid", Plain(text) PROVE Quad(text)
      OBVIOUS
    <3>1. Len(text) = 4 /\ \A i \in 1..4 : OctetVerdict(text[i]) = "good"
      BY <2>1 DEF TextInv
    <3>2. \A i \in 1..4 : i \in DOMAIN text /\ text[i] \in Octets
      <4>1. DOMAIN text = 1..4
        BY <2>1, <3>1, Positions
      <4>2. \A i \in DOMAIN text : text[i] \in Octets
        BY <2>1 DEF Shapes
      <4> QED BY <4>1, <4>2
    <3>3. \A i \in 1..4 : QuadOctet(text[i])
      BY <3>1, <3>2, VerdictIs DEF Plain
    <3> QED BY <2>1, <3>1, <3>3, QuadIs DEF Shapes
  <2>4. pc = "throws" => \E i \in DOMAIN text : NoInt(text[i])
    BY <2>1 DEF TextInv
  <2> QED BY <2>2, <2>3, <2>4 DEF VerdictsRight
<1> QED BY <1>1, HostInvariance, PTL

=============================================================================
