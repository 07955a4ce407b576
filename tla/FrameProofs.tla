----------------------------- MODULE FrameProofs -----------------------------
(***************************************************************************)
(* Proofs about Frame for any radix, header length, limits, payloads and   *)
(* socket buffer, and for any number of writes.                            *)
(***************************************************************************)
EXTENDS Frame, Integers, TLAPS, WellFoundedInduction

-----------------------------------------------------------------------------
(***************************************************************************)
(* Inductive invariants.                                                   *)
(***************************************************************************)
Digits == 0 .. Radix - 1

\* The bytes of the frame being read, after its header if that is complete,
\* and all that follow.
bytes == buf \o wire

\* Bytes of the frame being read that are no longer among them.
Gone == IF part = "body" THEN HeaderLen ELSE 0

\* What both ends keep to.  A payload is recorded as sent only if its length
\* fits the limit and the header, and until the framing is lost the current
\* one does too.
EndsInv ==
  /\ out # <<>> => cur \in Payloads /\ ~closed
  /\ Len(cur) <= wmax
  /\ ~broken => Len(cur) <= HeaderMax
  /\ \A i \in 1 .. Len(sent) : Len(sent[i]) <= wmax /\ Len(sent[i]) <= HeaderMax
  /\ part = "header" => need = HeaderLen

\* What was returned is what was sent first.
PrefixInv ==
  /\ Len(got) <= Len(sent)
  /\ \A i \in 1 .. Len(got) : got[i] = sent[i]

\* The bytes from place p on are the frame of payload m, as far as they go
\* and as far as they are still there.
Spells(p, m, n) ==
  \A k \in 1 .. n : p + k >= 1 => bytes[p + k] = FrameOf(m)[k]

\* pos[i] is where the frame of sent[i] ends: the payloads that were sent and
\* not returned lie one after the other in the stream.
Laid(pos) ==
  /\ pos[Len(got)] = 0 - Gone
  /\ \A i \in Len(got) + 1 .. Len(sent) :
       /\ pos[i] = pos[i - 1] + HeaderLen + Len(sent[i])
       /\ pos[i] <= Len(bytes)
       /\ Spells(pos[i - 1], sent[i], HeaderLen + Len(sent[i]))

\* Behind them, until the framing is lost, there are t bytes of the current
\* frame: none of it, all but what write_all() has still to write, or what was
\* written before a frame was cut.
Written(p, t) ==
  /\ 0 <= t /\ t <= HeaderLen + Len(cur)
  /\ Spells(p, cur, t)
  /\ out # <<>> =>
       /\ ~cut
       /\ t + Len(out) = HeaderLen + Len(cur)
       /\ \A k \in 1 .. Len(out) : out[k] = FrameOf(cur)[t + k]
  /\ out = <<>> /\ ~cut => t = 0
  /\ cut => 0 < t /\ t < HeaderLen + Len(cur)

Unfinished(pos) == Written(pos[Len(sent)], Len(bytes) - pos[Len(sent)])

\* The reader knows the length of the frame it is in.
KnowsLength ==
  part = "body" =>
    /\ Len(got) < Len(sent) => need = Len(sent[Len(got) + 1])
    /\ Len(got) = Len(sent) /\ ~broken => need = Len(cur)

Framed(pos) == Laid(pos) /\ (~broken => Unfinished(pos))

\* While the reader reads, the stream is framed.
FrameInv == rend = "no" => KnowsLength /\ \E pos \in [Len(got) .. Len(sent) -> Int] : Framed(pos)

\* An EOF is final, and what was said of it.
EofInv == (rend = "eof" => closed) /\ EofIsHonest

-----------------------------------------------------------------------------
(***************************************************************************)
(* The length in the header.                                               *)
(***************************************************************************)

\* A set of numbers that holds 0 and the successor of each of its members
\* holds every number.
LEMMA SetInduction ==
  ASSUME NEW S, 0 \in S, \A n \in Nat : n \in S => n + 1 \in S
  PROVE  Nat \subseteq S
<1> DEFINE T == Nat \ S
           R == OpToRel(<, Nat)
<1> SUFFICES ASSUME T # {} PROVE FALSE
  OBVIOUS
<1>1. IsWellFoundedOn(R, Nat)
  BY NatLessThanWellFounded
<1>2. PICK x \in T : \A y \in T : ~(<<y, x>> \in R)
  <2> HIDE DEF R
  <2> QED
    BY <1>1, WFMin
<1>3. \A y \in T : ~(y < x)
  BY <1>2 DEF OpToRel
<1>4. x # 0 /\ x \in Nat /\ x \notin S
  OBVIOUS
<1>5. x - 1 \in Nat /\ x - 1 < x
  BY <1>4
<1>6. x - 1 \in S
  BY <1>3, <1>5
<1>7. (x - 1) + 1 \in S
  BY <1>5, <1>6
<1>8. (x - 1) + 1 = x
  BY <1>4
<1> QED
  BY <1>4, <1>7, <1>8

\* f starts with a, and G[i] takes it from each place to the next.
Follows(f, m, a, G) == f[0] = a /\ \A i \in 1 .. m : f[i] = G[i][f[i - 1]]

\* There is such a function for any a and G.
LEMMA Recursion ==
  ASSUME NEW N \in Nat, NEW V, NEW a \in V, NEW G \in [1 .. N -> [V -> V]]
  PROVE  \E f \in [0 .. N -> V] : Follows(f, N, a, G)
<1> DEFINE S == {m \in Nat : m <= N => \E f \in [0 .. m -> V] : Follows(f, m, a, G)}
<1>1. 0 \in S
  <2>1. /\ [i \in 0 .. 0 |-> a] \in [0 .. 0 -> V]
        /\ Follows([i \in 0 .. 0 |-> a], 0, a, G)
    BY DEF Follows
  <2> QED
    BY <2>1
<1>2. ASSUME NEW m \in Nat, m \in S PROVE m + 1 \in S
  <2>1. ASSUME m + 1 <= N PROVE \E f \in [0 .. m + 1 -> V] : Follows(f, m + 1, a, G)
    <3>0. m <= N
      BY <2>1
    <3>1. PICK f \in [0 .. m -> V] : Follows(f, m, a, G)
      BY <1>2, <3>0, Zenon
    <3>2. PICK b \in V : b = G[m + 1][f[m]]
      <4>1. m + 1 \in 1 .. N /\ m \in 0 .. m
        BY <2>1
      <4>2. G[m + 1] \in [V -> V] /\ f[m] \in V
        BY <4>1, Zenon
      <4> QED
        BY <4>2, Zenon
    <3> DEFINE g == [i \in 0 .. m + 1 |-> IF i = m + 1 THEN b ELSE f[i]]
    <3>3. g \in [0 .. m + 1 -> V]
      OBVIOUS
    <3>4. g[m + 1] = b /\ \A i \in 0 .. m : g[i] = f[i]
      OBVIOUS
    <3> HIDE DEF g
    <3>5. ASSUME NEW i \in 1 .. m + 1 PROVE g[i] = G[i][g[i - 1]]
      <4>1. CASE i = m + 1
        <5>1. i - 1 = m /\ m \in 0 .. m
          BY <4>1
        <5>2. g[i - 1] = f[m] /\ g[i] = b
          BY <3>4, <4>1, <5>1, Zenon
        <5> QED
          BY <3>2, <4>1, <5>2, Zenon
      <4>2. CASE i # m + 1
        <5>1. i \in 1 .. m /\ i - 1 \in 0 .. m /\ i \in 0 .. m
          BY <4>2
        <5> QED
          BY <3>1, <3>4, <5>1, Zenon DEF Follows
      <4> QED
        BY <4>1, <4>2
    <3>6. g[0] = a
      <4>1. 0 \in 0 .. m
        OBVIOUS
      <4> QED
        BY <3>1, <3>4, <4>1, Zenon DEF Follows
    <3>7. Follows(g, m + 1, a, G)
      BY <3>5, <3>6, Zenon DEF Follows
    <3> QED
      BY <3>3, <3>7, Zenon
  <2> QED
    BY <2>1
<1> HIDE DEF S
<1>3. N \in S
  BY <1>1, <1>2, SetInduction
<1> QED
  BY <1>3 DEF S

\* Horner's rule is what FromLE() computes.
LEMMA Horner ==
  ASSUME NEW header \in Seq(Digits), Len(header) = HeaderLen
  PROVE  \E n \in [0 .. HeaderLen -> Nat] :
           /\ n[0] = 0
           /\ \A i \in 1 .. HeaderLen : n[i] = Radix * n[i - 1] + header[HeaderLen + 1 - i]
           /\ FromLE(header) = n[HeaderLen]
<1> DEFINE Value(f, i) == IF i = 0 THEN 0 ELSE Radix * f[i - 1] + header[HeaderLen + 1 - i]
           G == [i \in 1 .. HeaderLen |-> [x \in Nat |-> Radix * x + header[HeaderLen + 1 - i]]]
<1>1. HeaderLen \in Nat /\ Radix \in Nat /\ 0 \in Nat
  BY ConstAssumption
<1>2. \A i \in 1 .. HeaderLen : header[HeaderLen + 1 - i] \in Nat
  BY <1>1 DEF Digits
<1>3. \A i \in 1 .. HeaderLen, x \in Nat : Radix * x + header[HeaderLen + 1 - i] \in Nat
  BY <1>1, <1>2
<1>4. G \in [1 .. HeaderLen -> [Nat -> Nat]]
  BY <1>3
<1>5. PICK f \in [0 .. HeaderLen -> Nat] : Follows(f, HeaderLen, 0, G)
  <2> HIDE DEF G
  <2> QED
    BY <1>1, <1>4, Recursion, Zenon
<1>6. ASSUME NEW i \in 0 .. HeaderLen PROVE f[i] = Value(f, i)
  <2>1. CASE i = 0
    BY <1>5, <2>1, Zenon DEF Follows
  <2>2. CASE i # 0
    <3>1. i \in 1 .. HeaderLen /\ i - 1 \in 0 .. HeaderLen
      BY <1>1, <2>2
    <3>2. f[i - 1] \in Nat /\ f[i] = G[i][f[i - 1]]
      BY <1>5, <3>1, Zenon DEF Follows
    <3>3. G[i][f[i - 1]] = Radix * f[i - 1] + header[HeaderLen + 1 - i]
      BY <3>1, <3>2, Zenon
    <3> QED
      BY <2>2, <3>2, <3>3, Zenon
  <2> QED
    BY <2>1, <2>2
<1>7. f = [i \in 0 .. HeaderLen |-> Value(f, i)]
  <2> HIDE DEF Value
  <2> QED
    BY <1>6, Zenon
<1> DEFINE n == CHOOSE n : n = [i \in 0 .. HeaderLen |-> Value(n, i)]
<1>8. FromLE(header) = n[HeaderLen]
  BY Zenon DEF FromLE
<1>9. n = [i \in 0 .. HeaderLen |-> Value(n, i)]
  <2> HIDE DEF Value
  <2> QED
    BY <1>7, Zenon
<1> HIDE DEF n
<1>10. \A i \in 0 .. HeaderLen : n[i] = Value(n, i)
  <2> HIDE DEF Value
  <2> QED
    BY <1>9, Zenon
<1>11. n[0] = 0
  <2>1. 0 \in 0 .. HeaderLen
    BY <1>1
  <2> QED
    BY <1>10, <2>1, Zenon
<1>12. ASSUME NEW i \in 1 .. HeaderLen
       PROVE  n[i] = Radix * n[i - 1] + header[HeaderLen + 1 - i]
  <2>1. i \in 0 .. HeaderLen /\ i # 0
    BY <1>1
  <2> QED
    BY <1>10, <2>1, Zenon
<1> HIDE DEF Value
<1>13. \A i \in 0 .. HeaderLen : n[i] \in Nat
  <2> DEFINE S == {i \in Nat : i <= HeaderLen => n[i] \in Nat}
  <2>1. 0 \in S
    BY <1>11
  <2>2. ASSUME NEW i \in Nat, i \in S PROVE i + 1 \in S
    <3>1. ASSUME i + 1 <= HeaderLen PROVE n[i + 1] \in Nat
      <4>1. i <= HeaderLen /\ i + 1 \in 1 .. HeaderLen /\ (i + 1) - 1 = i
        BY <1>1, <3>1
      <4>2. n[i] \in Nat
        BY <2>2, <4>1, Zenon
      <4>3. n[i + 1] = Radix * n[i] + header[HeaderLen + 1 - (i + 1)]
        BY <1>12, <4>1
      <4> QED
        BY <1>3, <4>1, <4>2, <4>3, Zenon
    <3>2. i + 1 \in Nat
      OBVIOUS
    <3> QED
      BY <3>1, <3>2, Zenon
  <2> HIDE DEF S
  <2>3. Nat \subseteq S
    BY <2>1, <2>2, SetInduction
  <2>4. ASSUME NEW i \in 0 .. HeaderLen PROVE i \in Nat /\ i <= HeaderLen
    BY <1>1
  <2> QED
    BY <2>3, <2>4, Zenon DEF S
<1>14. n \in [0 .. HeaderLen -> Nat]
  BY <1>9, <1>13, Zenon
<1> QED
  BY <1>8, <1>11, <1>12, <1>14, Zenon

\* What a header says is a number.
LEMMA FromLEType ==
  ASSUME NEW header \in Seq(Digits), Len(header) = HeaderLen
  PROVE  FromLE(header) \in Nat
  BY Horner, ConstAssumption

\* The header of u32::MAX is a header.
LEMMA FullHeader ==
  /\ [i \in 1 .. HeaderLen |-> Radix - 1] \in Seq(Digits)
  /\ Len([i \in 1 .. HeaderLen |-> Radix - 1]) = HeaderLen
  BY ConstAssumption DEF Digits

\* So the most a header can say is a number.
LEMMA HeaderMaxType == HeaderMax \in Nat
  BY FullHeader, FromLEType DEF HeaderMax

\* Repeated division is what ToLE() does.
LEMMA Remainders ==
  ASSUME NEW len \in Nat
  PROVE  \E rest \in [0 .. HeaderLen -> Nat] :
           /\ rest[0] = IF len > HeaderMax THEN HeaderMax ELSE len
           /\ \A i \in 1 .. HeaderLen : rest[i] = rest[i - 1] \div Radix
           /\ ToLE(len) = [i \in 1 .. HeaderLen |-> rest[i - 1] % Radix]
<1> DEFINE a == IF len > HeaderMax THEN HeaderMax ELSE len
           Value(f, i) == IF i > 0 THEN f[i - 1] \div Radix ELSE a
           G == [i \in 1 .. HeaderLen |-> [x \in Nat |-> x \div Radix]]
<1>1. HeaderLen \in Nat /\ Radix \in Nat \ {0} /\ a \in Nat
  BY ConstAssumption, HeaderMaxType
<1>2. \A x \in Nat : x \div Radix \in Nat
  BY <1>1
<1>3. G \in [1 .. HeaderLen -> [Nat -> Nat]]
  BY <1>2
<1> HIDE DEF a
<1>4. PICK f \in [0 .. HeaderLen -> Nat] : Follows(f, HeaderLen, a, G)
  <2> HIDE DEF G
  <2> QED
    BY <1>1, <1>3, Recursion, Zenon
<1>5. ASSUME NEW i \in 0 .. HeaderLen PROVE f[i] = Value(f, i)
  <2>1. CASE i = 0
    <3>1. ~(i > 0)
      BY <2>1
    <3> QED
      BY <1>4, <2>1, <3>1, Zenon DEF Follows
  <2>2. CASE i # 0
    <3>1. i \in 1 .. HeaderLen /\ i - 1 \in 0 .. HeaderLen /\ i > 0
      BY <1>1, <2>2
    <3>2. f[i - 1] \in Nat /\ f[i] = G[i][f[i - 1]]
      BY <1>4, <3>1, Zenon DEF Follows
    <3> QED
      BY <3>1, <3>2, Zenon
  <2> QED
    BY <2>1, <2>2
<1>6. f = [i \in 0 .. HeaderLen |-> Value(f, i)]
  <2> HIDE DEF Value
  <2> QED
    BY <1>5, Zenon
<1> DEFINE rest == CHOOSE rest : rest = [i \in 0 .. HeaderLen |-> Value(rest, i)]
<1>7. ToLE(len) = [i \in 1 .. HeaderLen |-> rest[i - 1] % Radix]
  BY Zenon DEF ToLE, a
<1>8. rest = [i \in 0 .. HeaderLen |-> Value(rest, i)]
  <2> HIDE DEF Value
  <2> QED
    BY <1>6, Zenon
<1> HIDE DEF rest
<1>9. \A i \in 0 .. HeaderLen : rest[i] = Value(rest, i)
  <2> HIDE DEF Value
  <2> QED
    BY <1>8, Zenon
<1>10. rest[0] = a
  <2>1. 0 \in 0 .. HeaderLen /\ ~(0 > 0)
    BY <1>1
  <2> QED
    BY <1>9, <2>1, Zenon
<1>11. ASSUME NEW i \in 1 .. HeaderLen PROVE rest[i] = rest[i - 1] \div Radix
  <2>1. i \in 0 .. HeaderLen /\ i > 0
    BY <1>1
  <2> QED
    BY <1>9, <2>1, Zenon
<1> HIDE DEF Value
<1>12. \A i \in 0 .. HeaderLen : rest[i] \in Nat
  <2> DEFINE S == {i \in Nat : i <= HeaderLen => rest[i] \in Nat}
  <2>1. 0 \in S
    BY <1>1, <1>10
  <2>2. ASSUME NEW i \in Nat, i \in S PROVE i + 1 \in S
    <3>1. ASSUME i + 1 <= HeaderLen PROVE rest[i + 1] \in Nat
      <4>1. i <= HeaderLen /\ i + 1 \in 1 .. HeaderLen /\ (i + 1) - 1 = i
        BY <1>1, <3>1
      <4>2. rest[i] \in Nat
        BY <2>2, <4>1, Zenon
      <4>3. rest[i + 1] = rest[i] \div Radix
        BY <1>11, <4>1
      <4> QED
        BY <1>2, <4>2, <4>3, Zenon
    <3>2. i + 1 \in Nat
      OBVIOUS
    <3> QED
      BY <3>1, <3>2, Zenon
  <2> HIDE DEF S
  <2>3. Nat \subseteq S
    BY <2>1, <2>2, SetInduction
  <2>4. ASSUME NEW i \in 0 .. HeaderLen PROVE i \in Nat /\ i <= HeaderLen
    BY <1>1
  <2> QED
    BY <2>3, <2>4, Zenon DEF S
<1>13. rest \in [0 .. HeaderLen -> Nat]
  BY <1>8, <1>12, Zenon
<1> QED
  BY <1>7, <1>10, <1>11, <1>13, Zenon DEF a

\* A header has HeaderLen digits, whatever the length.
LEMMA ToLEType ==
  ASSUME NEW len \in Nat
  PROVE  ToLE(len) \in Seq(Digits) /\ Len(ToLE(len)) = HeaderLen
<1>1. PICK rest \in [0 .. HeaderLen -> Nat] :
        ToLE(len) = [i \in 1 .. HeaderLen |-> rest[i - 1] % Radix]
  BY Remainders, Zenon
<1>2. ASSUME NEW i \in 1 .. HeaderLen PROVE rest[i - 1] % Radix \in Digits
  <2>1. i - 1 \in 0 .. HeaderLen
    BY ConstAssumption
  <2>2. PICK x \in Nat : x = rest[i - 1]
    BY <2>1, Zenon
  <2>3. x % Radix \in 0 .. Radix - 1
    BY ConstAssumption
  <2> QED
    BY <2>2, <2>3, Zenon DEF Digits
<1>3. ToLE(len) \in [1 .. HeaderLen -> Digits]
  BY <1>1, <1>2, Zenon
<1> QED
  BY <1>3, ConstAssumption

\* The step of the round trip, up and down.
LEMMA DivMod ==
  ASSUME NEW q \in Nat, NEW R \in Nat \ {0}
  PROVE  /\ q \div R \in Nat
         /\ R * (q \div R) + (q % R) = q
         /\ \A m \in Nat : q <= R * m + (R - 1) => q \div R <= m
<1>1. q \div R \in Nat /\ q % R \in 0 .. R - 1
  OBVIOUS
<1>2. q = R * (q \div R) + (q % R)
  OBVIOUS
<1>3. ASSUME NEW m \in Nat, q <= R * m + (R - 1) PROVE q \div R <= m
  <2>1. R * m + (R - 1) < R * (m + 1)
    OBVIOUS
  <2>2. q < R * (m + 1)
    BY <1>3, <2>1
  <2>3. PICK k \in Nat : k = m + 1
    OBVIOUS
  <2>4. q \div R < k
    BY <2>2, <2>3
  <2> QED
    BY <1>1, <2>3, <2>4
<1> QED
  BY <1>1, <1>2, <1>3

\* u32::from_le_bytes() undoes to_le_bytes(): every length up to u32::MAX comes
\* out as it went in, for any radix and number of digits.
THEOREM RoundTrip ==
  ASSUME NEW len \in Nat, len <= HeaderMax
  PROVE  FromLE(ToLE(len)) = len
<1>1. HeaderLen \in Nat /\ Radix \in Nat \ {0} /\ HeaderMax \in Nat
  BY ConstAssumption, HeaderMaxType
<1>2. PICK rest \in [0 .. HeaderLen -> Nat] :
        /\ rest[0] = IF len > HeaderMax THEN HeaderMax ELSE len
        /\ \A i \in 1 .. HeaderLen : rest[i] = rest[i - 1] \div Radix
        /\ ToLE(len) = [i \in 1 .. HeaderLen |-> rest[i - 1] % Radix]
  BY Remainders, Zenon
<1>3. PICK most \in [0 .. HeaderLen -> Nat] :
        /\ most[0] = 0
        /\ \A i \in 1 .. HeaderLen :
             most[i] = Radix * most[i - 1] + [j \in 1 .. HeaderLen |-> Radix - 1][HeaderLen + 1 - i]
        /\ HeaderMax = most[HeaderLen]
  BY FullHeader, Horner, Zenon DEF HeaderMax
<1>4. PICK n \in [0 .. HeaderLen -> Nat] :
        /\ n[0] = 0
        /\ \A i \in 1 .. HeaderLen : n[i] = Radix * n[i - 1] + ToLE(len)[HeaderLen + 1 - i]
        /\ FromLE(ToLE(len)) = n[HeaderLen]
  BY ToLEType, Horner, Zenon
\* what remains after i digits fits into the other digits
<1>5. ASSUME NEW i \in 0 .. HeaderLen PROVE rest[i] <= most[HeaderLen - i]
  <2> DEFINE S == {k \in Nat : k <= HeaderLen => rest[k] <= most[HeaderLen - k]}
  <2>1. 0 \in S
    <3>1. ~(len > HeaderMax) /\ HeaderLen - 0 = HeaderLen
      BY <1>1
    <3>2. rest[0] = len /\ most[HeaderLen - 0] = HeaderMax
      BY <1>2, <1>3, <3>1, Zenon
    <3> QED
      BY <3>2
  <2>2. ASSUME NEW k \in Nat, k \in S PROVE k + 1 \in S
    <3>1. ASSUME k + 1 <= HeaderLen PROVE rest[k + 1] <= most[HeaderLen - (k + 1)]
      <4>1. /\ k <= HeaderLen /\ k \in 0 .. HeaderLen /\ k + 1 \in 1 .. HeaderLen
            /\ (k + 1) - 1 = k
            /\ HeaderLen - k \in 1 .. HeaderLen /\ HeaderLen - k \in 0 .. HeaderLen
            /\ (HeaderLen - k) - 1 = HeaderLen - (k + 1)
            /\ HeaderLen - (k + 1) \in 0 .. HeaderLen
            /\ HeaderLen + 1 - (HeaderLen - k) \in 1 .. HeaderLen
        BY <1>1, <3>1
      <4>2. PICK q \in Nat : q = rest[k]
        BY <4>1, Zenon
      <4>3. PICK m \in Nat : m = most[HeaderLen - (k + 1)]
        BY <4>1, Zenon
      <4>4. most[HeaderLen - k] = Radix * m + (Radix - 1)
        BY <1>3, <4>1, <4>3, Zenon
      <4>5. q <= Radix * m + (Radix - 1)
        BY <2>2, <4>1, <4>2, <4>4, Zenon
      <4>6. q \div Radix <= m
        BY <1>1, <4>5, DivMod
      <4>7. rest[k + 1] = q \div Radix
        BY <1>2, <4>1, <4>2, Zenon
      <4> QED
        BY <4>3, <4>6, <4>7, Zenon
    <3>2. k + 1 \in Nat
      OBVIOUS
    <3> QED
      BY <3>1, <3>2, Zenon
  <2> HIDE DEF S
  <2>3. Nat \subseteq S
    BY <2>1, <2>2, SetInduction
  <2>4. i \in Nat /\ i <= HeaderLen
    BY <1>1
  <2> QED
    BY <2>3, <2>4, Zenon DEF S
<1>6. rest[HeaderLen] = 0
  <2>1. HeaderLen \in 0 .. HeaderLen /\ HeaderLen - HeaderLen = 0
    BY <1>1
  <2>2. rest[HeaderLen] <= 0
    BY <1>3, <1>5, <2>1, Zenon
  <2>3. rest[HeaderLen] \in Nat
    BY <2>1, Zenon
  <2> QED
    BY <2>2, <2>3
\* the last i digits say what the first ones have left
<1>7. ASSUME NEW i \in 0 .. HeaderLen PROVE n[i] = rest[HeaderLen - i]
  <2> DEFINE S == {k \in Nat : k <= HeaderLen => n[k] = rest[HeaderLen - k]}
  <2>1. 0 \in S
    <3>1. HeaderLen - 0 = HeaderLen
      BY <1>1
    <3> QED
      BY <1>4, <1>6, <3>1
  <2>2. ASSUME NEW k \in Nat, k \in S PROVE k + 1 \in S
    <3>1. ASSUME k + 1 <= HeaderLen PROVE n[k + 1] = rest[HeaderLen - (k + 1)]
      <4>1. /\ k <= HeaderLen /\ k \in 0 .. HeaderLen /\ k + 1 \in 1 .. HeaderLen
            /\ (k + 1) - 1 = k
            /\ HeaderLen + 1 - (k + 1) = HeaderLen - k
            /\ HeaderLen - k \in 1 .. HeaderLen
            /\ (HeaderLen - k) - 1 = HeaderLen - (k + 1)
            /\ HeaderLen - (k + 1) \in 0 .. HeaderLen
        BY <1>1, <3>1
      <4>2. PICK q \in Nat : q = rest[HeaderLen - (k + 1)]
        BY <4>1, Zenon
      <4>3. rest[HeaderLen - k] = q \div Radix /\ ToLE(len)[HeaderLen - k] = q % Radix
        BY <1>2, <4>1, <4>2, Zenon
      <4>4. n[k] = q \div Radix
        BY <2>2, <4>1, <4>3, Zenon
      <4>5. n[k + 1] = Radix * (q \div Radix) + (q % Radix)
        BY <1>4, <4>1, <4>3, <4>4, Zenon
      <4>6. Radix * (q \div Radix) + (q % Radix) = q
        BY <1>1, DivMod
      <4> QED
        BY <4>2, <4>5, <4>6, Zenon
    <3>2. k + 1 \in Nat
      OBVIOUS
    <3> QED
      BY <3>1, <3>2, Zenon
  <2> HIDE DEF S
  <2>3. Nat \subseteq S
    BY <2>1, <2>2, SetInduction
  <2>4. i \in Nat /\ i <= HeaderLen
    BY <1>1
  <2> QED
    BY <2>3, <2>4, Zenon DEF S
<1>8. HeaderLen \in 0 .. HeaderLen /\ HeaderLen - HeaderLen = 0 /\ ~(len > HeaderMax)
  BY <1>1
<1> QED
  BY <1>2, <1>4, <1>7, <1>8, Zenon

-----------------------------------------------------------------------------
(***************************************************************************)
(* Types, and what the two ends keep to.                                   *)
(***************************************************************************)

\* Two sequences one after the other.
LEMMA Concat ==
  ASSUME NEW S, NEW s \in Seq(S), NEW t \in Seq(S)
  PROVE  /\ s \o t \in Seq(S)
         /\ Len(s \o t) = Len(s) + Len(t)
         /\ \A k \in 1 .. Len(s) : (s \o t)[k] = s[k]
         /\ \A k \in 1 .. Len(t) : (s \o t)[Len(s) + k] = t[k]
  OBVIOUS

\* The first n members of a sequence and the rest.
LEMMA Split ==
  ASSUME NEW S, NEW s \in Seq(S), NEW n \in 0 .. Len(s)
  PROVE  /\ SubSeq(s, 1, n) \in Seq(S) /\ Len(SubSeq(s, 1, n)) = n
         /\ \A k \in 1 .. n : SubSeq(s, 1, n)[k] = s[k]
         /\ SubSeq(s, n + 1, Len(s)) \in Seq(S)
         /\ Len(SubSeq(s, n + 1, Len(s))) = Len(s) - n
         /\ \A k \in 1 .. Len(s) - n : SubSeq(s, n + 1, Len(s))[k] = s[n + k]
  OBVIOUS

\* Sequences that agree everywhere are the same.
LEMMA Same ==
  ASSUME NEW S, NEW s \in Seq(S), NEW t \in Seq(S), Len(s) = Len(t),
         \A k \in 1 .. Len(s) : s[k] = t[k]
  PROVE  s = t
  OBVIOUS

\* A frame is the header and then the payload.
LEMMA FrameType ==
  ASSUME NEW m \in Seq(Digits)
  PROVE  /\ FrameOf(m) \in Seq(Digits)
         /\ Len(FrameOf(m)) = HeaderLen + Len(m)
         /\ \A k \in 1 .. HeaderLen : FrameOf(m)[k] = ToLE(Len(m))[k]
         /\ \A k \in 1 .. Len(m) : FrameOf(m)[HeaderLen + k] = m[k]
         /\ FrameOf(m) # <<>>
<1>1. ToLE(Len(m)) \in Seq(Digits) /\ Len(ToLE(Len(m))) = HeaderLen
  <2>1. Len(m) \in Nat
    OBVIOUS
  <2> QED
    BY <2>1, ToLEType
<1>2. HeaderLen \in Nat \ {0} /\ Len(m) \in Nat
  BY ConstAssumption
<1>3. /\ FrameOf(m) \in Seq(Digits)
      /\ Len(FrameOf(m)) = HeaderLen + Len(m)
      /\ \A k \in 1 .. HeaderLen : FrameOf(m)[k] = ToLE(Len(m))[k]
      /\ \A k \in 1 .. Len(m) : FrameOf(m)[HeaderLen + k] = m[k]
  <2>1. PICK h \in Seq(Digits) : h = ToLE(Len(m))
    BY <1>1
  <2>2. /\ h \o m \in Seq(Digits) /\ Len(h \o m) = Len(h) + Len(m)
        /\ \A k \in 1 .. Len(h) : (h \o m)[k] = h[k]
        /\ \A k \in 1 .. Len(m) : (h \o m)[Len(h) + k] = m[k]
    BY Concat
  <2>3. FrameOf(m) = h \o m /\ Len(h) = HeaderLen
    BY <1>1, <2>1 DEF FrameOf
  <2> QED
    BY <2>1, <2>2, <2>3, Zenon
<1>4. FrameOf(m) # <<>>
  <2>1. Len(FrameOf(m)) > 0
    BY <1>2, <1>3
  <2> QED
    BY <2>1
<1> QED
  BY <1>3, <1>4

\* Everything that is written or read is made of digits.
LEMMA ByteTypes ==
  ASSUME TypeOK
  PROVE  /\ cur \in Seq(Digits) /\ out \in Seq(Digits) /\ buf \in Seq(Digits)
         /\ wire \in Seq(Digits) /\ bytes \in Seq(Digits)
         /\ Payloads \subseteq Seq(Digits)
         /\ Len(cur) \in Nat /\ Len(out) \in Nat /\ Len(buf) \in Nat /\ Len(wire) \in Nat
         /\ Len(bytes) = Len(buf) + Len(wire)
         /\ Len(sent) \in Nat /\ Len(got) \in Nat
         /\ \A i \in 1 .. Len(sent) : sent[i] \in Seq(Digits) /\ Len(sent[i]) \in Nat
<1>1. Payloads \subseteq Seq(Digits)
  BY ConstAssumption DEF Digits
<1>2. cur \in Seq(Digits)
  <2>1. cur \in Payloads \/ cur = <<>>
    BY DEF TypeOK
  <2>2. <<>> \in Seq(Digits)
    OBVIOUS
  <2> QED
    BY <1>1, <2>1, <2>2, Zenon
<1>3. out \in Seq(Digits) /\ buf \in Seq(Digits) /\ wire \in Seq(Digits)
  BY DEF TypeOK, Digits
<1>4. bytes \in Seq(Digits) /\ Len(bytes) = Len(buf) + Len(wire)
  BY <1>3, Concat DEF bytes
<1>5. sent \in Seq(Payloads) /\ got \in Seq(Seq(Digits))
  BY DEF TypeOK, Digits
<1>6. \A i \in 1 .. Len(sent) : sent[i] \in Payloads
  BY <1>5
<1>7. \A i \in 1 .. Len(sent) : sent[i] \in Seq(Digits)
  BY <1>1, <1>6, Zenon
<1>8. \A s \in Seq(Digits) : Len(s) \in Nat
  OBVIOUS
<1>9. Len(sent) \in Nat /\ Len(got) \in Nat
  BY <1>5
<1> QED
  BY <1>1, <1>2, <1>3, <1>4, <1>7, <1>8, <1>9, Zenon

\* What one read(2) hands over.
LEMMA TakenType ==
  ASSUME TypeOK, NEW n \in 1 .. Buffer, n <= Len(wire)
  PROVE  /\ Taken(n) \in Seq(Digits) /\ Len(Taken(n)) = Len(buf) + n
         /\ \A k \in 1 .. Len(buf) + n : Taken(n)[k] = bytes[k]
<1>1. n \in 0 .. Len(wire) /\ n \in Nat
  BY ByteTypes, ConstAssumption
<1> DEFINE s == SubSeq(wire, 1, n)
<1>2. s \in Seq(Digits) /\ Len(s) = n /\ \A k \in 1 .. n : s[k] = wire[k]
  BY <1>1, Split, ByteTypes
<1>3. Taken(n) = buf \o s
  BY DEF Taken
<1> HIDE DEF s
<1>4. /\ Taken(n) \in Seq(Digits) /\ Len(Taken(n)) = Len(buf) + n
      /\ \A k \in 1 .. Len(buf) : Taken(n)[k] = buf[k]
      /\ \A k \in 1 .. n : Taken(n)[Len(buf) + k] = wire[k]
  <2>1. /\ buf \o s \in Seq(Digits) /\ Len(buf \o s) = Len(buf) + Len(s)
        /\ \A k \in 1 .. Len(buf) : (buf \o s)[k] = buf[k]
        /\ \A k \in 1 .. Len(s) : (buf \o s)[Len(buf) + k] = s[k]
    <3>1. buf \in Seq(Digits) /\ s \in Seq(Digits)
      BY <1>2, ByteTypes
    <3> QED
      BY <3>1, Concat
  <2> QED
    BY <1>2, <1>3, <2>1, Zenon
<1>5. /\ \A k \in 1 .. Len(buf) : bytes[k] = buf[k]
      /\ \A k \in 1 .. Len(wire) : bytes[Len(buf) + k] = wire[k]
  BY Concat, ByteTypes DEF bytes
<1>6. ASSUME NEW k \in 1 .. Len(buf) + n PROVE Taken(n)[k] = bytes[k]
  <2>1. CASE k <= Len(buf)
    BY <1>4, <1>5, <2>1, ByteTypes
  <2>2. CASE k > Len(buf)
    <3>1. PICK j \in 1 .. n : k = Len(buf) + j
      <4>1. k - Len(buf) \in 1 .. n /\ k = Len(buf) + (k - Len(buf))
        BY <1>1, <2>2, ByteTypes
      <4> QED
        BY <4>1
    <3>2. j \in 1 .. Len(wire)
      BY <1>1
    <3> QED
      BY <1>4, <1>5, <3>1, <3>2
  <2> QED
    BY <1>1, <2>1, <2>2, ByteTypes
<1> QED
  BY <1>4, <1>6

\* The outcomes of one read(2): more to come, a header beyond the limit, the
\* start of a payload, a payload.
LEMMA PullEffect ==
  ASSUME TypeOK, EndsInv, NEW n \in 1 .. Buffer, Pull(n)
  PROVE  /\ rend = "no" /\ n <= Len(wire)
         /\ wire' = SubSeq(wire, n + 1, Len(wire))
         /\ UNCHANGED <<wmax, rmax, cur, out, cut, writes, closed, sent, broken>>
         /\ \/ /\ Len(buf) + n < need /\ buf' = Taken(n)
               /\ UNCHANGED <<part, need, rend, got>>
            \/ /\ Len(buf) + n = need /\ part = "header" /\ FromLE(Taken(n)) > rmax
               /\ rend' = "too_large" /\ got' = got
               /\ part' = "header" /\ need' = HeaderLen /\ buf' = <<>>
            \/ /\ Len(buf) + n = need /\ part = "header"
               /\ FromLE(Taken(n)) > 0
               /\ rend' = rend /\ got' = got
               /\ part' = "body" /\ need' = FromLE(Taken(n)) /\ buf' = <<>>
            \/ /\ Len(buf) + n = need
               /\ rend' = rend
               /\ part' = "header" /\ need' = HeaderLen /\ buf' = <<>>
               /\ \E m : /\ \/ part = "header" /\ FromLE(Taken(n)) = 0 /\ m = <<>>
                            \/ part = "body" /\ m = Taken(n)
                         /\ got' = IF broken /\ Len(got) = Len(sent) THEN got
                                   ELSE Append(got, m)
<1>1. /\ rend = "no" /\ n <= Len(wire) /\ n <= need - Len(buf)
      /\ wire' = SubSeq(wire, n + 1, Len(wire))
      /\ UNCHANGED <<wmax, rmax, cur, out, cut, writes, closed, sent, broken>>
  BY DEF Pull, writer
<1>0. need \in Nat /\ Len(buf) \in Nat /\ n \in Nat /\ rmax \in Nat
  BY ByteTypes, ConstAssumption DEF TypeOK
<1>2. Len(buf) + n < need \/ Len(buf) + n = need
  BY <1>0, <1>1
<1>3. Len(buf) + n < need => Len(buf) + n # need
  BY <1>0
<1>4. part \in {"header", "body"}
  BY DEF TypeOK
<1>5. CASE Len(buf) + n < need
  <2>1. buf' = Taken(n) /\ UNCHANGED <<part, need, rend, got>>
    BY <1>3, <1>5, Zenon DEF Pull
  <2> QED
    BY <1>1, <1>5, <2>1
<1>6. CASE Len(buf) + n = need /\ part = "body"
  <2>1. Deliver(Taken(n))
    BY <1>3, <1>6, Zenon DEF Pull
  <2> QED
    BY <1>1, <1>6, <2>1, Zenon DEF Deliver, Expect
<1>7. CASE Len(buf) + n = need /\ part = "header"
  <2>1. HeaderDone(Taken(n))
    BY <1>3, <1>7, Zenon DEF Pull
  <2> DEFINE len == FromLE(Taken(n))
  <2>2. \/ len > rmax /\ ~(len <= rmax)
        \/ len <= rmax /\ len = 0 /\ ~(len > rmax) /\ ~(len > 0)
        \/ len <= rmax /\ len > 0 /\ ~(len > rmax) /\ len # 0
    <3>1. Taken(n) \in Seq(Digits) /\ Len(Taken(n)) = HeaderLen
      BY <1>1, <1>7, TakenType DEF EndsInv
    <3>2. len \in Nat
      BY <3>1, FromLEType
    <3> QED
      BY <1>0, <3>2
  <2> QED
    BY <1>1, <1>7, <2>1, <2>2, Zenon DEF HeaderDone, Deliver, Expect
<1> QED
  BY <1>2, <1>4, <1>5, <1>6, <1>7

\* What one write(2) does to the stream.
LEMMA PushEffect ==
  ASSUME TypeOK, EndsInv, NEW n \in 1 .. Buffer, Push(n)
  PROVE  /\ out # <<>> /\ ~closed /\ cur \in Payloads /\ n \in 1 .. Len(out)
         /\ UNCHANGED <<wmax, rmax, cur, cut, writes, closed, part, need, buf, rend, got, broken>>
         /\ sent' = IF n = Len(out) /\ ~broken THEN Append(sent, cur) ELSE sent
         /\ wire' \in Seq(Digits) /\ out' \in Seq(Digits)
         /\ Len(out') = Len(out) - n /\ (out' = <<>> <=> n = Len(out))
         /\ \A k \in 1 .. Len(out) - n : out'[k] = out[n + k]
         /\ Len(bytes') = Len(bytes) + n
         /\ \A k \in 1 .. Len(bytes) : bytes'[k] = bytes[k]
         /\ \A k \in 1 .. n : bytes'[Len(bytes) + k] = out[k]
<1>1. /\ out # <<>> /\ ~closed
      /\ n <= IF Len(out) > Len(cur) THEN Len(out) - Len(cur) ELSE Len(out)
      /\ wire' = wire \o SubSeq(out, 1, n) /\ out' = SubSeq(out, n + 1, Len(out))
      /\ sent' = IF n = Len(out) /\ ~broken THEN Append(sent, cur) ELSE sent
      /\ UNCHANGED <<wmax, rmax, cur, cut, writes, closed, part, need, buf, rend, got, broken>>
  BY DEF Push, reader
<1>2. n \in 1 .. Len(out) /\ n \in 0 .. Len(out) /\ n \in Nat
  BY <1>1, ByteTypes, ConstAssumption
<1>3. out \in Seq(Digits) /\ wire \in Seq(Digits) /\ buf \in Seq(Digits)
  BY ByteTypes
<1>4. PICK s \in Seq(Digits) : s = SubSeq(out, 1, n) /\ Len(s) = n /\ \A k \in 1 .. n : s[k] = out[k]
  <2>1. /\ SubSeq(out, 1, n) \in Seq(Digits) /\ Len(SubSeq(out, 1, n)) = n
        /\ \A k \in 1 .. n : SubSeq(out, 1, n)[k] = out[k]
    BY <1>2, <1>3, Split
  <2> QED
    BY <2>1, Zenon
<1>5. /\ out' \in Seq(Digits) /\ Len(out') = Len(out) - n
      /\ \A k \in 1 .. Len(out) - n : out'[k] = out[n + k]
  BY <1>1, <1>2, <1>3, Split
<1>6. out' = <<>> <=> n = Len(out)
  BY <1>2, <1>5, ByteTypes
<1>7. wire' = wire \o s
  BY <1>1, <1>4
<1>8. /\ wire' \in Seq(Digits) /\ Len(wire') = Len(wire) + n
      /\ \A k \in 1 .. Len(wire) : wire'[k] = wire[k]
      /\ \A k \in 1 .. n : wire'[Len(wire) + k] = out[k]
  <2>1. /\ wire \o s \in Seq(Digits) /\ Len(wire \o s) = Len(wire) + Len(s)
        /\ \A k \in 1 .. Len(wire) : (wire \o s)[k] = wire[k]
        /\ \A k \in 1 .. Len(s) : (wire \o s)[Len(wire) + k] = s[k]
    BY <1>3, Concat
  <2> QED
    BY <1>4, <1>7, <2>1, Zenon
<1>9. /\ Len(bytes) = Len(buf) + Len(wire)
      /\ \A k \in 1 .. Len(buf) : bytes[k] = buf[k]
      /\ \A k \in 1 .. Len(wire) : bytes[Len(buf) + k] = wire[k]
  BY <1>3, Concat DEF bytes
<1>10. /\ Len(bytes') = Len(buf) + Len(wire')
       /\ \A k \in 1 .. Len(buf) : bytes'[k] = buf[k]
       /\ \A k \in 1 .. Len(wire') : bytes'[Len(buf) + k] = wire'[k]
  <2>1. bytes' = buf \o wire'
    BY <1>1 DEF bytes
  <2>2. PICK w \in Seq(Digits) : w = wire'
    BY <1>8
  <2>3. /\ Len(buf \o w) = Len(buf) + Len(w)
        /\ \A k \in 1 .. Len(buf) : (buf \o w)[k] = buf[k]
        /\ \A k \in 1 .. Len(w) : (buf \o w)[Len(buf) + k] = w[k]
    BY <1>3, Concat
  <2> QED
    BY <2>1, <2>2, <2>3
<1>11. Len(buf) \in Nat /\ Len(wire) \in Nat
  BY ByteTypes
<1>12. ASSUME NEW k \in 1 .. Len(bytes) PROVE bytes'[k] = bytes[k]
  <2>1. CASE k <= Len(buf)
    BY <1>9, <1>10, <1>11, <2>1
  <2>2. CASE k > Len(buf)
    <3>1. k - Len(buf) \in 1 .. Len(wire) /\ k = Len(buf) + (k - Len(buf))
      BY <1>9, <1>11, <2>2
    <3>2. k - Len(buf) \in 1 .. Len(wire')
      BY <1>2, <1>8, <1>11, <3>1
    <3> QED
      BY <1>8, <1>9, <1>10, <3>1, <3>2
  <2> QED
    BY <1>9, <1>11, <2>1, <2>2
<1>13. ASSUME NEW k \in 1 .. n PROVE bytes'[Len(bytes) + k] = out[k]
  <2>1. Len(wire) + k \in 1 .. Len(wire') /\ Len(bytes) + k = Len(buf) + (Len(wire) + k)
    BY <1>2, <1>8, <1>9, <1>11
  <2> QED
    BY <1>8, <1>10, <2>1
<1> QED
  BY <1>1, <1>2, <1>5, <1>6, <1>8, <1>9, <1>10, <1>11, <1>12, <1>13 DEF EndsInv

\* The first c bytes are gone from the stream.
Shifted(c) ==
  /\ Len(bytes') = Len(bytes) - c
  /\ \A k \in 1 .. Len(bytes') : bytes'[k] = bytes[c + k]

\* A read takes bytes from the stream only when it completes a part.
LEMMA PullBytes ==
  ASSUME TypeOK, NEW n \in 1 .. Buffer, n <= Len(wire),
         wire' = SubSeq(wire, n + 1, Len(wire))
  PROVE  /\ wire' \in Seq(Digits)
         /\ buf' = Taken(n) => Shifted(0)
         /\ buf' = <<>> => Shifted(Len(buf) + n)
<1>1. n \in 0 .. Len(wire) /\ n \in Nat /\ Len(buf) \in Nat /\ Len(wire) \in Nat
  BY ByteTypes, ConstAssumption
<1>2. wire \in Seq(Digits) /\ buf \in Seq(Digits)
  BY ByteTypes
<1>3. /\ wire' \in Seq(Digits) /\ Len(wire') = Len(wire) - n
      /\ \A k \in 1 .. Len(wire) - n : wire'[k] = wire[n + k]
  BY <1>1, <1>2, Split
<1>4. /\ Len(bytes) = Len(buf) + Len(wire)
      /\ \A k \in 1 .. Len(wire) : bytes[Len(buf) + k] = wire[k]
  BY <1>2, Concat DEF bytes
<1>5. ASSUME buf' = Taken(n) PROVE Shifted(0)
  <2>1. /\ Taken(n) \in Seq(Digits) /\ Len(Taken(n)) = Len(buf) + n
        /\ \A k \in 1 .. Len(buf) + n : Taken(n)[k] = bytes[k]
    BY TakenType
  <2>2. PICK s \in Seq(Digits) : s = Taken(n)
    BY <2>1
  <2>3. /\ Len(bytes') = Len(s) + Len(wire')
        /\ \A k \in 1 .. Len(s) : bytes'[k] = s[k]
        /\ \A k \in 1 .. Len(wire') : bytes'[Len(s) + k] = wire'[k]
    <3>1. bytes' = s \o wire'
      BY <1>5, <2>2 DEF bytes
    <3> QED
      BY <1>3, <3>1, Concat
  <2>4. Len(s) = Len(buf) + n /\ \A k \in 1 .. Len(s) : s[k] = bytes[k]
    BY <2>1, <2>2
  <2>5. Len(bytes') = Len(bytes)
    BY <1>1, <1>3, <1>4, <2>3, <2>4
  <2>6. ASSUME NEW k \in 1 .. Len(bytes') PROVE bytes'[k] = bytes[0 + k]
    <3>0. 0 + k = k
      OBVIOUS
    <3>1. CASE k <= Len(s)
      <4>1. k \in 1 .. Len(s)
        BY <1>1, <2>4, <3>1
      <4> QED
        BY <2>3, <2>4, <3>0, <4>1
    <3>2. CASE k > Len(s)
      <4>1. k - Len(s) \in 1 .. Len(wire') /\ k = Len(s) + (k - Len(s))
        BY <1>1, <1>3, <2>3, <2>4, <3>2
      <4>2. /\ n + (k - Len(s)) \in 1 .. Len(wire)
            /\ k = Len(buf) + (n + (k - Len(s)))
        BY <1>1, <1>3, <2>4, <4>1
      <4>3. bytes'[k] = wire'[k - Len(s)]
        BY <2>3, <4>1
      <4>4. wire'[k - Len(s)] = wire[n + (k - Len(s))]
        BY <1>3, <4>1
      <4>5. wire[n + (k - Len(s))] = bytes[k]
        BY <1>4, <4>2
      <4> QED
        BY <3>0, <4>3, <4>4, <4>5
    <3> QED
      BY <1>1, <2>4, <3>1, <3>2
  <2> QED
    BY <1>1, <1>4, <2>5, <2>6 DEF Shifted
<1>6. ASSUME buf' = <<>> PROVE Shifted(Len(buf) + n)
  <2>1. bytes' = wire'
    <3>1. bytes' = <<>> \o wire'
      BY <1>6 DEF bytes
    <3> QED
      BY <1>3, <3>1
  <2>2. Len(bytes') = Len(bytes) - (Len(buf) + n)
    BY <1>1, <1>3, <1>4, <2>1
  <2>3. ASSUME NEW k \in 1 .. Len(bytes') PROVE bytes'[k] = bytes[(Len(buf) + n) + k]
    <3>1. k \in 1 .. Len(wire) - n /\ n + k \in 1 .. Len(wire)
          /\ (Len(buf) + n) + k = Len(buf) + (n + k)
      BY <1>1, <1>3, <2>1
    <3> QED
      BY <1>3, <1>4, <2>1, <3>1
  <2> QED
    BY <2>2, <2>3 DEF Shifted
<1> QED
  BY <1>3, <1>5, <1>6

\* What write_frame_bytes() starts with.
LEMMA WriteEffect ==
  ASSUME TypeOK, NEW m \in Payloads, Write(m)
  PROVE  /\ ~closed /\ out = <<>> /\ writes < MaxWrites /\ writes' = writes + 1
         /\ cur' = m /\ out' = FrameOf(m) /\ out' \in Seq(Digits)
         /\ Len(m) \in Nat /\ Len(m) <= wmax
         /\ ~broken' => ~broken /\ ~cut /\ Len(m) <= HeaderMax
         /\ broken => broken'
         /\ broken' \in BOOLEAN
         /\ UNCHANGED <<wmax, rmax, cut, closed, wire, part, need, buf, rend, sent, got>>
<1>1. m \in Seq(Digits) /\ Len(m) \in Nat
  BY ByteTypes
<1>2. broken' = (broken \/ cut \/ Len(m) > HeaderMax)
  BY DEF Write
<1>3. /\ ~broken' => ~broken /\ ~cut /\ ~(Len(m) > HeaderMax)
      /\ broken => broken'
      /\ broken' \in BOOLEAN
  BY <1>2, Zenon
<1>4. ~(Len(m) > HeaderMax) => Len(m) <= HeaderMax
  BY <1>1, HeaderMaxType
<1>5. FrameOf(m) \in Seq(Digits)
  BY <1>1, FrameType
<1> QED
  BY <1>1, <1>3, <1>4, <1>5 DEF Write, reader

\* Every step keeps the types.
LEMMA TypeStep == TypeOK /\ EndsInv /\ [Next]_vars => TypeOK'
<1> SUFFICES ASSUME TypeOK, EndsInv, [Next]_vars PROVE TypeOK'
  OBVIOUS
<1> DEFINE Ends ==
             /\ wmax \in Limits /\ rmax \in Limits
             /\ writes \in 0 .. MaxWrites
             /\ part \in {"header", "body"} /\ rend \in {"no", "too_large", "eof", "io"}
           Flags == cut \in BOOLEAN /\ closed \in BOOLEAN /\ broken \in BOOLEAN
           Strings ==
             /\ cur \in Payloads \cup {<<>>}
             /\ out \in Seq(Digits) /\ wire \in Seq(Digits) /\ buf \in Seq(Digits)
           Counts == need \in Nat /\ Len(buf) < need
           Lists == sent \in Seq(Payloads) /\ got \in Seq(Seq(Digits))
<1>0. (Ends' /\ Flags' /\ Strings' /\ Counts' /\ Lists') => TypeOK'
  BY DEF TypeOK, Digits
<1>1. Ends /\ Flags /\ Strings /\ Counts /\ Lists
  BY DEF TypeOK, Digits
<1> HIDE DEF Ends, Flags, Strings, Counts, Lists
<1>2. ASSUME NEW m \in Payloads, Write(m) PROVE TypeOK'
  <2>1. Ends'
    BY <1>1, <1>2, WriteEffect, ConstAssumption DEF Ends
  <2>2. Flags'
    BY <1>1, <1>2, WriteEffect DEF Flags
  <2>3. Strings'
    BY <1>1, <1>2, WriteEffect DEF Strings
  <2>4. Counts' /\ Lists'
    BY <1>1, <1>2, WriteEffect DEF Counts, Lists
  <2> QED
    BY <1>0, <2>1, <2>2, <2>3, <2>4
<1>3. ASSUME NEW n \in 1 .. Buffer, Push(n) PROVE TypeOK'
  <2>1. Ends' /\ Counts'
    BY <1>1, <1>3, PushEffect DEF Ends, Counts
  <2>2. Flags'
    BY <1>1, <1>3, PushEffect DEF Flags
  <2>3. Strings'
    BY <1>1, <1>3, PushEffect DEF Strings
  <2>4. Lists'
    <3>1. cur \in Payloads /\ got' = got /\ (sent' = sent \/ sent' = Append(sent, cur))
      BY <1>3, PushEffect, Zenon
    <3> QED
      BY <1>1, <3>1 DEF Lists
  <2> QED
    BY <1>0, <2>1, <2>2, <2>3, <2>4
<1>4. CASE PushFails \/ Close
  <2>1. /\ out' = <<>>
        /\ UNCHANGED <<wmax, rmax, cur, writes, wire, part, need, buf, rend, sent, got, broken>>
    BY <1>4 DEF PushFails, Close, reader
  <2>2. Flags'
    BY <1>1, <1>4, Zenon DEF Flags, PushFails, Close
  <2>3. Strings'
    <3>1. <<>> \in Seq(Digits)
      OBVIOUS
    <3> QED
      BY <1>1, <2>1, <3>1, Zenon DEF Strings
  <2>4. Ends' /\ Counts' /\ Lists'
    BY <1>1, <2>1, Zenon DEF Ends, Counts, Lists
  <2> QED
    BY <1>0, <2>2, <2>3, <2>4
<1>5. ASSUME NEW n \in 1 .. Buffer, Pull(n) PROVE TypeOK'
  <2>1. /\ rend = "no" /\ n <= Len(wire)
        /\ wire' = SubSeq(wire, n + 1, Len(wire))
        /\ UNCHANGED <<wmax, rmax, cur, out, cut, writes, closed, sent, broken>>
    BY <1>5, PullEffect
  <2>2. Flags'
    BY <1>1, <2>1 DEF Flags
  <2>3. Ends'
    BY <1>1, <1>5, <2>1, PullEffect DEF Ends
  <2>4. Taken(n) \in Seq(Digits) /\ Len(Taken(n)) = Len(buf) + n /\ <<>> \in Seq(Digits)
    BY <2>1, TakenType
  <2>5. Strings'
    <3>1. buf' = Taken(n) \/ buf' = <<>>
      BY <1>5, PullEffect
    <3>2. wire' \in Seq(Digits)
      BY <2>1, PullBytes
    <3> QED
      BY <1>1, <2>1, <2>4, <3>1, <3>2, Zenon DEF Strings
  <2>6. Counts'
    <3>1. CASE Len(buf) + n < need /\ buf' = Taken(n) /\ need' = need
      BY <1>1, <2>4, <3>1 DEF Counts
    <3>2. CASE buf' = <<>> /\ need' = HeaderLen
      BY <3>2, ConstAssumption DEF Counts
    <3>3. CASE Len(buf) + n = need /\ part = "header" /\ buf' = <<>>
               /\ need' = FromLE(Taken(n)) /\ FromLE(Taken(n)) > 0
      <4>1. FromLE(Taken(n)) \in Nat
        BY <2>4, <3>3, FromLEType DEF EndsInv
      <4> QED
        BY <3>3, <4>1 DEF Counts
    <3> QED
      BY <1>5, <3>1, <3>2, <3>3, PullEffect
  <2>7. Lists'
    <3>1. got' = got \/ got' = Append(got, Taken(n)) \/ got' = Append(got, <<>>)
      BY <1>5, PullEffect, Zenon
    <3>2. \A S : \A g \in Seq(S) : \A e \in S : Append(g, e) \in Seq(S)
      OBVIOUS
    <3>3. got' \in Seq(Seq(Digits))
      BY <1>1, <2>4, <3>1, <3>2, Zenon DEF Lists
    <3> QED
      BY <1>1, <2>1, <3>3, Zenon DEF Lists
  <2> QED
    BY <1>0, <2>2, <2>3, <2>5, <2>6, <2>7
<1>6. CASE PullEnd \/ PullFails
  <2>1. /\ rend' \in {"eof", "io"}
        /\ UNCHANGED <<wmax, rmax, cur, out, cut, writes, closed, wire, part, need, buf, sent, got, broken>>
    BY <1>6 DEF PullEnd, PullFails, writer
  <2>2. Flags' /\ Strings' /\ Counts' /\ Lists'
    BY <1>1, <2>1, Zenon DEF Flags, Strings, Counts, Lists
  <2>3. Ends'
    BY <1>1, <2>1 DEF Ends
  <2> QED
    BY <1>0, <2>2, <2>3
<1>7. CASE UNCHANGED vars
  <2>1. Ends' /\ Flags' /\ Strings' /\ Counts' /\ Lists'
    BY <1>1, <1>7, Zenon DEF vars, writer, reader, Ends, Flags, Strings, Counts, Lists
  <2> QED
    BY <1>0, <2>1
<1> QED
  BY <1>2, <1>3, <1>4, <1>5, <1>6, <1>7 DEF Next, Reader

\* Every step keeps to the limit and the header.
LEMMA EndsStep == TypeOK /\ EndsInv /\ [Next]_vars => EndsInv'
<1> SUFFICES ASSUME TypeOK, EndsInv, [Next]_vars PROVE EndsInv'
  OBVIOUS
<1>1. /\ out # <<>> => cur \in Payloads /\ ~closed
      /\ Len(cur) <= wmax
      /\ ~broken => Len(cur) <= HeaderMax
      /\ \A i \in 1 .. Len(sent) : Len(sent[i]) <= wmax /\ Len(sent[i]) <= HeaderMax
      /\ part = "header" => need = HeaderLen
  BY DEF EndsInv
<1>2. ASSUME NEW m \in Payloads, Write(m) PROVE EndsInv'
  BY <1>1, <1>2, WriteEffect DEF EndsInv
<1>3. ASSUME NEW n \in 1 .. Buffer, Push(n) PROVE EndsInv'
  <2>1. \A i \in 1 .. Len(sent') : Len(sent'[i]) <= wmax /\ Len(sent'[i]) <= HeaderMax
    <3>1. CASE sent' = sent
      BY <1>1, <3>1
    <3>2. CASE sent' = Append(sent, cur) /\ ~broken
      <4>1. sent \in Seq(Payloads) /\ cur \in Payloads
        BY <1>3, PushEffect DEF TypeOK
      <4>2. \A i \in 1 .. Len(sent') : sent'[i] = cur \/ (i \in 1 .. Len(sent) /\ sent'[i] = sent[i])
        BY <3>2, <4>1
      <4> QED
        BY <1>1, <3>2, <4>2
    <3> QED
      BY <1>3, <3>1, <3>2, PushEffect
  <2>2. UNCHANGED <<wmax, cur, closed, part, need, broken>> /\ cur \in Payloads /\ ~closed
    BY <1>3, PushEffect
  <2> QED
    BY <1>1, <2>1, <2>2 DEF EndsInv
<1>4. CASE PushFails \/ Close
  <2>1. out' = <<>> /\ UNCHANGED <<wmax, cur, sent, part, need, broken>>
    BY <1>4 DEF PushFails, Close, reader
  <2> QED
    BY <1>1, <2>1 DEF EndsInv
<1>5. ASSUME NEW n \in 1 .. Buffer, Pull(n) PROVE EndsInv'
  <2>1. /\ UNCHANGED <<wmax, cur, out, closed, sent, broken>>
        /\ part' = "header" => need' = HeaderLen
    BY <1>1, <1>5, PullEffect
  <2> QED
    BY <1>1, <2>1 DEF EndsInv
<1>6. CASE UNCHANGED <<wmax, cur, out, closed, sent, part, need, broken>>
  BY <1>1, <1>6 DEF EndsInv
<1> QED
  BY <1>2, <1>3, <1>4, <1>5, <1>6 DEF Next, Reader, PullEnd, PullFails, vars, writer, reader

\* Both hold throughout.
LEMMA EndsAlways == Spec => [](TypeOK /\ EndsInv)
<1>1. Init => TypeOK
  <2> SUFFICES ASSUME Init PROVE TypeOK
    OBVIOUS
  <2>1. cut \in BOOLEAN /\ closed \in BOOLEAN /\ broken \in BOOLEAN
    BY Zenon DEF Init
  <2>2. \A S : <<>> \in Seq(S)
    OBVIOUS
  <2>3. need \in Nat /\ Len(buf) < need /\ writes \in 0 .. MaxWrites
    BY ConstAssumption DEF Init
  <2> QED
    BY <2>1, <2>2, <2>3 DEF Init, TypeOK
<1>2. Init => EndsInv
  BY ConstAssumption, HeaderMaxType DEF Init, EndsInv
<1> QED
  BY <1>1, <1>2, TypeStep, EndsStep, PTL DEF Spec

\* Type correctness of the codec: read_exact() never takes a byte beyond what
\* it needs, whatever arrives.
THEOREM TypeCorrect == Spec => []TypeOK
  BY EndsAlways, PTL

-----------------------------------------------------------------------------
(***************************************************************************)
(* The framing of the stream.                                              *)
(***************************************************************************)

\* A frame stays a frame when bytes before its end are taken from the front.
LEMMA SpellsShift ==
  ASSUME NEW c \in Nat, Shifted(c), Len(bytes) \in Nat,
         NEW p \in Int, NEW m, NEW n \in Int, p + n <= Len(bytes), Spells(p, m, n)
  PROVE  \A k \in 1 .. n : (p - c) + k >= 1 => bytes'[(p - c) + k] = FrameOf(m)[k]
<1> SUFFICES ASSUME NEW k \in 1 .. n, (p - c) + k >= 1
             PROVE  bytes'[(p - c) + k] = FrameOf(m)[k]
  OBVIOUS
<1>1. /\ (p - c) + k \in 1 .. Len(bytes) - c
      /\ c + ((p - c) + k) = p + k /\ p + k >= 1
  OBVIOUS
<1>2. bytes'[(p - c) + k] = bytes[p + k]
  BY <1>1 DEF Shifted
<1> QED
  BY <1>1, <1>2 DEF Spells

\* A frame stays a frame when bytes are added at the end.
LEMMA SpellsGrow ==
  ASSUME Len(bytes) \in Nat, \A k \in 1 .. Len(bytes) : bytes'[k] = bytes[k],
         NEW p \in Int, NEW m, NEW n \in Int, p + n <= Len(bytes), Spells(p, m, n)
  PROVE  \A k \in 1 .. n : p + k >= 1 => bytes'[p + k] = FrameOf(m)[k]
<1> SUFFICES ASSUME NEW k \in 1 .. n, p + k >= 1 PROVE bytes'[p + k] = FrameOf(m)[k]
  OBVIOUS
<1>1. p + k \in 1 .. Len(bytes)
  OBVIOUS
<1> QED
  BY <1>1 DEF Spells

\* The reader moves on in the stream: by nothing, by a header, or by the rest
\* of a frame that was sent.
LEMMA ShiftFramed ==
  ASSUME TypeOK, NEW pos \in [Len(got) .. Len(sent) -> Int], Framed(pos),
         NEW c \in Nat, Shifted(c), UNCHANGED <<sent, cur, out, cut, broken>>,
         Len(got') \in Len(got) .. Len(sent), pos[Len(got')] - c = 0 - Gone'
  PROVE  \E q \in [Len(got') .. Len(sent') -> Int] : Framed(q)'
<1>1. /\ Len(got) \in Nat /\ Len(sent) \in Nat /\ Len(bytes) \in Nat /\ HeaderLen \in Nat
      /\ Len(cur) \in Nat /\ Len(out) \in Nat
      /\ \A i \in 1 .. Len(sent) : Len(sent[i]) \in Nat
  BY ByteTypes, ConstAssumption
<1>2. Len(got') \in Nat /\ Len(got') <= Len(sent)
  BY <1>1
<1>3. PICK q \in [Len(got') .. Len(sent) -> Int] :
        \A i \in Len(got') .. Len(sent) : q[i] = pos[i] - c
  <2> DEFINE g == [i \in Len(got') .. Len(sent) |-> pos[i] - c]
  <2>1. \A i \in Len(got') .. Len(sent) : pos[i] \in Int /\ pos[i] - c \in Int
    BY <1>1, <1>2
  <2>2. g \in [Len(got') .. Len(sent) -> Int]
    BY <2>1
  <2> QED
    BY <2>2
<1>4. Len(bytes') = Len(bytes) - c
  BY DEF Shifted
<1>5. Laid(q)'
  <2>1. q[Len(got')] = 0 - Gone'
    BY <1>2, <1>3
  <2>2. ASSUME NEW i \in Len(got') + 1 .. Len(sent)
        PROVE  /\ q[i] = q[i - 1] + HeaderLen + Len(sent[i])
               /\ q[i] <= Len(bytes')
               /\ \A k \in 1 .. HeaderLen + Len(sent[i]) :
                    q[i - 1] + k >= 1 => bytes'[q[i - 1] + k] = FrameOf(sent[i])[k]
    <3>1. /\ i \in Len(got) + 1 .. Len(sent) /\ i \in 1 .. Len(sent)
          /\ i \in Len(got') .. Len(sent) /\ i - 1 \in Len(got') .. Len(sent)
          /\ i \in Len(got) .. Len(sent) /\ i - 1 \in Len(got) .. Len(sent)
      BY <1>1, <1>2
    <3>2. /\ pos[i] = pos[i - 1] + HeaderLen + Len(sent[i])
          /\ pos[i] <= Len(bytes)
          /\ Spells(pos[i - 1], sent[i], HeaderLen + Len(sent[i]))
      BY <3>1 DEF Framed, Laid
    <3>3. PICK x \in Int, y \in Int, l \in Nat :
            x = pos[i - 1] /\ y = pos[i] /\ l = Len(sent[i])
      BY <1>1, <3>1
    <3>4. q[i - 1] = x - c /\ q[i] = y - c
      BY <1>3, <3>1, <3>3
    <3>5. y = x + HeaderLen + l /\ y <= Len(bytes) /\ Spells(x, sent[i], HeaderLen + l)
      BY <3>2, <3>3
    <3>6. PICK m : m = sent[i]
      OBVIOUS
    <3>7. \A k \in 1 .. HeaderLen + l :
            (x - c) + k >= 1 => bytes'[(x - c) + k] = FrameOf(m)[k]
      <4>1. HeaderLen + l \in Int /\ x + (HeaderLen + l) <= Len(bytes)
        BY <1>1, <3>5
      <4> QED
        BY <1>1, <3>5, <3>6, <4>1, SpellsShift
    <3>8. y - c = (x - c) + HeaderLen + l /\ y - c <= Len(bytes')
      BY <1>1, <1>4, <3>5
    <3> QED
      BY <3>3, <3>4, <3>6, <3>7, <3>8
  <2> QED
    BY <2>1, <2>2 DEF Laid, Spells
<1>6. ~broken => Unfinished(q)'
  <2> SUFFICES ASSUME ~broken PROVE Unfinished(q)'
    OBVIOUS
  <2>1. PICK p \in Int, t \in Int : p = pos[Len(sent)] /\ t = Len(bytes) - p
    <3>1. Len(sent) \in Len(got) .. Len(sent)
      BY <1>1, <1>2
    <3>2. pos[Len(sent)] \in Int
      BY <3>1
    <3>3. Len(bytes) - pos[Len(sent)] \in Int
      BY <1>1, <3>2
    <3> QED
      BY <3>2, <3>3
  <2>2. q[Len(sent)] = p - c /\ Len(bytes') - (p - c) = t
    BY <1>1, <1>2, <1>3, <1>4, <2>1
  <2>3. Written(p, t)
    BY <2>1 DEF Framed, Unfinished
  <2>4. PICK m : m = cur
    OBVIOUS
  <2>5. \A k \in 1 .. t : (p - c) + k >= 1 => bytes'[(p - c) + k] = FrameOf(m)[k]
    <3>1. p + t <= Len(bytes)
      BY <1>1, <2>1
    <3> QED
      BY <1>1, <2>3, <2>4, <3>1, SpellsShift DEF Written
  <2>6. /\ cur' = cur /\ out' = out /\ cut' = cut /\ sent' = sent
    OBVIOUS
  <2>7. q[Len(sent')] = p - c /\ Len(bytes') - q[Len(sent')] = t
    BY <2>2, <2>6
  <2>8. Spells(p - c, cur, t)'
    BY <2>4, <2>5, <2>6 DEF Spells
  <2>9. Written(p - c, t)'
    BY <2>3, <2>6, <2>8 DEF Written
  <2> QED
    BY <2>7, <2>9 DEF Unfinished
<1> QED
  BY <1>3, <1>5, <1>6 DEF Framed

\* Where the frames end, in numbers.
LEMMA PosTypes ==
  ASSUME TypeOK, PrefixInv, NEW pos \in [Len(got) .. Len(sent) -> Int]
  PROVE  /\ pos[Len(got)] \in Int /\ pos[Len(sent)] \in Int
         /\ Len(bytes) - pos[Len(sent)] \in Int
         /\ Len(got) \in Nat /\ Len(sent) \in Nat /\ Len(bytes) \in Nat
         /\ HeaderLen \in Nat \ {0} /\ Len(cur) \in Nat /\ Len(out) \in Nat
<1>1. /\ Len(got) \in Nat /\ Len(sent) \in Nat /\ Len(bytes) \in Nat
      /\ HeaderLen \in Nat \ {0} /\ Len(cur) \in Nat /\ Len(out) \in Nat
  BY ByteTypes, ConstAssumption
<1>2. Len(got) \in Len(got) .. Len(sent) /\ Len(sent) \in Len(got) .. Len(sent)
  BY <1>1 DEF PrefixInv
<1>3. pos[Len(got)] \in Int /\ pos[Len(sent)] \in Int
  BY <1>2
<1> QED
  BY <1>1, <1>3

\* The frames that were sent stay in place when bytes are added.
LEMMA LaidGrow ==
  ASSUME TypeOK, PrefixInv, NEW pos \in [Len(got) .. Len(sent) -> Int], Laid(pos),
         UNCHANGED <<got, sent, part>>, Len(bytes) <= Len(bytes'), Len(bytes') \in Nat,
         \A k \in 1 .. Len(bytes) : bytes'[k] = bytes[k]
  PROVE  Laid(pos)'
<1>1. pos[Len(got')] = 0 - Gone'
  BY DEF Laid, Gone
<1>2. ASSUME NEW i \in Len(got) + 1 .. Len(sent)
      PROVE  /\ pos[i] = pos[i - 1] + HeaderLen + Len(sent[i])
             /\ pos[i] <= Len(bytes')
             /\ \A k \in 1 .. HeaderLen + Len(sent[i]) :
                  pos[i - 1] + k >= 1 => bytes'[pos[i - 1] + k] = FrameOf(sent[i])[k]
  <2>1. /\ pos[i] = pos[i - 1] + HeaderLen + Len(sent[i])
        /\ pos[i] <= Len(bytes)
        /\ Spells(pos[i - 1], sent[i], HeaderLen + Len(sent[i]))
    BY <1>2 DEF Laid
  <2>2. /\ i \in 1 .. Len(sent) /\ i \in Len(got) .. Len(sent)
        /\ i - 1 \in Len(got) .. Len(sent)
    BY PosTypes
  <2>3. PICK x \in Int, y \in Int, l \in Nat :
          x = pos[i - 1] /\ y = pos[i] /\ l = Len(sent[i])
    BY <2>2, ByteTypes
  <2>4. y = x + HeaderLen + l /\ y <= Len(bytes) /\ Spells(x, sent[i], HeaderLen + l)
    BY <2>1, <2>3
  <2>5. PICK m : m = sent[i]
    OBVIOUS
  <2>6. HeaderLen + l \in Int /\ x + (HeaderLen + l) <= Len(bytes) /\ y <= Len(bytes')
    BY <2>4, PosTypes
  <2>7. \A k \in 1 .. HeaderLen + l : x + k >= 1 => bytes'[x + k] = FrameOf(m)[k]
    BY <2>4, <2>5, <2>6, SpellsGrow, PosTypes
  <2> QED
    BY <2>1, <2>3, <2>5, <2>6, <2>7
<1> QED
  BY <1>1, <1>2 DEF Laid, Spells

\* A frame is never wholly written and still in the writer's hands.
LEMMA NotComplete ==
  ASSUME TypeOK, NEW p \in Int, NEW t \in Int, Written(p, t)
  PROVE  t < HeaderLen + Len(cur)
<1>1. HeaderLen \in Nat \ {0} /\ Len(cur) \in Nat /\ Len(out) \in Nat
  BY ByteTypes, ConstAssumption
<1>2. CASE out # <<>>
  <2>1. Len(out) > 0
    BY <1>2, ByteTypes
  <2> QED
    BY <1>1, <1>2, <2>1 DEF Written
<1>3. CASE out = <<>> /\ ~cut
  BY <1>1, <1>3 DEF Written
<1>4. CASE cut
  BY <1>4 DEF Written
<1> QED
  BY <1>2, <1>3, <1>4

\* The writer goes on with a frame, or ends it.
LEMMA PushFramed ==
  ASSUME TypeOK, EndsInv, PrefixInv, NEW n \in 1 .. Buffer, Push(n),
         NEW pos \in [Len(got) .. Len(sent) -> Int], Framed(pos)
  PROVE  \E q \in [Len(got') .. Len(sent') -> Int] : Framed(q)'
<1>1. /\ Len(got) \in Nat /\ Len(sent) \in Nat /\ Len(bytes) \in Nat /\ n \in Nat
      /\ HeaderLen \in Nat \ {0} /\ Len(cur) \in Nat /\ Len(out) \in Nat
      /\ Len(got) <= Len(sent)
  BY PosTypes, ConstAssumption DEF PrefixInv
<1>2. /\ out # <<>> /\ n \in 1 .. Len(out)
      /\ UNCHANGED <<cur, cut, part, got, broken>>
      /\ sent' = IF n = Len(out) /\ ~broken THEN Append(sent, cur) ELSE sent
      /\ Len(out') = Len(out) - n /\ (out' = <<>> <=> n = Len(out))
      /\ \A k \in 1 .. Len(out) - n : out'[k] = out[n + k]
      /\ Len(bytes') = Len(bytes) + n
      /\ \A k \in 1 .. Len(bytes) : bytes'[k] = bytes[k]
      /\ \A k \in 1 .. n : bytes'[Len(bytes) + k] = out[k]
  BY PushEffect
<1>3. Len(bytes') \in Nat /\ Len(bytes) <= Len(bytes')
  BY <1>1, <1>2
<1>4. ASSUME sent' = sent PROVE Laid(pos)'
  BY <1>2, <1>3, <1>4, LaidGrow DEF Framed
<1>5. CASE broken
  <2>1. sent' = sent
    BY <1>2, <1>5
  <2> QED
    BY <1>2, <1>4, <1>5, <2>1 DEF Framed
<1>6. CASE ~broken
  <2>1. PICK p \in Int, t \in Int :
          p = pos[Len(sent)] /\ t = Len(bytes) - pos[Len(sent)] /\ Written(p, t)
    BY <1>6, PosTypes DEF Framed, Unfinished
  <2>2. /\ t + Len(out) = HeaderLen + Len(cur) /\ ~cut /\ 0 <= t
        /\ \A k \in 1 .. Len(out) : out[k] = FrameOf(cur)[t + k]
        /\ Spells(p, cur, t)
    BY <1>2, <2>1 DEF Written
  <2>a. n \in 1 .. Len(out) /\ Len(out') = Len(out) - n /\ Len(bytes') = Len(bytes) + n
    BY <1>2
  <2>b. t + Len(out) = HeaderLen + Len(cur) /\ 0 <= t
    BY <2>2
  <2>c. p + t = Len(bytes)
    BY <1>1, <2>1
  <2>3. ASSUME NEW k \in 1 .. t + n, p + k >= 1 PROVE bytes'[p + k] = FrameOf(cur)[k]
    <3>1. CASE k <= t
      <4>1. k \in 1 .. t /\ p + t <= Len(bytes)
        BY <1>1, <2>1, <3>1
      <4>2. PICK m : m = cur
        OBVIOUS
      <4>3. Spells(p, m, t)
        BY <2>2, <4>2
      <4> QED
        BY <1>1, <1>2, <2>3, <4>1, <4>2, <4>3, SpellsGrow
    <3>2. CASE k > t
      <4>1. PICK j \in 1 .. n : k = t + j
        <5>1. k - t \in 1 .. n /\ k = t + (k - t)
          BY <1>1, <3>2
        <5> QED
          BY <5>1
      <4>2. j \in 1 .. Len(out) /\ p + k = Len(bytes) + j
        <5>1. PICK o \in Nat, b \in Nat : o = Len(out) /\ b = Len(bytes)
          BY <1>1
        <5>2. n \in Nat /\ n <= o /\ p + t = b
          BY <1>1, <2>a, <2>c, <5>1
        <5>3. j \in 1 .. o /\ p + k = b + j
          BY <4>1, <5>2
        <5> QED
          BY <5>1, <5>3
      <4> QED
        BY <1>2, <2>2, <4>1, <4>2
    <3> QED
      BY <1>1, <3>1, <3>2
  <2>4. CASE n # Len(out)
    <3>1. sent' = sent /\ out' # <<>>
      BY <1>2, <2>4
    <3>2. Len(bytes') - p = t + n
      BY <1>1, <1>2, <2>1
    <3>3. ASSUME NEW k \in 1 .. Len(out') PROVE out'[k] = FrameOf(cur)[(t + n) + k]
      <4>1. k \in 1 .. Len(out) - n /\ n + k \in 1 .. Len(out) /\ t + (n + k) = (t + n) + k
        BY <1>1, <1>2
      <4> QED
        BY <1>2, <2>2, <4>1
    <3>4. (t + n) + Len(out') = HeaderLen + Len(cur) /\ 0 <= t + n /\ t + n <= HeaderLen + Len(cur)
      <4>1. PICK o \in Nat, l \in Nat, h \in Nat : o = Len(out) /\ l = Len(cur) /\ h = HeaderLen
        BY <1>1
      <4>2. n \in Nat /\ 1 <= n /\ n <= o /\ Len(out') = o - n
        BY <1>1, <2>a, <4>1
      <4>3. t + o = h + l /\ 0 <= t
        BY <2>b, <4>1
      <4>4. (t + n) + (o - n) = h + l /\ 0 <= t + n /\ t + n <= h + l
        BY <4>2, <4>3
      <4> QED
        BY <4>1, <4>2, <4>4
    <3>5. Spells(p, cur, t + n)'
      BY <1>2, <2>3 DEF Spells
    <3>6. Written(p, t + n)'
      BY <1>2, <2>2, <3>1, <3>3, <3>4, <3>5 DEF Written
    <3>7. Unfinished(pos)'
      BY <2>1, <3>1, <3>2, <3>6 DEF Unfinished
    <3> QED
      BY <1>2, <1>4, <3>1, <3>7 DEF Framed
  <2>5. CASE n = Len(out)
    <3>1. sent' = Append(sent, cur) /\ out' = <<>>
      BY <1>2, <1>6, <2>5
    <3>2. /\ Len(sent') = Len(sent) + 1 /\ sent'[Len(sent) + 1] = cur
          /\ \A i \in 1 .. Len(sent) : sent'[i] = sent[i]
      <4>1. sent \in Seq(Payloads) /\ cur \in Payloads
        BY PushEffect DEF TypeOK
      <4> QED
        BY <3>1, <4>1
    <3>3. t + n = HeaderLen + Len(cur) /\ p + HeaderLen + Len(cur) = Len(bytes')
      BY <1>1, <2>a, <2>b, <2>c, <2>5
    <3>4. PICK q \in [Len(got) .. Len(sent) + 1 -> Int] :
            /\ \A i \in Len(got) .. Len(sent) : q[i] = pos[i]
            /\ q[Len(sent) + 1] = Len(bytes')
      <4> DEFINE g == [i \in Len(got) .. Len(sent) + 1 |->
                         IF i = Len(sent) + 1 THEN Len(bytes') ELSE pos[i]]
      <4>1. ASSUME NEW i \in Len(got) .. Len(sent) + 1
            PROVE  g[i] \in Int
        <5>1. CASE i = Len(sent) + 1
          BY <1>3, <5>1
        <5>2. CASE i # Len(sent) + 1
          <6>1. i \in Len(got) .. Len(sent)
            BY <1>1, <5>2
          <6> QED
            BY <5>2, <6>1
        <5> QED
          BY <5>1, <5>2
      <4>2. g \in [Len(got) .. Len(sent) + 1 -> Int]
        BY <4>1
      <4>3. \A i \in Len(got) .. Len(sent) : g[i] = pos[i]
        BY <1>1
      <4>4. g[Len(sent) + 1] = Len(bytes')
        BY <1>1
      <4> HIDE DEF g
      <4> QED
        BY <4>2, <4>3, <4>4, Zenon
    <3>5. /\ Len(got) \in Len(got) .. Len(sent) /\ Len(sent) \in Len(got) .. Len(sent)
      BY <1>1
    <3>6. Laid(q)'
      <4>1. q[Len(got')] = 0 - Gone'
        BY <1>2, <3>4, <3>5 DEF Framed, Laid, Gone
      <4>2. ASSUME NEW i \in Len(got) + 1 .. Len(sent) + 1
            PROVE  /\ q[i] = q[i - 1] + HeaderLen + Len(sent'[i])
                   /\ q[i] <= Len(bytes')
                   /\ \A k \in 1 .. HeaderLen + Len(sent'[i]) :
                        q[i - 1] + k >= 1 => bytes'[q[i - 1] + k] = FrameOf(sent'[i])[k]
        <5>1. CASE i = Len(sent) + 1
          <6>1. q[i] = Len(bytes') /\ q[i - 1] = p /\ sent'[i] = cur
            BY <1>1, <2>1, <3>2, <3>4, <3>5, <5>1
          <6> QED
            BY <1>3, <2>3, <3>3, <6>1
        <5>2. CASE i # Len(sent) + 1
          <6>1. /\ i \in Len(got) + 1 .. Len(sent) /\ i \in 1 .. Len(sent)
                /\ i \in Len(got) .. Len(sent) /\ i - 1 \in Len(got) .. Len(sent)
            BY <1>1, <5>2
          <6>2. /\ pos[i] = pos[i - 1] + HeaderLen + Len(sent[i])
                /\ pos[i] <= Len(bytes)
                /\ Spells(pos[i - 1], sent[i], HeaderLen + Len(sent[i]))
            BY <6>1 DEF Framed, Laid
          <6>3. PICK x \in Int, y \in Int, l \in Nat :
                  x = pos[i - 1] /\ y = pos[i] /\ l = Len(sent[i])
            BY <6>1, ByteTypes
          <6>4. y = x + HeaderLen + l /\ y <= Len(bytes) /\ Spells(x, sent[i], HeaderLen + l)
            BY <6>2, <6>3
          <6>5. PICK m : m = sent[i]
            OBVIOUS
          <6>6. HeaderLen + l \in Int /\ x + (HeaderLen + l) <= Len(bytes) /\ y <= Len(bytes')
            BY <1>1, <1>3, <6>4
          <6>7. \A k \in 1 .. HeaderLen + l : x + k >= 1 => bytes'[x + k] = FrameOf(m)[k]
            BY <1>1, <1>2, <6>4, <6>5, <6>6, SpellsGrow
          <6>8. q[i] = y /\ q[i - 1] = x /\ sent'[i] = m /\ Len(m) = l
            BY <3>2, <3>4, <6>1, <6>3, <6>5
          <6> QED
            BY <6>4, <6>6, <6>7, <6>8
        <5> QED
          BY <5>1, <5>2
      <4> QED
        BY <1>2, <3>2, <4>1, <4>2 DEF Laid, Spells
    <3>7. Unfinished(q)'
      <4>1. q[Len(sent')] = Len(bytes') /\ Len(bytes') - q[Len(sent')] = 0
        BY <1>3, <3>2, <3>4
      <4>2. PICK b \in Int : b = Len(bytes')
        BY <1>3
      <4>3. Written(b, 0)'
        BY <1>1, <1>2, <2>2, <3>1 DEF Written, Spells
      <4> QED
        BY <4>1, <4>2, <4>3 DEF Unfinished
    <3>8. q \in [Len(got') .. Len(sent') -> Int]
      BY <1>2, <3>2
    <3> QED
      BY <3>6, <3>7, <3>8 DEF Framed
  <2> QED
    BY <2>4, <2>5
<1> QED
  BY <1>5, <1>6

\* A new frame starts where the last one ended.
LEMMA WriteFramed ==
  ASSUME TypeOK, PrefixInv, KnowsLength, NEW m \in Payloads, Write(m),
         NEW pos \in [Len(got) .. Len(sent) -> Int], Framed(pos)
  PROVE  KnowsLength' /\ Framed(pos)'
<1>1. /\ Len(got) \in Nat /\ Len(sent) \in Nat /\ Len(bytes) \in Nat
      /\ HeaderLen \in Nat \ {0} /\ Len(m) \in Nat
  BY PosTypes, WriteEffect
<1>2. /\ out = <<>> /\ cur' = m /\ out' = FrameOf(m)
      /\ ~broken' => ~broken /\ ~cut
      /\ UNCHANGED <<cut, part, need, sent, got>>
  BY WriteEffect
<1>3. bytes' = bytes
  BY WriteEffect DEF bytes
<1>4. Laid(pos)'
  BY <1>1, <1>2, <1>3, LaidGrow DEF Framed
<1>5. ASSUME ~broken'
      PROVE  Unfinished(pos)' /\ (part = "body" => Len(got) # Len(sent))
  <2>1. PICK p \in Int, t \in Int :
          p = pos[Len(sent)] /\ t = Len(bytes) - pos[Len(sent)] /\ Written(p, t)
    BY <1>2, <1>5, PosTypes DEF Framed, Unfinished
  <2>2. t = 0 /\ ~cut
    BY <1>2, <1>5, <2>1 DEF Written
  <2>3. /\ out' # <<>> /\ Len(out') = HeaderLen + Len(m)
    BY <1>2, FrameType, ByteTypes
  <2>4. Written(p, 0)'
    <3>1. 0 <= HeaderLen + Len(m) /\ 0 + Len(out') = HeaderLen + Len(m)
      BY <1>1, <2>3
    <3>2. \A k \in 1 .. Len(out') : out'[k] = FrameOf(m)[0 + k]
      BY <1>2
    <3>3. Spells(p, cur, 0)'
      BY DEF Spells
    <3> QED
      BY <1>2, <2>2, <2>3, <3>1, <3>2, <3>3 DEF Written
  <2>5. Unfinished(pos)'
    BY <1>2, <1>3, <2>1, <2>2, <2>4 DEF Unfinished
  <2>6. ASSUME part = "body", Len(got) = Len(sent) PROVE FALSE
    <3>1. p = 0 - HeaderLen
      BY <2>1, <2>6 DEF Framed, Laid, Gone
    <3>2. Len(bytes) - p = 0
      BY <2>1, <2>2
    <3> QED
      BY <1>1, <3>1, <3>2
  <2> QED
    BY <2>5, <2>6
<1>6. KnowsLength'
  BY <1>2, <1>5 DEF KnowsLength
<1> QED
  BY <1>4, <1>5, <1>6 DEF Framed

\* A writer that gives up leaves none of a frame, or a part of it.
LEMMA DropFramed ==
  ASSUME TypeOK, PrefixInv, KnowsLength, PushFails \/ Close,
         NEW pos \in [Len(got) .. Len(sent) -> Int], Framed(pos)
  PROVE  KnowsLength' /\ Framed(pos)'
<1>1. /\ Len(got) \in Nat /\ Len(sent) \in Nat /\ Len(bytes) \in Nat
      /\ HeaderLen \in Nat \ {0} /\ Len(cur) \in Nat /\ Len(out) \in Nat
  BY PosTypes
<1>2. /\ out' = <<>>
      /\ UNCHANGED <<cur, part, need, buf, wire, sent, got, broken>>
  BY DEF PushFails, Close, reader
<1>3. cut' <=> cut \/ (out # <<>> /\ out # FrameOf(cur))
  BY Zenon DEF PushFails, Close, Inside
<1>4. bytes' = bytes
  BY <1>2 DEF bytes
<1>5. Laid(pos)'
  BY <1>1, <1>2, <1>4, LaidGrow DEF Framed
<1>6. KnowsLength'
  BY <1>2 DEF KnowsLength
<1>7. ASSUME ~broken PROVE Unfinished(pos)'
  <2>1. PICK p \in Int, t \in Int :
          p = pos[Len(sent)] /\ t = Len(bytes) - pos[Len(sent)] /\ Written(p, t)
    BY <1>7, PosTypes DEF Framed, Unfinished
  <2>2. 0 <= t /\ t < HeaderLen + Len(cur) /\ t <= HeaderLen + Len(cur)
    BY <1>1, <2>1, NotComplete DEF Written
  <2>3. Spells(p, cur, t)'
    BY <1>2, <1>4, <2>1 DEF Written, Spells
  <2>4. ~cut' => t = 0
    <3> SUFFICES ASSUME ~cut' PROVE t = 0
      OBVIOUS
    <3>1. ~cut /\ (out = <<>> \/ out = FrameOf(cur))
      BY <1>3, Zenon
    <3>2. CASE out = <<>>
      BY <2>1, <3>1, <3>2 DEF Written
    <3>3. CASE out = FrameOf(cur)
      <4>1. Len(out) = HeaderLen + Len(cur) /\ out # <<>>
        BY <3>3, FrameType, ByteTypes
      <4>2. t + Len(out) = HeaderLen + Len(cur)
        BY <2>1, <4>1 DEF Written
      <4> QED
        BY <1>1, <4>1, <4>2
    <3> QED
      BY <3>1, <3>2, <3>3
  <2>5. cut' => 0 < t
    <3> SUFFICES ASSUME cut' PROVE 0 < t
      OBVIOUS
    <3>1. cut \/ (out # <<>> /\ out # FrameOf(cur))
      BY <1>3, Zenon
    <3>2. CASE cut
      BY <2>1, <3>2 DEF Written
    <3>3. CASE out # <<>> /\ out # FrameOf(cur)
      <4> SUFFICES ASSUME t = 0 PROVE FALSE
        BY <2>2
      <4>1. Len(out) = HeaderLen + Len(cur) /\ \A k \in 1 .. Len(out) : out[k] = FrameOf(cur)[0 + k]
        BY <1>1, <2>1, <3>3 DEF Written
      <4>2. PICK f \in Seq(Digits) : f = FrameOf(cur) /\ Len(f) = HeaderLen + Len(cur)
        BY FrameType, ByteTypes
      <4>3. ASSUME NEW k \in 1 .. Len(out) PROVE out[k] = f[k]
        <5>1. 0 + k = k
          OBVIOUS
        <5> QED
          BY <4>1, <4>2, <5>1
      <4>4. out = f
        BY <4>1, <4>2, <4>3, Same, ByteTypes
      <4> QED
        BY <3>3, <4>2, <4>4
    <3> QED
      BY <3>1, <3>2, <3>3
  <2>6. Written(p, t)'
    BY <1>2, <2>2, <2>3, <2>4, <2>5 DEF Written
  <2> QED
    BY <1>2, <1>4, <2>1, <2>6 DEF Unfinished
<1> QED
  BY <1>2, <1>5, <1>6, <1>7 DEF Framed

\* A complete header says the length of the frame it is the header of.
LEMMA HeaderSays ==
  ASSUME TypeOK, NEW n \in 1 .. Buffer, n <= Len(wire), Len(buf) + n = HeaderLen,
         NEW m \in Seq(Digits), Len(m) <= HeaderMax,
         NEW l \in Int, HeaderLen <= l, Spells(0, m, l)
  PROVE  FromLE(Taken(n)) = Len(m)
<1>1. HeaderLen \in Nat \ {0} /\ Len(m) \in Nat
  BY ConstAssumption
<1>2. PICK h \in Seq(Digits) : h = ToLE(Len(m)) /\ Len(h) = HeaderLen
  BY <1>1, ToLEType
<1>3. PICK s \in Seq(Digits) :
        /\ s = Taken(n) /\ Len(s) = HeaderLen
        /\ \A k \in 1 .. HeaderLen : s[k] = bytes[k]
  BY TakenType
<1>4. ASSUME NEW k \in 1 .. HeaderLen PROVE s[k] = h[k]
  <2>1. k \in 1 .. l /\ 0 + k >= 1 /\ 0 + k = k
    BY <1>1
  <2>2. bytes[k] = FrameOf(m)[k]
    BY <2>1 DEF Spells
  <2>3. FrameOf(m)[k] = h[k]
    BY <1>2, FrameType
  <2> QED
    BY <1>3, <2>2, <2>3
<1>5. s = h
  BY <1>2, <1>3, <1>4, Same
<1> QED
  BY <1>1, <1>2, <1>3, <1>5, RoundTrip

\* The frame at the front of the stream: it is the one of the next payload
\* that was sent or, when all of them were returned, what there is of the
\* current one.
LEMMA Front ==
  ASSUME TypeOK, PrefixInv, NEW pos \in [Len(got) .. Len(sent) -> Int], Framed(pos)
  PROVE  /\ Len(got) < Len(sent) =>
              /\ sent[Len(got) + 1] \in Seq(Digits) /\ Len(sent[Len(got) + 1]) \in Nat
              /\ pos[Len(got) + 1] = (0 - Gone) + HeaderLen + Len(sent[Len(got) + 1])
              /\ pos[Len(got) + 1] <= Len(bytes)
              /\ Spells(0 - Gone, sent[Len(got) + 1], HeaderLen + Len(sent[Len(got) + 1]))
         /\ Len(got) = Len(sent) /\ ~broken => Written(0 - Gone, Len(bytes) + Gone)
         /\ Gone \in {0, HeaderLen} /\ pos[Len(got)] = 0 - Gone
<1>1. /\ Len(got) \in Nat /\ Len(sent) \in Nat /\ Len(bytes) \in Nat
      /\ HeaderLen \in Nat \ {0}
  BY PosTypes
<1>2. pos[Len(got)] = 0 - Gone /\ Gone \in {0, HeaderLen}
  BY DEF Framed, Laid, Gone
<1>3. ASSUME Len(got) < Len(sent)
      PROVE  /\ sent[Len(got) + 1] \in Seq(Digits) /\ Len(sent[Len(got) + 1]) \in Nat
             /\ pos[Len(got) + 1] = (0 - Gone) + HeaderLen + Len(sent[Len(got) + 1])
             /\ pos[Len(got) + 1] <= Len(bytes)
             /\ Spells(0 - Gone, sent[Len(got) + 1], HeaderLen + Len(sent[Len(got) + 1]))
  <2>1. PICK i \in Nat : i = Len(got) + 1
    BY <1>1
  <2>2. i \in Len(got) + 1 .. Len(sent) /\ i \in 1 .. Len(sent) /\ i - 1 = Len(got)
    BY <1>1, <1>3, <2>1
  <2>3. sent[i] \in Seq(Digits) /\ Len(sent[i]) \in Nat
    BY <2>2, ByteTypes
  <2>4. /\ pos[i] = pos[i - 1] + HeaderLen + Len(sent[i])
        /\ pos[i] <= Len(bytes)
        /\ Spells(pos[i - 1], sent[i], HeaderLen + Len(sent[i]))
    BY <2>2 DEF Framed, Laid
  <2>5. pos[i - 1] = 0 - Gone
    BY <1>2, <2>2
  <2> QED
    BY <2>1, <2>3, <2>4, <2>5
<1>4. ASSUME Len(got) = Len(sent), ~broken PROVE Written(0 - Gone, Len(bytes) + Gone)
  <2>1. pos[Len(sent)] = 0 - Gone
    BY <1>2, <1>4
  <2>2. Len(bytes) - (0 - Gone) = Len(bytes) + Gone
    BY <1>1, <1>2
  <2> QED
    BY <1>4, <2>1, <2>2 DEF Framed, Unfinished
<1> QED
  BY <1>2, <1>3, <1>4

\* What the reader learns from a header.
LEMMA HeaderKnown ==
  ASSUME TypeOK, EndsInv, PrefixInv, NEW n \in 1 .. Buffer, n <= Len(wire),
         part = "header", Len(buf) + n = need,
         NEW pos \in [Len(got) .. Len(sent) -> Int], Framed(pos)
  PROVE  /\ Len(got) < Len(sent) => FromLE(Taken(n)) = Len(sent[Len(got) + 1])
         /\ Len(got) = Len(sent) /\ ~broken => FromLE(Taken(n)) = Len(cur)
<1>1. /\ Len(got) \in Nat /\ Len(sent) \in Nat /\ Len(bytes) \in Nat
      /\ HeaderLen \in Nat \ {0}
  BY PosTypes
<1>2. Len(buf) + n = HeaderLen /\ Gone = 0 /\ 0 - Gone = 0
  BY DEF EndsInv, Gone
<1>3. HeaderLen <= Len(bytes)
  <2>1. Len(buf) \in Nat /\ Len(wire) \in Nat /\ n \in Nat /\ Len(bytes) = Len(buf) + Len(wire)
    BY ByteTypes, ConstAssumption
  <2> QED
    BY <1>2, <2>1
<1>4. ASSUME Len(got) < Len(sent) PROVE FromLE(Taken(n)) = Len(sent[Len(got) + 1])
  <2>1. Len(got) + 1 \in 1 .. Len(sent)
    BY <1>1, <1>4
  <2>2. PICK m \in Seq(Digits) : m = sent[Len(got) + 1]
    BY <1>4, Front
  <2>3. Len(m) <= HeaderMax
    BY <2>1, <2>2 DEF EndsInv
  <2>4. Spells(0, m, HeaderLen + Len(m))
    BY <1>2, <1>4, <2>2, Front
  <2>5. HeaderLen + Len(m) \in Int /\ HeaderLen <= HeaderLen + Len(m)
    BY <1>1
  <2> QED
    BY <1>2, <2>2, <2>3, <2>4, <2>5, HeaderSays
<1>5. ASSUME Len(got) = Len(sent), ~broken PROVE FromLE(Taken(n)) = Len(cur)
  <2>1. PICK m \in Seq(Digits) : m = cur
    BY ByteTypes
  <2>2. Written(0, Len(bytes))
    <3>1. Len(bytes) + Gone = Len(bytes)
      BY <1>1, <1>2
    <3> QED
      BY <1>2, <1>5, <3>1, Front
  <2>3. Len(m) <= HeaderMax /\ Spells(0, m, Len(bytes))
    BY <1>5, <2>1, <2>2 DEF EndsInv, Written
  <2> QED
    BY <1>1, <1>2, <1>3, <2>1, <2>3, HeaderSays
<1> QED
  BY <1>4, <1>5

\* What the reader returns is the next payload that was sent.
LEMMA Returned ==
  ASSUME TypeOK, EndsInv, PrefixInv, KnowsLength, NEW n \in 1 .. Buffer, n <= Len(wire),
         Len(buf) + n = need,
         NEW pos \in [Len(got) .. Len(sent) -> Int], Framed(pos),
         NEW m, \/ part = "header" /\ FromLE(Taken(n)) = 0 /\ m = <<>>
                \/ part = "body" /\ m = Taken(n)
  PROVE  /\ Len(got) < Len(sent) =>
              m = sent[Len(got) + 1] /\ pos[Len(got) + 1] = Len(buf) + n
         /\ Len(got) = Len(sent) => broken
<1>1. /\ Len(got) \in Nat /\ Len(sent) \in Nat /\ Len(bytes) \in Nat
      /\ HeaderLen \in Nat \ {0} /\ Len(cur) \in Nat
  BY PosTypes
<1>2. /\ Len(buf) \in Nat /\ Len(wire) \in Nat /\ n \in Nat /\ Len(bytes) = Len(buf) + Len(wire)
  BY ByteTypes, ConstAssumption
<1>3. need <= Len(bytes) /\ need \in Nat
  BY <1>2
<1>4. ASSUME Len(got) < Len(sent)
      PROVE  m = sent[Len(got) + 1] /\ pos[Len(got) + 1] = Len(buf) + n
  <2>1. PICK s \in Seq(Digits) : s = sent[Len(got) + 1]
    BY <1>4, Front
  <2>2. Len(s) \in Nat
    OBVIOUS
  <2>3. /\ pos[Len(got) + 1] = (0 - Gone) + HeaderLen + Len(s)
        /\ Spells(0 - Gone, s, HeaderLen + Len(s))
    BY <1>4, <2>1, Front
  <2>4. CASE part = "header"
    <3>1. FromLE(Taken(n)) = Len(s)
      BY <1>4, <2>1, <2>4, HeaderKnown
    <3>2. Len(s) = 0 /\ m = <<>>
      BY <2>4, <3>1
    <3>3. s = <<>>
      BY <3>2
    <3>4. Len(buf) + n = HeaderLen /\ Gone = 0
      BY <2>4 DEF EndsInv, Gone
    <3>5. (0 - 0) + HeaderLen + 0 = HeaderLen
      BY <1>1
    <3> QED
      BY <2>1, <2>3, <3>2, <3>3, <3>4, <3>5
  <2>5. CASE part = "body"
    <3>1. Len(buf) + n = Len(s) /\ Gone = HeaderLen
      BY <1>4, <2>1, <2>5 DEF KnowsLength, Gone
    <3>2. PICK w \in Seq(Digits) :
            /\ w = Taken(n) /\ Len(w) = Len(s)
            /\ \A k \in 1 .. Len(s) : w[k] = bytes[k]
      BY <3>1, TakenType
    <3>3. ASSUME NEW k \in 1 .. Len(s) PROVE w[k] = s[k]
      <4>1. /\ HeaderLen + k \in 1 .. HeaderLen + Len(s)
            /\ (0 - HeaderLen) + (HeaderLen + k) = k /\ k >= 1
        BY <1>1, <2>2
      <4>2. Spells(0 - HeaderLen, s, HeaderLen + Len(s))
        BY <2>3, <3>1
      <4>3. bytes[k] = FrameOf(s)[HeaderLen + k]
        BY <4>1, <4>2 DEF Spells
      <4>4. FrameOf(s)[HeaderLen + k] = s[k]
        BY FrameType
      <4> QED
        BY <3>2, <4>3, <4>4
    <3>4. w = s
      BY <3>2, <3>3, Same
    <3>5. (0 - HeaderLen) + HeaderLen + Len(s) = Len(s)
      BY <1>1, <2>2
    <3> QED
      BY <2>1, <2>3, <2>5, <3>1, <3>2, <3>4, <3>5
  <2> QED
    BY <2>4, <2>5
<1>5. ASSUME Len(got) = Len(sent), ~broken PROVE FALSE
  <2>1. Written(0 - Gone, Len(bytes) + Gone) /\ Gone \in {0, HeaderLen}
    BY <1>5, Front
  <2>2. 0 - Gone \in Int /\ Len(bytes) + Gone \in Int
    BY <1>1, <2>1
  <2>3. Len(bytes) + Gone < HeaderLen + Len(cur)
    BY <2>1, <2>2, NotComplete
  <2>4. CASE part = "header"
    <3>1. Len(cur) = 0 /\ Gone = 0 /\ need = HeaderLen
      BY <1>5, <2>4, HeaderKnown DEF EndsInv, Gone
    <3> QED
      BY <1>1, <1>3, <2>3, <3>1
  <2>5. CASE part = "body"
    <3>1. need = Len(cur) /\ Gone = HeaderLen
      BY <1>5, <2>5 DEF KnowsLength, Gone
    <3> QED
      BY <1>1, <1>3, <2>3, <3>1
  <2> QED
    BY <2>4, <2>5
<1> QED
  BY <1>4, <1>5

\* A read keeps the framing, returns at most the next payload that was sent,
\* and refuses only what the writer's limit allows and the reader's does not.
LEMMA PullStep ==
  ASSUME TypeOK, EndsInv, PrefixInv, FrameInv, NEW n \in 1 .. Buffer, Pull(n)
  PROVE  /\ FrameInv'
         /\ \/ got' = got
            \/ Len(got) < Len(sent) /\ got' = Append(got, sent[Len(got) + 1])
         /\ rend' = "too_large" => broken \/ rmax < wmax
<1>1. /\ rend = "no" /\ n <= Len(wire)
      /\ wire' = SubSeq(wire, n + 1, Len(wire))
      /\ UNCHANGED <<wmax, rmax, cur, out, cut, sent, broken>>
  BY PullEffect
<1>2. KnowsLength
  BY <1>1 DEF FrameInv
<1>3. PICK pos \in [Len(got) .. Len(sent) -> Int] : Framed(pos)
  BY <1>1 DEF FrameInv
<1>4. /\ Len(got) \in Nat /\ Len(sent) \in Nat /\ HeaderLen \in Nat \ {0}
      /\ Len(buf) \in Nat /\ n \in Nat /\ Len(buf) + n \in Nat
      /\ Len(got) <= Len(sent) /\ got \in Seq(Seq(Digits))
  BY PosTypes, ByteTypes, ConstAssumption DEF PrefixInv, TypeOK, Digits
<1>5. /\ buf' = Taken(n) => Shifted(0)
      /\ buf' = <<>> => Shifted(Len(buf) + n)
  BY <1>1, PullBytes
<1>6. pos[Len(got)] = 0 - Gone /\ Gone \in {0, HeaderLen}
  BY <1>3, Front
<1>7. Len(got) \in Len(got) .. Len(sent)
  BY <1>4
<1> DEFINE P == \E q \in [Len(got') .. Len(sent') -> Int] : Framed(q)'
<1>8. KnowsLength' /\ P => FrameInv'
  BY DEF FrameInv
<1>9. CASE Len(buf) + n < need /\ buf' = Taken(n) /\ UNCHANGED <<part, need, rend, got>>
  <2>1. Shifted(0) /\ Gone' = Gone /\ Len(got') \in Len(got) .. Len(sent)
    BY <1>5, <1>7, <1>9 DEF Gone
  <2>2. pos[Len(got')] - 0 = 0 - Gone'
    BY <1>4, <1>6, <1>9, <2>1
  <2>3. P
    BY <1>1, <1>3, <2>1, <2>2, ShiftFramed
  <2>4. KnowsLength'
    BY <1>1, <1>2, <1>9 DEF KnowsLength
  <2> QED
    BY <1>1, <1>8, <1>9, <2>3, <2>4
<1>10. CASE /\ Len(buf) + n = need /\ part = "header" /\ FromLE(Taken(n)) > rmax
            /\ rend' = "too_large" /\ got' = got
  <2>1. FrameInv'
    BY <1>10 DEF FrameInv
  <2>2. ASSUME ~broken PROVE rmax < wmax
    <3>0. wmax \in Nat /\ rmax \in Nat
      BY ConstAssumption DEF TypeOK
    <3>1. CASE Len(got) < Len(sent)
      <4>1. Len(got) + 1 \in 1 .. Len(sent)
        BY <1>4, <3>1
      <4>2. PICK l \in Nat : l = Len(sent[Len(got) + 1])
        BY <4>1, ByteTypes
      <4>3. l <= wmax
        BY <4>1, <4>2 DEF EndsInv
      <4>4. l > rmax
        BY <1>1, <1>3, <1>10, <3>1, <4>2, HeaderKnown
      <4> QED
        BY <3>0, <4>3, <4>4
    <3>2. CASE Len(got) = Len(sent)
      <4>1. PICK l \in Nat : l = Len(cur)
        BY ByteTypes
      <4>2. l <= wmax
        BY <4>1 DEF EndsInv
      <4>3. l > rmax
        BY <1>1, <1>3, <1>10, <2>2, <3>2, <4>1, HeaderKnown
      <4> QED
        BY <3>0, <4>2, <4>3
    <3> QED
      BY <1>4, <3>1, <3>2
  <2> QED
    BY <1>10, <2>1, <2>2
<1>11. CASE /\ Len(buf) + n = need /\ part = "header"
            /\ rend' = rend /\ got' = got
            /\ part' = "body" /\ need' = FromLE(Taken(n)) /\ buf' = <<>>
  <2>1. Len(buf) + n = HeaderLen /\ Gone = 0 /\ Gone' = HeaderLen
    BY <1>11 DEF EndsInv, Gone
  <2>2. Shifted(HeaderLen) /\ Len(got') \in Len(got) .. Len(sent)
    BY <1>5, <1>7, <1>11, <2>1
  <2>3. pos[Len(got')] - HeaderLen = 0 - Gone'
    BY <1>4, <1>6, <1>11, <2>1
  <2>4. P
    <3>1. HeaderLen \in Nat
      BY <1>4
    <3> QED
      BY <1>1, <1>3, <2>2, <2>3, <3>1, ShiftFramed
  <2>5. KnowsLength'
    <3>1. /\ Len(got) < Len(sent) => FromLE(Taken(n)) = Len(sent[Len(got) + 1])
          /\ Len(got) = Len(sent) /\ ~broken => FromLE(Taken(n)) = Len(cur)
      BY <1>1, <1>3, <1>11, HeaderKnown
    <3> QED
      BY <1>1, <1>11, <3>1 DEF KnowsLength
  <2> QED
    BY <1>1, <1>8, <1>11, <2>4, <2>5
<1>12. CASE /\ Len(buf) + n = need /\ rend' = rend
            /\ part' = "header" /\ buf' = <<>>
            /\ \E m : /\ \/ part = "header" /\ FromLE(Taken(n)) = 0 /\ m = <<>>
                         \/ part = "body" /\ m = Taken(n)
                      /\ got' = IF broken /\ Len(got) = Len(sent) THEN got
                                ELSE Append(got, m)
  <2>1. PICK m : /\ \/ part = "header" /\ FromLE(Taken(n)) = 0 /\ m = <<>>
                    \/ part = "body" /\ m = Taken(n)
                 /\ got' = IF broken /\ Len(got) = Len(sent) THEN got ELSE Append(got, m)
    BY <1>12
  <2>2. Gone' = 0 /\ KnowsLength' /\ Shifted(Len(buf) + n) /\ Len(buf) + n = need
    BY <1>5, <1>12 DEF Gone, KnowsLength
  <2>3. CASE Len(got) < Len(sent)
    <3>1. m = sent[Len(got) + 1] /\ pos[Len(got) + 1] = Len(buf) + n
      BY <1>1, <1>2, <1>3, <2>1, <2>2, <2>3, Returned
    <3>2. got' = Append(got, sent[Len(got) + 1])
      BY <1>4, <2>1, <2>3, <3>1
    <3>3. Len(got') = Len(got) + 1
      <4>1. sent[Len(got) + 1] \in Seq(Digits)
        BY <1>3, <2>3, Front
      <4> QED
        BY <1>4, <3>2, <4>1
    <3>4. Len(got') \in Len(got) .. Len(sent)
      BY <1>4, <2>3, <3>3
    <3>5. pos[Len(got')] - (Len(buf) + n) = 0 - Gone'
      BY <1>4, <2>2, <3>1, <3>3
    <3>6. P
      BY <1>1, <1>3, <1>4, <2>2, <3>4, <3>5, ShiftFramed
    <3> QED
      BY <1>1, <1>8, <1>12, <2>2, <2>3, <3>2, <3>6
  <2>4. CASE Len(got) = Len(sent)
    <3>1. broken
      BY <1>1, <1>2, <1>3, <2>1, <2>2, <2>4, Returned
    <3>2. got' = got /\ broken'
      BY <1>1, <2>1, <2>4, <3>1
    <3>3. PICK q \in [Len(got) .. Len(sent) -> Int] : q[Len(got)] = 0 - Gone'
      <4> DEFINE g == [i \in Len(got) .. Len(sent) |-> 0]
      <4>1. g \in [Len(got) .. Len(sent) -> Int] /\ g[Len(got)] = 0 - Gone'
        BY <1>7, <2>2
      <4> QED
        BY <4>1
    <3>4. Laid(q)'
      <4>1. Len(got') = Len(got) /\ Len(sent') = Len(sent)
        BY <1>1, <3>2
      <4>2. ~ \E i \in Len(got') + 1 .. Len(sent') : TRUE
        BY <1>4, <2>4, <4>1
      <4> QED
        BY <3>3, <4>1, <4>2 DEF Laid
    <3>5. P
      BY <1>1, <3>2, <3>3, <3>4 DEF Framed
    <3> QED
      BY <1>1, <1>8, <1>12, <2>2, <3>2, <3>5
  <2> QED
    BY <1>4, <2>3, <2>4
<1> QED
  BY <1>9, <1>10, <1>11, <1>12, PullEffect

\* Every step keeps the framing.
LEMMA FrameStep ==
  TypeOK /\ EndsInv /\ PrefixInv /\ FrameInv /\ [Next]_vars => FrameInv'
<1> SUFFICES ASSUME TypeOK, EndsInv, PrefixInv, FrameInv, [Next]_vars, rend' = "no"
             PROVE  KnowsLength' /\ \E q \in [Len(got') .. Len(sent') -> Int] : Framed(q)'
  BY DEF FrameInv
<1>1. ASSUME rend = "no"
      PROVE  KnowsLength /\ \E pos \in [Len(got) .. Len(sent) -> Int] : Framed(pos)
  BY <1>1 DEF FrameInv
<1>2. ASSUME NEW m \in Payloads, Write(m)
      PROVE  KnowsLength' /\ \E q \in [Len(got') .. Len(sent') -> Int] : Framed(q)'
  <2>1. rend = "no" /\ sent' = sent /\ got' = got
    BY <1>2, WriteEffect
  <2>2. PICK pos \in [Len(got) .. Len(sent) -> Int] : Framed(pos)
    BY <1>1, <2>1
  <2>3. KnowsLength' /\ Framed(pos)'
    BY <1>1, <1>2, <2>1, <2>2, WriteFramed
  <2> QED
    BY <2>1, <2>3
<1>3. ASSUME NEW n \in 1 .. Buffer, Push(n)
      PROVE  KnowsLength' /\ \E q \in [Len(got') .. Len(sent') -> Int] : Framed(q)'
  <2>1. /\ rend = "no" /\ UNCHANGED <<got, part, need, cur, broken>>
        /\ sent' = IF n = Len(out) /\ ~broken THEN Append(sent, cur) ELSE sent
    BY <1>3, PushEffect
  <2>2. PICK pos \in [Len(got) .. Len(sent) -> Int] : Framed(pos)
    BY <1>1, <2>1
  <2>3. \E q \in [Len(got') .. Len(sent') -> Int] : Framed(q)'
    BY <1>3, <2>2, PushFramed
  <2>4. KnowsLength'
    <3>1. KnowsLength
      BY <1>1, <2>1
    <3>2. CASE sent' = sent
      BY <2>1, <3>1, <3>2 DEF KnowsLength
    <3>3. CASE sent' = Append(sent, cur) /\ ~broken
      <4>1. sent \in Seq(Payloads) /\ cur \in Payloads
        BY <1>3, PushEffect DEF TypeOK
      <4>2. /\ Len(sent') = Len(sent) + 1 /\ sent'[Len(sent) + 1] = cur
            /\ \A i \in 1 .. Len(sent) : sent'[i] = sent[i]
        BY <3>3, <4>1
      <4>3. Len(got) \in Nat /\ Len(sent) \in Nat /\ Len(got) <= Len(sent)
        BY ByteTypes DEF PrefixInv
      <4>4. CASE Len(got) < Len(sent)
        <5>1. Len(got) + 1 \in 1 .. Len(sent) /\ Len(got) # Len(sent')
          BY <4>2, <4>3, <4>4
        <5>2. sent'[Len(got) + 1] = sent[Len(got) + 1]
          BY <4>2, <5>1
        <5> QED
          BY <2>1, <3>1, <4>4, <5>1, <5>2 DEF KnowsLength
      <4>5. CASE Len(got) = Len(sent)
        <5>1. sent'[Len(got) + 1] = cur /\ Len(got) # Len(sent')
          BY <4>2, <4>3, <4>5
        <5> QED
          BY <2>1, <3>1, <3>3, <4>5, <5>1 DEF KnowsLength
      <4> QED
        BY <4>3, <4>4, <4>5
    <3> QED
      BY <2>1, <3>2, <3>3
  <2> QED
    BY <2>3, <2>4
<1>4. CASE PushFails \/ Close
  <2>1. rend = "no" /\ sent' = sent /\ got' = got
    BY <1>4 DEF PushFails, Close, reader
  <2>2. PICK pos \in [Len(got) .. Len(sent) -> Int] : Framed(pos)
    BY <1>1, <2>1
  <2>3. KnowsLength' /\ Framed(pos)'
    BY <1>1, <1>4, <2>1, <2>2, DropFramed
  <2> QED
    BY <2>1, <2>3
<1>5. ASSUME NEW n \in 1 .. Buffer, Pull(n)
      PROVE  KnowsLength' /\ \E q \in [Len(got') .. Len(sent') -> Int] : Framed(q)'
  <2>1. FrameInv'
    BY <1>5, PullStep
  <2> QED
    BY <2>1 DEF FrameInv
<1>6. CASE PullEnd \/ PullFails
  BY <1>6 DEF PullEnd, PullFails
<1>7. CASE UNCHANGED vars
  <2>1. UNCHANGED <<cur, out, cut, wire, part, need, buf, rend, sent, got, broken>>
    BY <1>7 DEF vars, writer, reader
  <2>2. FrameInv'
    <3>1. bytes' = bytes /\ Gone' = Gone
      BY <2>1 DEF bytes, Gone
    <3> QED
      BY <2>1, <3>1 DEF FrameInv, KnowsLength, Framed, Laid, Unfinished, Written, Spells
  <2> QED
    BY <2>2 DEF FrameInv
<1> QED
  BY <1>2, <1>3, <1>4, <1>5, <1>6, <1>7 DEF Next, Reader

-----------------------------------------------------------------------------
(***************************************************************************)
(* What the codec promises.                                                *)
(***************************************************************************)

\* Every step sends, breaks, receives, or does none of these, as Messages
\* says.
LEMMA LinkStep ==
  TypeOK /\ EndsInv /\ PrefixInv /\ FrameInv /\ [Next]_vars
    => \/ Link!Send \/ Link!Break \/ Link!Receive
       \/ UNCHANGED <<sent, got, broken>>
<1> SUFFICES ASSUME TypeOK, EndsInv, PrefixInv, FrameInv, [Next]_vars
             PROVE  \/ Link!Send \/ Link!Break \/ Link!Receive
                    \/ UNCHANGED <<sent, got, broken>>
  OBVIOUS
<1>1. ASSUME NEW m \in Payloads, Write(m)
      PROVE  Link!Break \/ UNCHANGED <<sent, got, broken>>
  <2>1. UNCHANGED <<sent, got>> /\ (broken => broken') /\ broken' \in BOOLEAN
    BY <1>1, WriteEffect
  <2>2. broken \in BOOLEAN
    BY DEF TypeOK
  <2>3. broken' = TRUE \/ broken' = broken
    BY <2>1, <2>2, Zenon
  <2> QED
    BY <2>1, <2>3 DEF Link!Break
<1>2. ASSUME NEW n \in 1 .. Buffer, Push(n)
      PROVE  Link!Send \/ UNCHANGED <<sent, got, broken>>
  <2>1. /\ cur \in Payloads /\ UNCHANGED <<got, broken>>
        /\ sent' = IF n = Len(out) /\ ~broken THEN Append(sent, cur) ELSE sent
    BY <1>2, PushEffect
  <2>2. (~broken /\ sent' = Append(sent, cur)) \/ sent' = sent
    BY <2>1, Zenon
  <2> QED
    BY <2>1, <2>2, Zenon DEF Link!Send
<1>3. ASSUME NEW n \in 1 .. Buffer, Pull(n)
      PROVE  Link!Receive \/ UNCHANGED <<sent, got, broken>>
  <2>1. UNCHANGED <<sent, broken>>
    BY <1>3, PullEffect
  <2>2. \/ got' = got
        \/ Len(got) < Len(sent) /\ got' = Append(got, sent[Len(got) + 1])
    BY <1>3, PullStep
  <2> QED
    BY <2>1, <2>2 DEF Link!Receive
<1>4. CASE PushFails \/ Close \/ PullEnd \/ PullFails \/ UNCHANGED vars
  BY <1>4 DEF PushFails, Close, PullEnd, PullFails, vars
<1> QED
  BY <1>1, <1>2, <1>3, <1>4 DEF Next, Reader

\* A step of Messages returns what was sent.
LEMMA PrefixStep ==
  TypeOK /\ EndsInv /\ PrefixInv /\ FrameInv /\ [Next]_vars => PrefixInv'
<1> SUFFICES ASSUME TypeOK, EndsInv, PrefixInv, FrameInv, [Next]_vars PROVE PrefixInv'
  OBVIOUS
<1>1. /\ Len(got) \in Nat /\ Len(sent) \in Nat /\ sent \in Seq(Payloads)
      /\ got \in Seq(Seq(Digits)) /\ Len(got) <= Len(sent)
      /\ \A i \in 1 .. Len(got) : got[i] = sent[i]
  BY ByteTypes DEF TypeOK, Digits, PrefixInv
<1>2. CASE Link!Send
  <2>1. PICK m \in Payloads : sent' = Append(sent, m) /\ got' = got
    BY <1>2 DEF Link!Send
  <2>2. /\ Len(sent') = Len(sent) + 1
        /\ \A i \in 1 .. Len(sent) : sent'[i] = sent[i]
    BY <1>1, <2>1
  <2>3. ASSUME NEW i \in 1 .. Len(got') PROVE got'[i] = sent'[i]
    <3>1. i \in 1 .. Len(got) /\ i \in 1 .. Len(sent)
      BY <1>1, <2>1
    <3> QED
      BY <1>1, <2>1, <2>2, <3>1
  <2>4. Len(got') <= Len(sent')
    BY <1>1, <2>1, <2>2
  <2> QED
    BY <2>3, <2>4 DEF PrefixInv
<1>3. CASE Link!Receive
  <2>1. Len(got) < Len(sent) /\ got' = Append(got, sent[Len(got) + 1]) /\ sent' = sent
    BY <1>3 DEF Link!Receive
  <2>2. Len(got) + 1 \in 1 .. Len(sent)
    BY <1>1, <2>1
  <2>3. PICK m \in Seq(Digits) : m = sent[Len(got) + 1]
    BY <2>2, ByteTypes
  <2>4. /\ Len(got') = Len(got) + 1 /\ got'[Len(got) + 1] = m
        /\ \A i \in 1 .. Len(got) : got'[i] = got[i]
    BY <1>1, <2>1, <2>3
  <2>5. ASSUME NEW i \in 1 .. Len(got') PROVE got'[i] = sent'[i]
    <3>1. CASE i = Len(got) + 1
      BY <2>1, <2>3, <2>4, <3>1
    <3>2. CASE i # Len(got) + 1
      <4>1. i \in 1 .. Len(got)
        BY <1>1, <2>4, <3>2
      <4> QED
        BY <1>1, <2>1, <2>4, <4>1
    <3> QED
      BY <3>1, <3>2
  <2>6. Len(got') <= Len(sent')
    BY <1>1, <2>1, <2>4
  <2> QED
    BY <2>5, <2>6 DEF PrefixInv
<1>4. CASE Link!Break \/ UNCHANGED <<sent, got, broken>>
  BY <1>4 DEF Link!Break, PrefixInv
<1> QED
  BY <1>2, <1>3, <1>4, LinkStep

\* All of them hold throughout.
LEMMA FramedAlways == Spec => [](TypeOK /\ EndsInv /\ PrefixInv /\ FrameInv)
<1>1. Init => PrefixInv
  BY DEF Init, PrefixInv
<1>2. Init => FrameInv
  <2> SUFFICES ASSUME Init PROVE FrameInv
    OBVIOUS
  <2>1. /\ Len(got) = 0 /\ Len(sent) = 0 /\ Gone = 0 /\ part = "header"
        /\ out = <<>> /\ cut = FALSE /\ cur = <<>>
    BY DEF Init, Gone
  <2>2. Len(bytes) = 0
    BY DEF Init, bytes
  <2>3. PICK pos \in [0 .. 0 -> Int] : pos[0] = 0
    <3>1. [i \in 0 .. 0 |-> 0] \in [0 .. 0 -> Int] /\ [i \in 0 .. 0 |-> 0][0] = 0
      OBVIOUS
    <3> QED
      BY <3>1
  <2>4. Laid(pos)
    BY <2>1, <2>3 DEF Laid
  <2>5. Written(0, 0)
    <3>1. 0 <= HeaderLen + Len(<<>>)
      BY ConstAssumption
    <3> QED
      BY <2>1, <3>1 DEF Written, Spells
  <2>6. Unfinished(pos)
    <3>1. 0 - 0 = 0
      OBVIOUS
    <3> QED
      BY <2>1, <2>2, <2>3, <2>5, <3>1 DEF Unfinished
  <2> QED
    BY <2>1, <2>3, <2>4, <2>6 DEF FrameInv, Framed, KnowsLength
<1> QED
  BY <1>1, <1>2, EndsAlways, PrefixStep, FrameStep, PTL DEF Spec

\* However write(2) and read(2) cut the stream and wherever either end fails,
\* the codec implements Messages: read_frame_bytes() returns the payloads that
\* were written, whole, in order and once each.
THEOREM LinkCorrect == Spec => LinkSpec
<1>1. Init => Link!Init
  BY DEF Init, Link!Init
<1>2. TypeOK /\ EndsInv /\ PrefixInv /\ FrameInv /\ [Next]_vars
        => [Link!Next]_<<sent, got, broken>>
  BY LinkStep DEF Link!Next
<1> QED
  BY <1>1, <1>2, FramedAlways, PTL DEF Spec, LinkSpec, Link!Spec

\* The limits of both ends agree at the edge: write_frame_bytes() accepts
\* nothing that read_frame_bytes() refuses, while the framing is whole and the
\* reader's max_frame is not the smaller.
THEOREM ReadableCorrect == Spec => []AcceptedIsReadable
<1>1. Init => AcceptedIsReadable
  BY DEF Init, AcceptedIsReadable
<1>2. TypeOK /\ EndsInv /\ PrefixInv /\ FrameInv /\ AcceptedIsReadable /\ [Next]_vars
        => AcceptedIsReadable'
  <2> SUFFICES ASSUME TypeOK, EndsInv, PrefixInv, FrameInv, AcceptedIsReadable, [Next]_vars
               PROVE  AcceptedIsReadable'
    OBVIOUS
  <2>1. ASSUME NEW m \in Payloads, Write(m) PROVE AcceptedIsReadable'
    BY <2>1, WriteEffect DEF AcceptedIsReadable
  <2>2. ASSUME NEW n \in 1 .. Buffer, Push(n) PROVE AcceptedIsReadable'
    BY <2>2, PushEffect DEF AcceptedIsReadable
  <2>3. ASSUME NEW n \in 1 .. Buffer, Pull(n) PROVE AcceptedIsReadable'
    <3>1. UNCHANGED <<broken, rmax, wmax>>
      BY <2>3, PullEffect
    <3>2. rend' = "too_large" => broken \/ rmax < wmax
      BY <2>3, PullStep
    <3> QED
      BY <3>1, <3>2 DEF AcceptedIsReadable
  <2>4. CASE PullEnd \/ PullFails
    BY <2>4 DEF PullEnd, PullFails, AcceptedIsReadable
  <2>5. CASE PushFails \/ Close \/ UNCHANGED vars
    BY <2>5 DEF PushFails, Close, vars, reader, AcceptedIsReadable
  <2> QED
    BY <2>1, <2>2, <2>3, <2>4, <2>5 DEF Next, Reader
<1> QED
  BY <1>1, <1>2, FramedAlways, PTL DEF Spec

\* Where the stream ends: at the end of it nothing that was sent is missing,
\* and the reader is inside a frame just if the writer was.
LEMMA EndOfStream ==
  ASSUME TypeOK, EndsInv, PrefixInv, FrameInv, rend = "no", closed, wire = <<>>, ~broken
  PROVE  got = sent /\ ((part = "header" /\ buf = <<>>) <=> ~cut)
<1>1. /\ Len(got) \in Nat /\ Len(sent) \in Nat /\ Len(buf) \in Nat
      /\ HeaderLen \in Nat \ {0} /\ Len(cur) \in Nat /\ Len(got) <= Len(sent)
      /\ need \in Nat /\ Len(buf) < need /\ buf \in Seq(Digits)
      /\ part \in {"header", "body"}
  BY ByteTypes, ConstAssumption DEF TypeOK, PrefixInv
<1>2. Len(bytes) = Len(buf)
  <2>1. Len(bytes) = Len(buf) + Len(wire) /\ Len(wire) = 0
    BY ByteTypes
  <2> QED
    BY <1>1, <2>1
<1>3. KnowsLength
  BY DEF FrameInv
<1>4. PICK pos \in [Len(got) .. Len(sent) -> Int] : Framed(pos)
  BY DEF FrameInv
<1>5. ASSUME Len(got) < Len(sent) PROVE FALSE
  <2>1. PICK l \in Nat : l = Len(sent[Len(got) + 1])
    BY <1>4, <1>5, Front
  <2>2. (0 - Gone) + HeaderLen + l <= Len(buf) /\ Gone \in {0, HeaderLen}
    BY <1>2, <1>4, <1>5, <2>1, Front
  <2>3. CASE part = "header"
    <3>1. Gone = 0 /\ need = HeaderLen
      BY <2>3 DEF Gone, EndsInv
    <3> QED
      BY <1>1, <2>2, <3>1
  <2>4. CASE part = "body"
    <3>1. Gone = HeaderLen /\ need = l
      BY <1>3, <1>5, <2>1, <2>4 DEF Gone, KnowsLength
    <3> QED
      BY <1>1, <2>2, <3>1
  <2> QED
    BY <1>1, <2>3, <2>4
<1>6. Len(got) = Len(sent)
  BY <1>1, <1>5
<1>7. got = sent
  <2>1. got \in Seq(Seq(Digits)) /\ sent \in Seq(Payloads)
    BY DEF TypeOK, Digits
  <2>2. sent \in Seq(Seq(Digits))
    BY <2>1, ByteTypes
  <2> QED
    BY <1>6, <2>1, <2>2, Same DEF PrefixInv
<1>8. Written(0 - Gone, Len(buf) + Gone)
  BY <1>2, <1>4, <1>6, Front
<1>9. out = <<>>
  BY DEF EndsInv
<1>10. (~cut => Len(buf) + Gone = 0) /\ (cut => 0 < Len(buf) + Gone)
  BY <1>8, <1>9 DEF Written
<1>11. (part = "header" /\ buf = <<>>) <=> Len(buf) + Gone = 0
  <2>1. CASE part = "header"
    <3>1. Gone = 0 /\ Len(buf) + 0 = Len(buf)
      BY <1>1, <2>1 DEF Gone
    <3>2. buf = <<>> <=> Len(buf) = 0
      BY <1>1
    <3> QED
      BY <2>1, <3>1, <3>2
  <2>2. CASE part = "body"
    <3>1. Gone = HeaderLen
      BY <2>2 DEF Gone
    <3>2. Len(buf) + HeaderLen # 0
      BY <1>1
    <3> QED
      BY <2>2, <3>1, <3>2
  <2> QED
    BY <1>1, <2>1, <2>2
<1>12. Len(buf) + Gone = 0 => ~(0 < Len(buf) + Gone)
  OBVIOUS
<1> QED
  BY <1>7, <1>10, <1>11, <1>12

\* What UnexpectedEof says is true: an EOF between two frames means that all
\* that was sent was returned and no frame was cut, and one inside a frame
\* that one was.
THEOREM EofCorrect == Spec => []EofIsHonest
<1>1. Init => EofInv
  BY DEF Init, EofInv, EofIsHonest
<1>2. TypeOK /\ EndsInv /\ PrefixInv /\ FrameInv /\ EofInv /\ [Next]_vars => EofInv'
  <2> SUFFICES ASSUME TypeOK, EndsInv, PrefixInv, FrameInv, EofInv, [Next]_vars,
                      rend' = "eof"
               PROVE  closed' /\ EofIsHonest'
    BY DEF EofInv, EofIsHonest
  <2>1. CASE rend = "no"
    <3>1. PullEnd
      <4>1. ASSUME NEW n \in 1 .. Buffer, Pull(n) PROVE FALSE
        BY <2>1, <4>1, PullEffect
      <4> QED
        BY <2>1, <4>1 DEF Next, Reader, Write, Push, PushFails, Close, PullFails, vars, reader
    <3>2. /\ closed /\ wire = <<>>
          /\ UNCHANGED <<cut, closed, part, buf, sent, got, broken>>
      BY <3>1 DEF PullEnd, writer
    <3>3. ~broken => got = sent /\ ((part = "header" /\ buf = <<>>) <=> ~cut)
      BY <2>1, <3>2, EndOfStream
    <3> QED
      BY <3>2, <3>3 DEF EofIsHonest
  <2>2. CASE rend # "no"
    <3>1. rend = "eof"
      BY <2>2 DEF Next, Reader, Write, Push, PushFails, Close, Pull, PullEnd, PullFails, vars, reader
    <3>2. closed
      BY <3>1 DEF EofInv
    <3>3. UNCHANGED vars
      BY <3>1, <3>2 DEF Next, Reader, Write, Push, PushFails, Close, Pull, PullEnd, PullFails
    <3> QED
      BY <3>3, <3>2 DEF vars, writer, reader, EofInv, EofIsHonest
  <2> QED
    BY <2>1, <2>2
<1>3. EofInv => EofIsHonest
  BY DEF EofInv
<1> QED
  BY <1>1, <1>2, <1>3, FramedAlways, PTL DEF Spec
=============================================================================
