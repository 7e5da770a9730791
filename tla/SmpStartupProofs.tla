-------------------------- MODULE SmpStartupProofs --------------------------
(***************************************************************************)
(* Proofs about Acpi and SmpStartup, for any number of processors, any     *)
(* tables and any MADT, one that lists a processor twice or has a corrupt  *)
(* byte included.                                                          *)
(*                                                                         *)
(* The stack: a processor that is not the one at current is off or halted, *)
(* and has no INIT on its way.  The one at current runs only between its   *)
(* INIT and the increment that the boot processor waits for.  The second   *)
(* SIPI may arrive after that, and is ignored, as the processor is halted. *)
(***************************************************************************)
EXTENDS SmpStartup, WellFoundedInduction, TLAPS

-----------------------------------------------------------------------------
\* Induction, from the least element of a set of natural numbers.
LEMMA Least == ASSUME NEW S \in SUBSET Nat, S # {} PROVE \E n \in S : \A m \in S : n <= m
<1>1. OpToRel(<, Nat) = {ss \in Nat \X Nat : ss[1] < ss[2]} BY Zenon DEF OpToRel
<1>2. PICK n \in S : \A m \in S : ~(<<m, n>> \in OpToRel(<, Nat))
  BY NatLessThanWellFounded, WFMin
<1>3. ASSUME NEW m \in S PROVE n <= m
  <2>1. <<m, n>> \notin {ss \in Nat \X Nat : ss[1] < ss[2]} BY <1>1, <1>2
  <2>2. <<m, n>> \in Nat \X Nat /\ <<m, n>>[1] = m /\ <<m, n>>[2] = n OBVIOUS
  <2>3. ~(m < n) BY <2>1, <2>2
  <2> QED BY <2>3
<1> QED BY <1>3

LEMMA Induction == ASSUME NEW S \in SUBSET Nat, 0 \in S, \A n \in S : n + 1 \in S
                   PROVE  S = Nat
<1> DEFINE T == Nat \ S
<1>1. SUFFICES ASSUME T # {} PROVE FALSE OBVIOUS
<1>2. PICK n \in T : \A m \in T : n <= m
  <2>1. T \in SUBSET Nat OBVIOUS
  <2> HIDE DEF T
  <2> QED BY <1>1, <2>1, Least
<1>3. n - 1 \in Nat /\ n - 1 \notin T BY <1>2
<1>4. (n - 1) + 1 \in S BY <1>3
<1> QED BY <1>4

\* A sequence of values, each computed from the one before it, exists.
Follows(f, n, D, a, H) == /\ f \in [0 .. n -> D]
                          /\ f[0] = a
                          /\ \A k \in 1 .. n : f[k] = H[<<f[k - 1], k>>]

LEMMA Recursion ==
    ASSUME NEW n \in Nat, NEW D, NEW a \in D, NEW H \in [D \X (1 .. n) -> D]
    PROVE  \E f : Follows(f, n, D, a, H)
<1> DEFINE Is(f, m) == f[0] = a /\ \A k \in 1 .. m : f[k] = H[<<f[k - 1], k>>]
           S == {m \in Nat : m <= n => \E f \in [0 .. m -> D] : Is(f, m)}
<1>1. 0 \in S
  <2> DEFINE f == [k \in 0 .. 0 |-> a]
  <2>1. f \in [0 .. 0 -> D] /\ Is(f, 0) OBVIOUS
  <2> HIDE DEF f
  <2> QED BY <2>1
<1>2. ASSUME NEW m \in S PROVE m + 1 \in S
  <2> SUFFICES ASSUME m + 1 <= n PROVE \E f \in [0 .. (m + 1) -> D] : Is(f, m + 1) OBVIOUS
  <2>1. m <= n OBVIOUS
  <2>2. PICK f \in [0 .. m -> D] : Is(f, m) BY <2>1
  <2> DEFINE x == H[<<f[m], m + 1>>]
             g == [k \in 0 .. (m + 1) |-> IF k <= m THEN f[k] ELSE x]
  <2>3. x \in D
    <3>1. f[m] \in D /\ m + 1 \in 1 .. n OBVIOUS
    <3> QED BY <3>1
  <2>4. \A k \in 0 .. m : g[k] = f[k] OBVIOUS
  <2>5. g[m + 1] = x /\ g \in [0 .. (m + 1) -> D] BY <2>3
  <2> HIDE DEF g
  <2>6. ASSUME NEW k \in 1 .. (m + 1) PROVE g[k] = H[<<g[k - 1], k>>]
    <3>1. CASE k = m + 1
      <4>1. k - 1 = m /\ g[m] = f[m] BY <3>1, <2>4
      <4> QED BY <4>1, <3>1, <2>5
    <3>2. CASE k # m + 1
      <4>1. k \in 0 .. m /\ k - 1 \in 0 .. m /\ k \in 1 .. m BY <3>2
      <4> QED BY <4>1, <2>2, <2>4
    <3> QED BY <3>1, <3>2
  <2>7. g[0] = a BY <2>2, <2>4
  <2> QED BY <2>5, <2>6, <2>7
<1>3. S = Nat
  <2>1. S \in SUBSET Nat OBVIOUS
  <2> HIDE DEF S
  <2> QED BY <1>1, <1>2, <2>1, Induction
<1>4. n \in S BY <1>3
<1> QED BY <1>4 DEF Follows
-----------------------------------------------------------------------------
\* Sums modulo m.
LEMMA ModOfSum == ASSUME NEW m \in Nat \ {0}, NEW s \in 0 .. (m - 1), NEW x \in 0 .. (m - 1)
                  PROVE  (s + x) % m = IF s + x < m THEN s + x ELSE s + x - m
OBVIOUS

LEMMA ModOfMultiple == ASSUME NEW m \in Nat \ {0}, NEW q \in Nat, NEW r \in 0 .. (m - 1)
                       PROVE  (m * q + r) % m = r
OBVIOUS

LEMMA ModAdd == ASSUME NEW m \in Nat \ {0}, NEW u \in Nat, NEW x \in 0 .. (m - 1)
                PROVE  (u + x) % m = ((u % m) + x) % m
<1> DEFINE q == u \div m
           r == u % m
<1>1. u = m * q + r /\ q \in Nat /\ r \in 0 .. (m - 1) OBVIOUS
<1> HIDE DEF q, r
<1>2. m * q \in Nat /\ m * (q + 1) = m * q + m /\ q + 1 \in Nat BY <1>1
<1>3. CASE r + x < m
  <2>1. u + x = m * q + (r + x) /\ r + x \in 0 .. (m - 1) BY <1>1, <1>2, <1>3
  <2>2. (m * q + (r + x)) % m = r + x BY <2>1, <1>1, ModOfMultiple
  <2>3. (r + x) % m = r + x BY <1>1, <1>3, ModOfSum
  <2> QED BY <2>1, <2>2, <2>3 DEF r
<1>4. CASE ~(r + x < m)
  <2>1. r + x - m \in 0 .. (m - 1) BY <1>1, <1>4
  <2>2. u + x = m * (q + 1) + (r + x - m) BY <1>1, <1>2
  <2>3. (m * (q + 1) + (r + x - m)) % m = r + x - m BY <2>1, <1>2, ModOfMultiple
  <2>4. (r + x) % m = r + x - m BY <1>1, <1>4, ModOfSum
  <2> QED BY <2>2, <2>3, <2>4 DEF r
<1> QED BY <1>3, <1>4

\* The loop of acpi_validate_sdt.
IsSum(s, table) == /\ s \in [0 .. Len(table) -> Bytes]
                   /\ s[0] = 0
                   /\ \A i \in 1 .. Len(table) : s[i] = (s[i - 1] + table[i]) % Byte

LEMMA SumOf ==
    ASSUME NEW table \in Seq(Bytes)
    PROVE  \E s : IsSum(s, table) /\ acpi_validate_sdt(table) = s[Len(table)]
<1> DEFINE n == Len(table)
           H == [z \in Bytes \X (1 .. n) |-> (z[1] + table[z[2]]) % Byte]
           Def(s) == s = [i \in 0 .. n |-> IF i = 0 THEN 0 ELSE (s[i - 1] + table[i]) % Byte]
           sum == CHOOSE s : Def(s)
<1>1. Byte \in Nat \ {0} /\ 0 \in Bytes /\ n \in Nat /\ \A i \in 1 .. n : table[i] \in Bytes
  BY AcpiAssumption DEF Bytes
<1>2. ASSUME NEW z \in Bytes \X (1 .. n) PROVE (z[1] + table[z[2]]) % Byte \in Bytes
  <2>1. z[1] \in Bytes /\ table[z[2]] \in Bytes BY <1>1
  <2>2. z[1] + table[z[2]] \in Int BY <2>1 DEF Bytes
  <2> QED BY <2>2, <1>1 DEF Bytes
<1>3. H \in [Bytes \X (1 .. n) -> Bytes] BY <1>2
<1>4. PICK f : Follows(f, n, Bytes, 0, H)
  <2> HIDE DEF H, n
  <2> QED BY <1>1, <1>3, Recursion
<1>10. f \in [0 .. n -> Bytes] /\ f[0] = 0 /\ \A k \in 1 .. n : f[k] = H[<<f[k - 1], k>>]
  BY <1>4 DEF Follows
<1>5. ASSUME NEW k \in 1 .. n PROVE f[k] = (f[k - 1] + table[k]) % Byte
  <2>1. k - 1 \in 0 .. n BY <1>1
  <2>2. f[k - 1] \in Bytes BY <2>1, <1>10
  <2>3. <<f[k - 1], k>> \in Bytes \X (1 .. n) BY <2>2
  <2> QED BY <2>3, <1>10
<1>6. Def(f)
  <2> DEFINE g == [i \in 0 .. n |-> IF i = 0 THEN 0 ELSE (f[i - 1] + table[i]) % Byte]
  <2>1. \A i \in 0 .. n : g[i] = f[i] BY <1>1, <1>10, <1>5
  <2>2. DOMAIN g = 0 .. n /\ DOMAIN f = 0 .. n BY <1>10
  <2> QED BY <2>1, <2>2, <1>10
<1>7. Def(sum) BY <1>6
<1>8. acpi_validate_sdt(table) = sum[n] BY DEF acpi_validate_sdt
<1> HIDE DEF sum
<1>9. IsSum(sum, table)
  <2>1. sum[0] = 0 BY <1>1, <1>7
  <2>2. \A i \in 1 .. n : sum[i] = (sum[i - 1] + table[i]) % Byte BY <1>1, <1>7
  <2> DEFINE S == {i \in Nat : i <= n => sum[i] \in Bytes}
  <2>3. 0 \in S BY <2>1, <1>1
  <2>4. ASSUME NEW i \in S PROVE i + 1 \in S
    <3> SUFFICES ASSUME i + 1 <= n PROVE sum[i + 1] \in Bytes OBVIOUS
    <3>1. i + 1 \in 1 .. n /\ (i + 1) - 1 = i /\ sum[i] \in Bytes BY <1>1
    <3>2. sum[i + 1] = (sum[i] + table[i + 1]) % Byte BY <2>2, <3>1
    <3>3. <<sum[i], i + 1>> \in Bytes \X (1 .. n) BY <3>1
    <3> QED BY <3>2, <3>3, <1>2
  <2>5. S = Nat
    <3>1. S \in SUBSET Nat OBVIOUS
    <3> HIDE DEF S
    <3> QED BY <2>3, <2>4, <3>1, Induction
  <2>6. \A i \in 0 .. n : sum[i] \in Bytes BY <2>5, <1>1
  <2>7. sum \in [0 .. n -> Bytes] BY <2>6, <1>7
  <2> QED BY <2>1, <2>2, <2>7 DEF IsSum
<1> QED BY <1>8, <1>9
-----------------------------------------------------------------------------
\* Sums of natural numbers from a on.
LEMMA PlainSum ==
    ASSUME NEW n \in Nat, NEW a \in Nat, NEW w \in [1 .. n -> Nat]
    PROVE  \E t \in [0 .. n -> Nat] : t[0] = a /\ \A k \in 1 .. n : t[k] = t[k - 1] + w[k]
<1> DEFINE H == [z \in Nat \X (1 .. n) |-> z[1] + w[z[2]]]
<1>1. H \in [Nat \X (1 .. n) -> Nat]
  <2>1. \A z \in Nat \X (1 .. n) : z[1] \in Nat /\ w[z[2]] \in Nat OBVIOUS
  <2> QED BY <2>1
<1>2. PICK t : Follows(t, n, Nat, a, H)
  <2> HIDE DEF H
  <2> QED BY <1>1, Recursion
<1>3. t \in [0 .. n -> Nat] /\ t[0] = a /\ \A k \in 1 .. n : t[k] = H[<<t[k - 1], k>>]
  BY <1>2 DEF Follows
<1>4. ASSUME NEW k \in 1 .. n PROVE t[k] = t[k - 1] + w[k]
  <2>1. k - 1 \in 0 .. n OBVIOUS
  <2>2. <<t[k - 1], k>> \in Nat \X (1 .. n) BY <2>1, <1>3
  <2> QED BY <2>2, <1>3
<1> QED BY <1>3, <1>4

LEMMA PlainSumType ==
    ASSUME NEW n \in Nat, NEW t, t[0] \in Nat, NEW w \in [1 .. n -> Nat],
           \A k \in 1 .. n : t[k] = t[k - 1] + w[k]
    PROVE  \A k \in 0 .. n : t[k] \in Nat
<1> DEFINE S == {k \in Nat : k <= n => t[k] \in Nat}
<1>1. 0 \in S OBVIOUS
<1>2. ASSUME NEW k \in S PROVE k + 1 \in S
  <2> SUFFICES ASSUME k + 1 <= n PROVE t[k + 1] \in Nat OBVIOUS
  <2>1. k + 1 \in 1 .. n /\ (k + 1) - 1 = k /\ t[k] \in Nat OBVIOUS
  <2>2. w[k + 1] \in Nat BY <2>1
  <2> QED BY <2>1, <2>2
<1>3. S = Nat
  <2>1. S \in SUBSET Nat OBVIOUS
  <2> HIDE DEF S
  <2> QED BY <1>1, <1>2, <2>1, Induction
<1>4. ASSUME NEW k \in 0 .. n PROVE t[k] \in Nat
  <2>1. k \in Nat /\ k <= n OBVIOUS
  <2>2. k \in S
    <3> HIDE DEF S
    <3> QED BY <2>1, <1>3
  <2> QED BY <2>1, <2>2
<1> QED BY <1>4

\* What Sound adds up.
LEMMA TotalOf ==
    ASSUME NEW table \in Seq(Bytes)
    PROVE  \E t \in [0 .. Len(table) -> Nat] :
               /\ t[0] = 0
               /\ \A k \in 1 .. Len(table) : t[k] = t[k - 1] + table[k]
               /\ Sound(table) <=> t[Len(table)] % Byte = 0
<1> DEFINE n == Len(table)
           Def(t) == t = [i \in 0 .. n |-> IF i = 0 THEN 0 ELSE t[i - 1] + table[i]]
           total == CHOOSE t : Def(t)
<1>1. n \in Nat /\ table \in [1 .. n -> Nat] BY AcpiAssumption DEF Bytes
<1>2. PICK f \in [0 .. n -> Nat] : f[0] = 0 /\ \A k \in 1 .. n : f[k] = f[k - 1] + table[k]
  <2> HIDE DEF n
  <2>1. 0 \in Nat OBVIOUS
  <2> QED BY <1>1, <2>1, PlainSum
<1>3. Def(f)
  <2> DEFINE g == [i \in 0 .. n |-> IF i = 0 THEN 0 ELSE f[i - 1] + table[i]]
  <2>1. \A i \in 0 .. n : g[i] = f[i] BY <1>1, <1>2
  <2>2. DOMAIN g = 0 .. n /\ DOMAIN f = 0 .. n OBVIOUS
  <2> QED BY <2>1, <2>2
<1>4. Def(total) BY <1>3
<1>5. Sound(table) <=> total[n] % Byte = 0 BY DEF Sound
<1> HIDE DEF total
<1>6. total[0] = 0 /\ \A i \in 1 .. n : total[i] = total[i - 1] + table[i] BY <1>1, <1>4
<1>7. \A i \in 0 .. n : total[i] \in Nat
  <2> HIDE DEF n, Def
  <2>1. total[0] \in Nat BY <1>6
  <2> QED BY <2>1, <1>1, <1>6, PlainSumType
<1>8. total \in [0 .. n -> Nat] BY <1>4, <1>7
<1> QED BY <1>5, <1>6, <1>8

\* acpi.c: the loop over a table's bytes, a byte wide, returns 0 exactly if they add up
\* to a multiple of 256, for tables of any length.
THEOREM ChecksumRight ==
    ASSUME NEW table \in Seq(Bytes)
    PROVE  acpi_validate_sdt(table) = 0 <=> Sound(table)
<1> DEFINE n == Len(table)
<1>0. n \in Nat /\ Byte \in Nat \ {0} /\ \A i \in 1 .. n : table[i] \in 0 .. (Byte - 1)
  BY AcpiAssumption DEF Bytes
<1>1. PICK s : IsSum(s, table) /\ acpi_validate_sdt(table) = s[n] BY SumOf
<1>2. PICK t \in [0 .. n -> Nat] :
          /\ t[0] = 0
          /\ \A k \in 1 .. n : t[k] = t[k - 1] + table[k]
          /\ Sound(table) <=> t[n] % Byte = 0
  BY TotalOf
<1> DEFINE S == {k \in Nat : k <= n => t[k] % Byte = s[k]}
<1>3. 0 \in S
  <2>1. 0 % Byte = 0 BY <1>0
  <2> QED BY <2>1, <1>1, <1>2 DEF IsSum
<1>4. ASSUME NEW k \in S PROVE k + 1 \in S
  <2> SUFFICES ASSUME k + 1 <= n PROVE t[k + 1] % Byte = s[k + 1] OBVIOUS
  <2>1. k + 1 \in 1 .. n /\ (k + 1) - 1 = k /\ t[k] % Byte = s[k] /\ k \in 0 .. n BY <1>0
  <2>2. t[k + 1] = t[k] + table[k + 1] BY <2>1, <1>2
  <2>3. s[k + 1] = (s[k] + table[k + 1]) % Byte BY <2>1, <1>1 DEF IsSum
  <2>4. t[k] \in Nat /\ table[k + 1] \in 0 .. (Byte - 1) BY <2>1, <1>0
  <2>5. (t[k] + table[k + 1]) % Byte = ((t[k] % Byte) + table[k + 1]) % Byte
    BY <2>4, <1>0, ModAdd
  <2> QED BY <2>1, <2>2, <2>3, <2>5
<1>5. S = Nat
  <2>1. S \in SUBSET Nat OBVIOUS
  <2> HIDE DEF S
  <2> QED BY <1>3, <1>4, <2>1, Induction
<1>6. t[n] % Byte = s[n] BY <1>5, <1>0
<1> QED BY <1>6, <1>1, <1>2

\* Two tables that differ in one byte have different checksums.
LEMMA OneByte ==
    ASSUME NEW table \in Seq(Bytes), NEW j \in DOMAIN table, NEW b \in Bytes \ {table[j]}
    PROVE  LET other == [table EXCEPT ![j] = b] IN
           other \in Seq(Bytes) /\ acpi_validate_sdt(other) # acpi_validate_sdt(table)
<1> DEFINE n == Len(table)
           other == [table EXCEPT ![j] = b]
<1>1. n \in Nat /\ Byte \in Nat \ {0} /\ j \in 1 .. n BY AcpiAssumption
<1>2. other \in Seq(Bytes) /\ Len(other) = n OBVIOUS
<1>3. /\ \A i \in 1 .. n : i # j => other[i] = table[i]
      /\ other[j] = b /\ b # table[j]
      /\ \A i \in 1 .. n : table[i] \in 0 .. (Byte - 1) /\ other[i] \in 0 .. (Byte - 1)
  BY <1>1 DEF Bytes
<1> HIDE DEF other
<1>4. PICK s : IsSum(s, table) /\ acpi_validate_sdt(table) = s[n] BY SumOf
<1>5. PICK z : IsSum(z, other) /\ acpi_validate_sdt(other) = z[n] BY <1>2, SumOf
<1>6. /\ s[0] = 0 /\ z[0] = 0
      /\ \A i \in 0 .. n : s[i] \in 0 .. (Byte - 1) /\ z[i] \in 0 .. (Byte - 1)
      /\ \A i \in 1 .. n : /\ s[i] = (s[i - 1] + table[i]) % Byte
                           /\ z[i] = (z[i - 1] + other[i]) % Byte
  BY <1>2, <1>4, <1>5 DEF IsSum, Bytes
<1> DEFINE S == {k \in Nat : k <= n => IF k < j THEN s[k] = z[k] ELSE s[k] # z[k]}
<1>7. 0 \in S BY <1>1, <1>6
<1>8. ASSUME NEW k \in S PROVE k + 1 \in S
  <2> SUFFICES ASSUME k + 1 <= n
               PROVE  IF k + 1 < j THEN s[k + 1] = z[k + 1] ELSE s[k + 1] # z[k + 1]
    OBVIOUS
  <2> DEFINE x == table[k + 1]
             y == other[k + 1]
             u == s[k]
             v == z[k]
  <2>1. k + 1 \in 1 .. n /\ (k + 1) - 1 = k /\ k \in 0 .. n BY <1>1
  <2>2. /\ x \in 0 .. (Byte - 1) /\ y \in 0 .. (Byte - 1)
        /\ u \in 0 .. (Byte - 1) /\ v \in 0 .. (Byte - 1)
    BY <2>1, <1>3, <1>6
  <2>3. s[k + 1] = (u + x) % Byte /\ z[k + 1] = (v + y) % Byte BY <2>1, <1>6
  <2>4. IF k < j THEN u = v ELSE u # v BY <1>1
  <2>5. IF k + 1 = j THEN x # y ELSE x = y BY <2>1, <1>3
  <2> HIDE DEF x, y, u, v
  <2>6. /\ (u + x) % Byte = IF u + x < Byte THEN u + x ELSE u + x - Byte
        /\ (v + y) % Byte = IF v + y < Byte THEN v + y ELSE v + y - Byte
    BY <2>2, <1>1, ModOfSum
  <2> DEFINE p == (u + x) % Byte
             q == (v + y) % Byte
  <2>10. /\ p = IF u + x < Byte THEN u + x ELSE u + x - Byte
         /\ q = IF v + y < Byte THEN v + y ELSE v + y - Byte
         /\ s[k + 1] = p /\ z[k + 1] = q
    BY <2>3, <2>6
  <2> HIDE DEF p, q
  <2>7. CASE k + 1 < j BY <2>10, <2>4, <2>5, <2>7, <1>1
  <2>8. CASE k + 1 = j
    <3>1. u = v /\ x # y BY <2>4, <2>5, <2>8, <1>1
    <3>2. p # q BY <3>1, <2>2, <2>10, <1>1
    <3> QED BY <3>2, <2>10, <2>8, <1>1
  <2>9. CASE k + 1 > j
    <3>1. u # v /\ x = y BY <2>4, <2>5, <2>9, <1>1
    <3>2. p # q BY <3>1, <2>2, <2>10, <1>1
    <3> QED BY <3>2, <2>10, <2>9, <1>1
  <2> QED BY <2>7, <2>8, <2>9, <1>1
<1>9. S = Nat
  <2>1. S \in SUBSET Nat OBVIOUS
  <2> HIDE DEF S
  <2> QED BY <1>7, <1>8, <2>1, Induction
<1>10. s[n] # z[n] BY <1>9, <1>1
<1> QED BY <1>2, <1>4, <1>5, <1>10 DEF other

LEMMA DamagedNotValid == ASSUME NEW table \in Seq(Bytes), Damaged(table) PROVE ~Valid(table)
<1>1. CASE table = <<>> BY <1>1 DEF Valid
<1>2. CASE table # <<>>
  <2>4. PICK i \in DOMAIN table : \E b \in Bytes \ {table[i]} : Sound([table EXCEPT ![i] = b])
    BY <1>2 DEF Damaged
  <2>1. PICK b \in Bytes \ {table[i]} : Sound([table EXCEPT ![i] = b]) BY <2>4
  <2>2. /\ [table EXCEPT ![i] = b] \in Seq(Bytes)
        /\ acpi_validate_sdt([table EXCEPT ![i] = b]) # acpi_validate_sdt(table)
    BY OneByte
  <2>3. acpi_validate_sdt([table EXCEPT ![i] = b]) = 0 BY <2>1, <2>2, ChecksumRight
  <2> QED BY <2>2, <2>3 DEF Valid
<1> QED BY <1>1, <1>2
-----------------------------------------------------------------------------
\* The entries of a MADT.
LEMMA MadtType ==
    ASSUME NEW m \in Madts
    PROVE  /\ Len(m) \in Nat /\ DOMAIN m = 1 .. Len(m)
           /\ \A i \in DOMAIN m : /\ m[i].size \in Nat /\ m[i].size > 0
                                  /\ m[i].length \in Nat /\ m[i].id \in Processors
           /\ 1 \in DOMAIN m
<1>1. m \in Seq(MadtEntry(Processors)) /\ m # <<>> BY SmpAssumption
<1>2. \A i \in DOMAIN m : m[i] \in MadtEntry(Processors) BY <1>1
<1>3. \A e \in MadtEntry(Processors) : /\ e.size \in Nat /\ e.size > 0
                                       /\ e.length \in Nat /\ e.id \in Processors
  BY DEF MadtEntry
<1>4. 1 \in DOMAIN m BY <1>1
<1> QED BY <1>1, <1>2, <1>3, <1>4

\* They are one behind the other.
LEMMA StartFacts ==
    ASSUME NEW m \in Madts
    PROVE  /\ StartOf(m, 1) = MadtHeader
           /\ \A i \in 1 .. (Len(m) + 1) : StartOf(m, i) \in Nat \ {0}
           /\ \A i \in 1 .. Len(m) : StartOf(m, i + 1) = StartOf(m, i) + m[i].size
           /\ \A i, j \in 1 .. (Len(m) + 1) : i < j => StartOf(m, i) < StartOf(m, j)
<1> DEFINE n == Len(m)
           w == [k \in 1 .. n |-> m[k].size]
           Def(t) == t = [k \in 0 .. n |-> IF k = 0 THEN MadtHeader ELSE t[k - 1] + m[k].size]
           end == CHOOSE t : Def(t)
<1>1. /\ n \in Nat /\ MadtHeader \in Nat \ {0}
      /\ \A k \in 1 .. n : m[k].size \in Nat /\ m[k].size > 0
  BY AcpiAssumption, MadtType
<1>2. w \in [1 .. n -> Nat] BY <1>1
<1>3. PICK f \in [0 .. n -> Nat] : f[0] = MadtHeader /\ \A k \in 1 .. n : f[k] = f[k - 1] + w[k]
  <2> HIDE DEF n, w
  <2>1. MadtHeader \in Nat BY <1>1
  <2> QED BY <1>1, <1>2, <2>1, PlainSum
<1>4. Def(f)
  <2> DEFINE g == [k \in 0 .. n |-> IF k = 0 THEN MadtHeader ELSE f[k - 1] + m[k].size]
  <2>1. \A i \in 0 .. n : g[i] = f[i] BY <1>1, <1>3
  <2>2. DOMAIN g = 0 .. n /\ DOMAIN f = 0 .. n OBVIOUS
  <2> QED BY <2>1, <2>2
<1>5. Def(end) BY <1>4
<1>6. \A i : StartOf(m, i) = end[i - 1] BY DEF StartOf
<1> HIDE DEF end
<1>7. end[0] = MadtHeader /\ \A k \in 1 .. n : end[k] = end[k - 1] + m[k].size BY <1>1, <1>5
<1>8. \A k \in 0 .. n : end[k] \in Nat
  <2>1. \A k \in 1 .. n : end[k] = end[k - 1] + w[k] BY <1>7
  <2>2. end[0] \in Nat BY <1>1, <1>7
  <2> HIDE DEF n, w, Def
  <2> QED BY <2>1, <2>2, <1>1, <1>2, PlainSumType
<1> DEFINE S == {k \in Nat : k <= n => \A i \in 0 .. n : i < k => end[i] < end[k]}
<1>9. 0 \in S BY <1>1
<1>10. ASSUME NEW k \in S PROVE k + 1 \in S
  <2> SUFFICES ASSUME k + 1 <= n, NEW i \in 0 .. n, i < k + 1 PROVE end[i] < end[k + 1]
    OBVIOUS
  <2>1. k + 1 \in 1 .. n /\ (k + 1) - 1 = k /\ k \in 0 .. n BY <1>1
  <2>2. end[k + 1] = end[k] + m[k + 1].size BY <2>1, <1>7
  <2>3. end[k] \in Nat /\ end[i] \in Nat /\ m[k + 1].size \in Nat /\ m[k + 1].size > 0
    BY <2>1, <1>1, <1>8
  <2>4. i < k \/ i = k BY <1>1
  <2>5. i < k => end[i] < end[k] BY <1>1
  <2> QED BY <2>2, <2>3, <2>4, <2>5
<1>11. S = Nat
  <2>1. S \in SUBSET Nat OBVIOUS
  <2> HIDE DEF S
  <2> QED BY <1>9, <1>10, <2>1, Induction
<1>12. ASSUME NEW i \in 0 .. n, NEW k \in 0 .. n, i < k PROVE end[i] < end[k]
  <2>1. k \in Nat /\ k <= n BY <1>1
  <2>2. k \in S
    <3> HIDE DEF S
    <3> QED BY <2>1, <1>11
  <2> QED BY <2>1, <2>2, <1>12
<1>13. ASSUME NEW i \in 0 .. n PROVE end[i] # 0
  <2>1. i # 0 => end[0] < end[i] BY <1>1, <1>12
  <2> QED BY <2>1, <1>1, <1>7, <1>8
<1> HIDE DEF S, Def, w
<1>14. StartOf(m, 1) = MadtHeader BY <1>6, <1>7
<1>15. ASSUME NEW i \in 1 .. (n + 1) PROVE StartOf(m, i) \in Nat \ {0} /\ i - 1 \in 0 .. n
  BY <1>1, <1>6, <1>8, <1>13
<1>16. ASSUME NEW i \in 1 .. n PROVE StartOf(m, i + 1) = StartOf(m, i) + m[i].size
  <2>1. (i + 1) - 1 = i BY <1>1
  <2> QED BY <2>1, <1>6, <1>7
<1>17. ASSUME NEW i \in 1 .. (n + 1), NEW j \in 1 .. (n + 1), i < j
       PROVE  StartOf(m, i) < StartOf(m, j)
  <2>1. i - 1 \in 0 .. n /\ j - 1 \in 0 .. n /\ i - 1 < j - 1 BY <1>1, <1>17
  <2> QED BY <2>1, <1>6, <1>12
<1> QED BY <1>14, <1>15, <1>16, <1>17

\* The entry that the walk reads is the one that starts there.
LEMMA EntryIs ==
    ASSUME NEW m \in Madts, NEW i \in DOMAIN m
    PROVE  EntryAt(m, StartOf(m, i)) = m[i] /\ StartOf(m, i) \in Starts(m)
<1>1. Len(m) \in Nat /\ DOMAIN m = 1 .. Len(m) BY MadtType
<1>2. \A j \in DOMAIN m : StartOf(m, j) = StartOf(m, i) => j = i
  <2> SUFFICES ASSUME NEW j \in DOMAIN m, StartOf(m, j) = StartOf(m, i), j # i PROVE FALSE
    OBVIOUS
  <2>1. /\ i \in 1 .. (Len(m) + 1) /\ j \in 1 .. (Len(m) + 1) /\ (i < j \/ j < i) BY <1>1
  <2>2. StartOf(m, i) \in Nat /\ StartOf(m, j) \in Nat BY <2>1, StartFacts
  <2>3. StartOf(m, i) < StartOf(m, j) \/ StartOf(m, j) < StartOf(m, i) BY <2>1, StartFacts
  <2> QED BY <2>2, <2>3
<1>3. (CHOOSE j \in DOMAIN m : StartOf(m, j) = StartOf(m, i)) = i BY <1>2
<1>4. StartOf(m, i) \in Starts(m) BY DEF Starts
<1> QED BY <1>3, <1>4 DEF EntryAt

\* The walk goes from each entry to the next one, and ends behind the last one.
LEMMA IterateIs ==
    ASSUME NEW m \in Madts, Proper(m)
    PROVE  /\ acpi_madt_iterate(m, 0) = MadtHeader /\ MadtHeader \in Nat \ {0}
           /\ \A i \in DOMAIN m : acpi_madt_iterate(m, StartOf(m, i))
                                    = IF i = Len(m) THEN 0 ELSE StartOf(m, i + 1)
           /\ \A a \in Starts(m) \cup {0} : acpi_madt_iterate(m, a) \in Starts(m) \cup {0}
           /\ Starts(m) \subseteq Nat \ {0}
<1>1. Len(m) \in Nat /\ DOMAIN m = 1 .. Len(m) BY MadtType
<1>2. MadtHeader \in Nat \ {0} BY AcpiAssumption
<1>3. ASSUME NEW i \in DOMAIN m
      PROVE  acpi_madt_iterate(m, StartOf(m, i)) = IF i = Len(m) THEN 0 ELSE StartOf(m, i + 1)
  <2>1. i \in 1 .. (Len(m) + 1) /\ i + 1 \in 1 .. (Len(m) + 1) /\ Len(m) + 1 \in 1 .. (Len(m) + 1)
    BY <1>1
  <2>2. StartOf(m, i) # 0 /\ EntryAt(m, StartOf(m, i)) = m[i]
    BY <2>1, StartFacts, EntryIs
  <2>3. StartOf(m, i) + m[i].length = StartOf(m, i + 1) BY <1>1, StartFacts DEF Proper
  <2> DEFINE next == StartOf(m, i + 1)
             last == StartOf(m, Len(m) + 1)
  <2>4. acpi_madt_iterate(m, StartOf(m, i)) = IF next >= last THEN 0 ELSE next
    BY <2>2, <2>3 DEF acpi_madt_iterate, EndOf
  <2>5. next \in Nat /\ last \in Nat BY <2>1, StartFacts
  <2>6. i = Len(m) => next = last OBVIOUS
  <2>7. i # Len(m) => next < last
    <3>1. i # Len(m) => i + 1 < Len(m) + 1 BY <1>1
    <3> QED BY <3>1, <2>1, StartFacts
  <2> HIDE DEF next, last
  <2>8. acpi_madt_iterate(m, StartOf(m, i)) = IF i = Len(m) THEN 0 ELSE next
    BY <2>4, <2>5, <2>6, <2>7
  <2> QED BY <2>8 DEF next
<1>4. Starts(m) \subseteq Nat \ {0}
  <2>1. \A i \in DOMAIN m : i \in 1 .. (Len(m) + 1) BY <1>1
  <2> QED BY <2>1, StartFacts DEF Starts
<1>5. ASSUME NEW a \in Starts(m) PROVE acpi_madt_iterate(m, a) \in Starts(m) \cup {0}
  <2>1. PICK i \in DOMAIN m : StartOf(m, i) = a BY <1>5 DEF Starts
  <2>2. acpi_madt_iterate(m, a) = IF i = Len(m) THEN 0 ELSE StartOf(m, i + 1) BY <1>3, <2>1
  <2>3. i # Len(m) => i + 1 \in DOMAIN m BY <1>1
  <2> QED BY <2>2, <2>3 DEF Starts
<1>6. acpi_madt_iterate(m, 0) = MadtHeader BY DEF acpi_madt_iterate
<1>7. MadtHeader \in Starts(m)
  <2>1. 1 \in DOMAIN m /\ StartOf(m, 1) = MadtHeader BY MadtType, StartFacts
  <2> QED BY <2>1 DEF Starts
<1> QED BY <1>2, <1>3, <1>4, <1>5, <1>6, <1>7

\* The loop of acpi_print_madt goes anywhere, as it reads what is not checked.
LEMMA PrintIs ==
    ASSUME NEW m \in Madts, NEW a \in Nat, NEW n \in LengthsAt(m, a)
    PROVE  a + n \in Nat
<1>1. n \in Nat
  <2>1. CASE a \in Starts(m)
    <3>1. PICK i \in DOMAIN m : StartOf(m, i) = a BY <2>1 DEF Starts
    <3>2. EntryAt(m, a) = m[i] BY <3>1, EntryIs
    <3> QED BY <3>2, <2>1, MadtType DEF LengthsAt
  <2>2. CASE a \notin Starts(m) BY <2>2, AcpiAssumption DEF LengthsAt
  <2> QED BY <2>1, <2>2
<1> QED BY <1>1
-----------------------------------------------------------------------------
\* The processors.
Ipi == {"INIT", "SIPI"}
HasInitIn(q) == \E i \in DOMAIN q : q[i] = "INIT"
OneInit(q)   == \A i, j \in DOMAIN q : q[i] = "INIT" /\ q[j] = "INIT" => i = j
HasInit(p)   == HasInitIn(ipis[p])

Starting == pc \in {"sipi", "sipi again", "wait"}

\* A processor that is not being started.
AtRest(p) == ap[p] \in {"off", "halted"} /\ ~HasInit(p)

\* The one that is: first its INIT is on the way, then it starts.
InStart(p) ==
    /\ OneInit(ipis[p])
    /\ HasInit(p) => ap[p] \in {"off", "halted"} /\ cpu_startup_increment = 0
    /\ ~HasInit(p) => ap[p] # "off"
    /\ cpu_startup_increment = 1 => ap[p] = "halted"
    /\ pc = "wait" => ~HasInit(p) /\ ap[p] # "initializing"

StartInv ==
    /\ Starting \/ pc = "init" => current \in Starts(madt) /\ Wanted(Entry)
    /\ \A p \in Processors : (Starting /\ p = Id) \/ AtRest(p)
    /\ pc = "init" => cpu_startup_increment = 0
    /\ Starting => InStart(Id)

\* How far the walk through the MADT has come: the entries before Reached are done.
Reached == IF pc = "done" THEN EndOf(madt)
           ELSE IF pc = "processors" /\ current # 0 THEN current + 1
           ELSE IF Starting \/ pc = "init" THEN current
           ELSE 0
Visited ==
    \A i \in DOMAIN madt : StartOf(madt, i) < Reached /\ Wanted(madt[i])
        => ap[madt[i].id] = "halted" \/ (Starting /\ madt[i].id = Id)
WalkInv ==
    /\ pc \in {"ioapics", "processors"} => current = 0 \/ current \in Starts(madt)
    /\ pc \in {"rsdtp", "rsdt", "fadt", "dsdt", "madt", "apic", "vector"} => current = 0
    /\ cpu_startup_done = 1 => pc = "done"
    /\ Visited

UnlistedInv == \A p \in Processors \ Listed : ap[p] = "off" /\ ipis[p] = <<>>

\* The tables have been found and are valid before anything of the MADT is used.
Quiet == ioapic = 0 /\ \A p \in Processors : ap[p] = "off" /\ ipis[p] = <<>>
AllValid == Valid(rsdtp) /\ Valid(machine.rsdt) /\ Valid(fadt) /\ Valid(machine.dsdt) /\ Valid(madt_table)
ChecksInv ==
    /\ Proper(madt) \/ Damaged(madt_table)
    /\ pc \in {"rsdtp", "rsdt", "print", "fadt", "dsdt", "madt", "apic"} => Quiet
    /\ pc \in {"rsdt", "print", "fadt", "dsdt", "madt"} => Valid(rsdtp)
    /\ pc \in {"print", "fadt", "dsdt", "madt"} => Valid(machine.rsdt)
    /\ pc \in {"dsdt", "madt"} => Valid(fadt)
    /\ pc = "madt" => Valid(machine.dsdt)
    /\ pc \notin {"rsdtp", "rsdt", "print", "fadt", "dsdt", "madt"} => AllValid \/ (pc = "returned" /\ Quiet)

Inv == TypeOK /\ StartInv /\ WalkInv /\ UnlistedInv /\ ChecksInv
-----------------------------------------------------------------------------
LEMMA InitAppend ==
    ASSUME NEW q \in Seq(Ipi), NEW x \in Ipi
    PROVE  /\ Append(q, x) \in Seq(Ipi)
           /\ HasInitIn(Append(q, x)) <=> HasInitIn(q) \/ x = "INIT"
           /\ OneInit(q) /\ (x # "INIT" \/ ~HasInitIn(q)) => OneInit(Append(q, x))
<1> DEFINE r == Append(q, x)
<1>1. /\ r \in Seq(Ipi) /\ Len(q) \in Nat /\ DOMAIN q = 1 .. Len(q)
      /\ DOMAIN r = 1 .. (Len(q) + 1)
      /\ r[Len(q) + 1] = x /\ \A i \in 1 .. Len(q) : r[i] = q[i]
  OBVIOUS
<1> HIDE DEF r
<1>2. \A i \in DOMAIN r : i \in DOMAIN q \/ i = Len(q) + 1 BY <1>1
<1>3. \A i \in DOMAIN q : i \in DOMAIN r BY <1>1
<1>4. Len(q) + 1 \in DOMAIN r BY <1>1
<1>5. HasInitIn(r) <=> HasInitIn(q) \/ x = "INIT" BY <1>1, <1>2, <1>3, <1>4 DEF HasInitIn
<1>6. OneInit(q) /\ (x # "INIT" \/ ~HasInitIn(q)) => OneInit(r)
  BY <1>1, <1>2 DEF OneInit, HasInitIn
<1> QED BY <1>1, <1>5, <1>6 DEF r

LEMMA InitTail ==
    ASSUME NEW q \in Seq(Ipi), q # <<>>
    PROVE  /\ Tail(q) \in Seq(Ipi) /\ Head(q) \in Ipi
           /\ HasInitIn(q) <=> Head(q) = "INIT" \/ HasInitIn(Tail(q))
           /\ OneInit(q) => OneInit(Tail(q)) /\ (Head(q) = "INIT" => ~HasInitIn(Tail(q)))
<1> DEFINE r == Tail(q)
<1>1. /\ r \in Seq(Ipi) /\ Len(q) \in Nat /\ Len(q) > 0 /\ DOMAIN q = 1 .. Len(q)
      /\ DOMAIN r = 1 .. (Len(q) - 1) /\ Head(q) = q[1] /\ Head(q) \in Ipi
      /\ \A i \in 1 .. (Len(q) - 1) : r[i] = q[i + 1]
  OBVIOUS
<1> HIDE DEF r
<1>2. \A i \in DOMAIN r : i + 1 \in DOMAIN q /\ r[i] = q[i + 1] /\ i + 1 # 1 BY <1>1
<1>3. ASSUME NEW i \in DOMAIN q, i # 1 PROVE i - 1 \in DOMAIN r /\ r[i - 1] = q[i]
  <2>1. i - 1 \in 1 .. (Len(q) - 1) /\ (i - 1) + 1 = i BY <1>1, <1>3
  <2> QED BY <2>1, <1>1
<1>4. 1 \in DOMAIN q BY <1>1
<1>5. HasInitIn(q) <=> Head(q) = "INIT" \/ HasInitIn(r) BY <1>1, <1>2, <1>3, <1>4 DEF HasInitIn
<1>6. ASSUME OneInit(q), NEW i \in DOMAIN r, NEW j \in DOMAIN r, r[i] = "INIT", r[j] = "INIT"
      PROVE  i = j
  <2>1. i + 1 = j + 1 BY <1>2, <1>6 DEF OneInit
  <2> QED BY <2>1, <1>1
<1>7. OneInit(q) => OneInit(r) BY <1>6 DEF OneInit
<1>8. OneInit(q) /\ Head(q) = "INIT" => ~HasInitIn(r) BY <1>1, <1>2, <1>4 DEF OneInit, HasInitIn
<1> QED BY <1>1, <1>5, <1>7, <1>8 DEF r

\* The processor that is being started is one that the MADT lists.
LEMMA WantedListed ==
    ASSUME madt \in Madts, current \in Starts(madt), Wanted(Entry)
    PROVE  Id \in Processors /\ Id \in Listed
<1>1. PICK i \in DOMAIN madt : StartOf(madt, i) = current BY DEF Starts
<1>2. Entry = madt[i] BY <1>1, EntryIs DEF Entry
<1>3. madt[i].type = 0 /\ madt[i].enabled /\ madt[i].id # BootProcessor
  BY <1>2 DEF Wanted, ACPI_MADT_TYPE_LOCAL_APIC
<1>4. madt[i].id \in Listed BY <1>3 DEF Listed
<1> QED BY <1>2, <1>4, MadtType DEF Id

\* A table that is looked up is a sequence of bytes.
LEMMA FoundType ==
    ASSUME NEW tables \in Seq(Table), NEW signature
    PROVE  LET found == {i \in DOMAIN tables : Signature(tables[i]) = signature}
           IN  (IF found = {} THEN <<>> ELSE tables[Min(found)]) \in Seq(Bytes)
<1> DEFINE found == {i \in DOMAIN tables : Signature(tables[i]) = signature}
<1>1. CASE found = {} BY <1>1
<1>2. CASE found # {}
  <2>1. found \in SUBSET Nat OBVIOUS
  <2>2. found \subseteq DOMAIN tables OBVIOUS
  <2> HIDE DEF found
  <2>3. \E n \in found : \A k \in found : n <= k BY <2>1, <1>2, Least
  <2>4. Min(found) \in found BY <2>3 DEF Min
  <2>5. tables[Min(found)] \in Table BY <2>2, <2>4
  <2> QED BY <2>5, <1>2 DEF Table, found
<1> QED BY <1>1, <1>2

LEMMA TablesType ==
    ASSUME machine \in Machine
    PROVE  /\ rsdtp \in Seq(Bytes) /\ machine.rsdt \in Seq(Bytes) /\ fadt \in Seq(Bytes)
           /\ machine.dsdt \in Seq(Bytes) /\ madt_table \in Seq(Bytes)
<1>1. /\ machine.low \in Seq(Table) /\ machine.rsdt \in Table /\ machine.tables \in Seq(Table)
      /\ machine.dsdt \in Seq(Bytes)
  BY DEF Machine
<1>2. rsdtp \in Seq(Bytes) BY <1>1, FoundType DEF rsdtp, acpi_find_rsdt_pointer
<1>3. fadt \in Seq(Bytes) /\ madt_table \in Seq(Bytes)
  BY <1>1, FoundType DEF fadt, madt_table, acpi_rsdt_get_table
<1> QED BY <1>1, <1>2, <1>3 DEF Table

\* Once the MADT is checked, its entries have the lengths they say.
LEMMA CheckedProper ==
    ASSUME TypeOK, ChecksInv,
           pc \in {"ioapics", "vector", "processors", "init", "sipi", "sipi again", "wait", "done"}
    PROVE  Proper(madt)
<1>1. Valid(madt_table) BY DEF ChecksInv, AllValid
<1>2. madt_table \in Seq(Bytes) BY TablesType, SmpAssumption DEF TypeOK
<1>3. ~Damaged(madt_table) BY <1>1, <1>2, DamagedNotValid
<1> QED BY <1>3 DEF ChecksInv

\* The steps that concern neither the walk through the processors nor a processor.
Lookup == \/ FindRsdtp \/ CheckRsdt \/ acpi_print_rsdt \/ FindFadt \/ CheckDsdt \/ FindMadt
          \/ apic_check_supported \/ NextIoApic \/ CheckVector
LEMMA LookupFacts ==
    ASSUME Lookup
    PROVE  /\ UNCHANGED <<madt, machine, cpu_startup_vector, cpu_startup_increment, cpu_startup_done,
                          interrupt_command1, ap, ipis>>
           /\ ~Starting /\ ~Starting' /\ pc \notin {"init", "processors", "done"}
           /\ pc' \notin {"init", "done"}
           /\ pc' = "processors" => pc = "vector" /\ current' = current
           /\ pc' = "vector" => current' = 0
BY DEF Lookup, FindRsdtp, CheckRsdt, acpi_print_rsdt, FindFadt, CheckDsdt, FindMadt, apic_check_supported,
       NextIoApic, CheckVector, Check, Starting, given, flags

LEMMA StepCases ==
    ASSUME Next
    PROVE  \/ Lookup \/ NextProcessor \/ SendInit \/ SendSipi \/ SendAgain \/ WaitForIncrement
           \/ \E p \in Processors : ProcessorStep(p)
BY DEF Next, BootStep, Lookup

\* What a step of another processor does.
LEMMA ProcessorFacts ==
    ASSUME TypeOK, NEW p \in Processors, ProcessorStep(p)
    PROVE  /\ UNCHANGED <<madt, machine, cpu_startup_vector, pc, current, ioapic,
                          interrupt_command1, cpu_startup_done>>
           /\ \A q \in Processors \ {p} : ap'[q] = ap[q] /\ ipis'[q] = ipis[q]
           /\ \/ /\ ipis[p] # <<>> /\ ipis'[p] = Tail(ipis[p])
                 /\ ap'[p] = (IF Head(ipis[p]) = "INIT" THEN "initializing"
                              ELSE IF ap[p] = "waiting" THEN "starting" ELSE ap[p])
                 /\ cpu_startup_increment' = cpu_startup_increment
              \/ /\ ipis'[p] = ipis[p] /\ cpu_startup_increment' = cpu_startup_increment
                 /\ \/ ap[p] = "initializing" /\ ap'[p] = "waiting"
                    \/ ap[p] = "starting" /\ ap'[p] = "entered"
              \/ /\ ipis'[p] = ipis[p] /\ cpu_startup_increment' = 1
                 /\ ap[p] = "entered" /\ ap'[p] = "halted"
           /\ ap' \in [Processors -> {"off", "initializing", "waiting", "starting", "entered", "halted"}]
           /\ ipis' \in [Processors -> Seq(Ipi)]
<1>1. /\ ap \in [Processors -> {"off", "initializing", "waiting", "starting", "entered", "halted"}]
      /\ ipis \in [Processors -> Seq(Ipi)]
  BY DEF TypeOK, Ipi
<1>2. CASE Deliver(p)
  <2>1. Tail(ipis[p]) \in Seq(Ipi) BY <1>1, <1>2, InitTail DEF Deliver
  <2> QED BY <2>1, <1>1, <1>2 DEF Deliver, Rest, given, flags
<1>3. CASE Initialized(p) BY <1>1, <1>3 DEF Initialized, Become, Rest, given, flags
<1>4. CASE cpu_startup16(p) BY <1>1, <1>4 DEF cpu_startup16, Become, Rest, given, flags
<1>5. CASE cpu_entrypoint(p) BY <1>1, <1>5 DEF cpu_entrypoint, Become, Rest, given, flags
<1> QED BY <1>2, <1>3, <1>4, <1>5 DEF ProcessorStep

\* What sending does.
LEMMA SendFacts ==
    ASSUME TypeOK, StartInv, Starting \/ pc = "init", NEW ipi \in Ipi, Send(ipi)
    PROVE  /\ UNCHANGED <<madt, machine, cpu_startup_vector, current, ioapic,
                          cpu_startup_increment, cpu_startup_done, ap>>
           /\ Id \in Processors /\ Id \in Listed /\ Id' = Id /\ Entry' = Entry
           /\ interrupt_command1' = Id
           /\ ipis' \in [Processors -> Seq(Ipi)]
           /\ ipis'[Id] = Append(ipis[Id], ipi)
           /\ \A q \in Processors \ {Id} : ipis'[q] = ipis[q]
<1>1. Id \in Processors /\ Id \in Listed BY WantedListed DEF TypeOK, StartInv
<1>2. ipis \in [Processors -> Seq(Ipi)] BY DEF TypeOK, Ipi
<1>3. Append(ipis[Id], ipi) \in Seq(Ipi) BY <1>1, <1>2, InitAppend
<1>4. ipis' = [ipis EXCEPT ![Id] = Append(ipis[Id], ipi)] BY DEF Send
<1>5. UNCHANGED <<madt, current>> BY DEF Send, given
<1>6. Entry' = Entry /\ Id' = Id BY <1>5 DEF Entry, Id
<1> QED BY <1>1, <1>2, <1>3, <1>4, <1>6 DEF Send, given, flags

LEMMA TypeStep == ASSUME Inv, [Next]_vars PROVE TypeOK'
<1>1. TypeOK /\ StartInv BY DEF Inv
<1>2. pc \in {"ioapics", "processors"} => acpi_madt_iterate(madt, current) \in Nat
  <2> SUFFICES ASSUME pc \in {"ioapics", "processors"} PROVE acpi_madt_iterate(madt, current) \in Nat
    OBVIOUS
  <2>1. madt \in Madts /\ Proper(madt) BY CheckedProper DEF Inv, TypeOK
  <2>2. current \in Starts(madt) \cup {0} BY DEF Inv, WalkInv
  <2> QED BY <2>1, <2>2, IterateIs
<1>3. CASE Lookup
  <2>1. CASE acpi_print_rsdt
    <3>1. MadtHeader \in Nat /\ \A n \in LengthsAt(madt, current) : current + n \in Nat
      BY <1>1, PrintIs, AcpiAssumption DEF TypeOK
    <3>2. current' \in Nat BY <2>1, <3>1 DEF acpi_print_rsdt
    <3> QED BY <1>1, <2>1, <3>2 DEF TypeOK, acpi_print_rsdt, given, flags
  <2>2. CASE ~acpi_print_rsdt
    BY <1>1, <1>2, <1>3, <2>2
       DEF TypeOK, Lookup, FindRsdtp, CheckRsdt, FindFadt, CheckDsdt, FindMadt,
           apic_check_supported, NextIoApic, CheckVector, Check, given, flags
  <2> QED BY <2>1, <2>2
<1>4. CASE NextProcessor BY <1>1, <1>2, <1>4 DEF TypeOK, NextProcessor, given
<1>5. CASE SendInit \/ SendSipi \/ SendAgain
  <2>1. PICK ipi \in Ipi : Send(ipi) BY <1>5 DEF SendInit, SendSipi, SendAgain, Ipi
  <2>2. pc \in {"init", "sipi", "sipi again"} /\ pc' \in {"sipi", "sipi again", "wait"}
    BY <1>5 DEF SendInit, SendSipi, SendAgain
  <2>3. Starting \/ pc = "init" BY <2>2 DEF Starting
  <2> QED BY <2>1, <2>2, <2>3, <1>1, SendFacts DEF TypeOK, Ipi
<1>6. CASE WaitForIncrement BY <1>1, <1>6 DEF TypeOK, WaitForIncrement, given, flags
<1>7. ASSUME NEW p \in Processors, ProcessorStep(p) PROVE TypeOK'
  BY <1>1, <1>7, ProcessorFacts DEF TypeOK, Ipi
<1>8. CASE UNCHANGED vars BY <1>1, <1>8 DEF TypeOK, vars, given, flags
<1> QED BY <1>3, <1>4, <1>5, <1>6, <1>7, <1>8, StepCases

\* The processors that are not being started stay as they are.
LEMMA StartStep == ASSUME Inv, [Next]_vars PROVE StartInv'
<1>1. TypeOK /\ StartInv /\ TypeOK' BY TypeStep DEF Inv
<1>2. /\ ap \in [Processors -> {"off", "initializing", "waiting", "starting", "entered", "halted"}]
      /\ ipis \in [Processors -> Seq(Ipi)] /\ cpu_startup_increment \in {0, 1}
  BY <1>1 DEF TypeOK, Ipi
<1>3. ASSUME ~Starting, ~Starting', ap' = ap, ipis' = ipis
      PROVE  \A p \in Processors : AtRest(p)'
  BY <1>1, <1>3 DEF StartInv, AtRest, HasInit
<1>4. CASE Lookup
  <2>1. ~Starting /\ ~Starting' /\ pc' # "init" /\ ap' = ap /\ ipis' = ipis BY <1>4, LookupFacts
  <2> QED BY <2>1, <1>3 DEF StartInv
<1>5. CASE NextProcessor
  <2>1. /\ pc = "processors" /\ pc' \in {"done", "init", "processors"} /\ ap' = ap /\ ipis' = ipis
        /\ madt' = madt
        /\ pc' = "init" => Wanted(EntryAt(madt, current')) /\ cpu_startup_increment' = 0
    BY <1>5 DEF NextProcessor, given
  <2>2. ~Starting /\ ~Starting' BY <2>1 DEF Starting
  <2>3. pc' = "init" => current' \in Starts(madt') /\ Wanted(Entry)'
    <3>1. pc' = "init" => current' \in Starts(madt)
      <4>1. madt \in Madts /\ Proper(madt) BY <2>1, CheckedProper DEF Inv, TypeOK
      <4>2. current \in Starts(madt) \cup {0} BY <2>1 DEF Inv, WalkInv
      <4>3. current' = acpi_madt_iterate(madt, current) /\ (pc' = "init" => current' # 0)
        BY <1>5 DEF NextProcessor
      <4> QED BY <4>1, <4>2, <4>3, IterateIs
    <3>2. Entry' = EntryAt(madt, current') BY <2>1 DEF Entry
    <3>3. Wanted(Entry)' <=> Wanted(Entry') BY DEF Wanted
    <3> QED BY <3>1, <3>2, <3>3, <2>1
  <2> QED BY <2>1, <2>2, <2>3, <1>3 DEF StartInv
<1>6. ASSUME NEW ipi \in Ipi, Send(ipi), Starting \/ pc = "init", Starting', InStart(Id)'
      PROVE  StartInv'
  <2>1. /\ madt' = madt /\ current' = current /\ ap' = ap /\ Id \in Processors /\ Id' = Id
        /\ Entry' = Entry /\ \A q \in Processors \ {Id} : ipis'[q] = ipis[q]
    BY <1>1, <1>6, SendFacts
  <2>2. \A q \in Processors \ {Id} : AtRest(q)' BY <2>1, <1>1 DEF StartInv, AtRest, HasInit
  <2>3. Wanted(Entry)' /\ current' \in Starts(madt') BY <2>1, <1>1, <1>6 DEF StartInv, Wanted
  <2>4. pc' # "init" BY <1>6 DEF Starting
  <2> QED BY <2>1, <2>2, <2>3, <2>4, <1>6 DEF StartInv
<1>7. CASE SendInit
  <2>1. pc = "init" /\ pc' = "sipi" /\ Send("INIT") /\ "INIT" \in Ipi BY <1>7 DEF SendInit, Ipi
  <2>2. /\ Id \in Processors /\ Id' = Id /\ ap' = ap /\ cpu_startup_increment' = cpu_startup_increment
        /\ ipis'[Id] = Append(ipis[Id], "INIT")
    BY <2>1, <1>1, SendFacts
  <2>3. AtRest(Id) /\ cpu_startup_increment = 0 BY <2>1, <2>2, <1>1 DEF StartInv, Starting
  <2>4. HasInitIn(ipis'[Id]) /\ OneInit(ipis'[Id])
    <3>1. OneInit(ipis[Id]) BY <2>3 DEF AtRest, HasInit, HasInitIn, OneInit
    <3> QED BY <3>1, <2>1, <2>2, <2>3, <1>2, InitAppend DEF AtRest, HasInit
  <2>5. InStart(Id)' BY <2>1, <2>2, <2>3, <2>4 DEF InStart, AtRest, HasInit
  <2>6. Starting' BY <2>1 DEF Starting
  <2> QED BY <2>1, <2>5, <2>6, <1>6
<1>8. ASSUME Starting, Send("SIPI"), Starting', pc' = "wait" => Ready(Id) PROVE StartInv'
  <2>1. /\ Id \in Processors /\ Id' = Id /\ ap' = ap /\ cpu_startup_increment' = cpu_startup_increment
        /\ ipis'[Id] = Append(ipis[Id], "SIPI") /\ "SIPI" \in Ipi
    BY <1>1, <1>8, SendFacts DEF Ipi
  <2>2. InStart(Id) BY <1>1, <1>8 DEF StartInv
  <2>3. (HasInitIn(ipis'[Id]) <=> HasInit(Id)) /\ OneInit(ipis'[Id])
    BY <2>1, <2>2, <1>2, InitAppend DEF InStart, HasInit
  <2>4. pc' = "wait" => ~HasInit(Id) /\ ap[Id] # "initializing"
    BY <1>8 DEF Ready, HasInit, HasInitIn
  <2>5. InStart(Id)' BY <2>1, <2>2, <2>3, <2>4 DEF InStart, HasInit
  <2> QED BY <2>1, <2>5, <1>6, <1>8
<1>9. CASE SendSipi
  <2>1. Starting /\ Starting' /\ Send("SIPI") /\ pc' # "wait" BY <1>9 DEF SendSipi, Starting
  <2> QED BY <2>1, <1>8
<1>10. CASE SendAgain
  <2>1. Starting /\ Starting' /\ Send("SIPI") /\ Ready(Id) BY <1>10 DEF SendAgain, Starting
  <2> QED BY <2>1, <1>8
<1>11. CASE WaitForIncrement
  <2>1. /\ pc = "wait" /\ pc' = "processors" /\ cpu_startup_increment # 0 /\ ap' = ap
        /\ ipis' = ipis
    BY <1>11 DEF WaitForIncrement
  <2>2. Starting /\ ~Starting' /\ pc' # "init" BY <2>1 DEF Starting
  <2>3. AtRest(Id) BY <2>1, <2>2, <1>1, <1>2 DEF StartInv, InStart, AtRest
  <2>4. \A p \in Processors : AtRest(p)' BY <2>1, <2>3, <1>1 DEF StartInv, AtRest, HasInit
  <2> QED BY <2>2, <2>4 DEF StartInv
<1>12. ASSUME NEW p \in Processors, ProcessorStep(p) PROVE StartInv'
  <2>1. /\ madt' = madt /\ pc' = pc /\ current' = current
        /\ \A q \in Processors \ {p} : ap'[q] = ap[q] /\ ipis'[q] = ipis[q]
        /\ \/ /\ ipis[p] # <<>> /\ ipis'[p] = Tail(ipis[p])
              /\ ap'[p] = (IF Head(ipis[p]) = "INIT" THEN "initializing"
                           ELSE IF ap[p] = "waiting" THEN "starting" ELSE ap[p])
              /\ cpu_startup_increment' = cpu_startup_increment
           \/ /\ ipis'[p] = ipis[p] /\ cpu_startup_increment' = cpu_startup_increment
              /\ \/ ap[p] = "initializing" /\ ap'[p] = "waiting"
                 \/ ap[p] = "starting" /\ ap'[p] = "entered"
           \/ /\ ipis'[p] = ipis[p] /\ cpu_startup_increment' = 1
              /\ ap[p] = "entered" /\ ap'[p] = "halted"
    BY <1>1, <1>12, ProcessorFacts
  <2>2. /\ ipis[p] \in Seq(Ipi)
        /\ ipis[p] # <<>> => /\ HasInit(p) <=> Head(ipis[p]) = "INIT" \/ HasInitIn(Tail(ipis[p]))
                             /\ OneInit(ipis[p]) => /\ OneInit(Tail(ipis[p]))
                                                    /\ Head(ipis[p]) = "INIT"
                                                         => ~HasInitIn(Tail(ipis[p]))
    BY <1>2, InitTail DEF HasInit
  <2>3. Entry' = Entry /\ Id' = Id /\ (Starting' <=> Starting) BY <2>1 DEF Entry, Id, Starting
  <2>4. HasInit(p)' <=> HasInitIn(ipis'[p]) BY DEF HasInit
  <2>5. ASSUME AtRest(p)
        PROVE  AtRest(p)' /\ cpu_startup_increment' = cpu_startup_increment
    BY <2>1, <2>2, <2>4, <2>5 DEF AtRest
  <2>6. ASSUME Starting, p = Id PROVE InStart(p)'
    <3>1. InStart(p) BY <1>1, <2>6 DEF StartInv
    <3>2. CASE /\ ipis[p] # <<>> /\ ipis'[p] = Tail(ipis[p])
               /\ ap'[p] = (IF Head(ipis[p]) = "INIT" THEN "initializing"
                            ELSE IF ap[p] = "waiting" THEN "starting" ELSE ap[p])
               /\ cpu_startup_increment' = cpu_startup_increment
      <4>1. OneInit(ipis'[p]) BY <3>1, <3>2, <2>2 DEF InStart
      <4>2. CASE Head(ipis[p]) = "INIT"
        <5>1. HasInit(p) /\ ~HasInitIn(ipis'[p]) BY <4>2, <3>1, <3>2, <2>2 DEF InStart
        <5>2. ap'[p] = "initializing" /\ cpu_startup_increment' = 0 /\ pc' # "wait"
          BY <5>1, <4>2, <3>1, <3>2, <2>1 DEF InStart
        <5> QED BY <5>1, <5>2, <4>1, <2>4 DEF InStart
      <4>3. CASE Head(ipis[p]) # "INIT"
        <5>1. HasInit(p) <=> HasInitIn(ipis'[p]) BY <4>3, <3>2, <2>2
        <5>2. ap'[p] = (IF ap[p] = "waiting" THEN "starting" ELSE ap[p]) BY <4>3, <3>2
        <5> QED BY <5>1, <5>2, <4>1, <3>1, <3>2, <2>1, <2>4 DEF InStart
      <4> QED BY <4>2, <4>3
    <3>3. CASE /\ ipis'[p] = ipis[p] /\ cpu_startup_increment' = cpu_startup_increment
               /\ \/ ap[p] = "initializing" /\ ap'[p] = "waiting"
                  \/ ap[p] = "starting" /\ ap'[p] = "entered"
      BY <3>1, <3>3, <2>1, <2>4 DEF InStart, HasInit
    <3>4. CASE /\ ipis'[p] = ipis[p] /\ cpu_startup_increment' = 1
               /\ ap[p] = "entered" /\ ap'[p] = "halted"
      BY <3>1, <3>4, <2>1, <2>4 DEF InStart, HasInit
    <3> QED BY <3>2, <3>3, <3>4, <2>1
  <2>7. \A q \in Processors \ {p} : AtRest(q)' <=> AtRest(q) BY <2>1 DEF AtRest, HasInit
  <2>8. (Starting /\ p = Id) \/ AtRest(p) BY <1>1 DEF StartInv
  <2>9. \A q \in Processors : (Starting' /\ q = Id') \/ AtRest(q)'
    <3>1. \A q \in Processors : (Starting /\ q = Id) \/ AtRest(q) BY <1>1 DEF StartInv
    <3> QED BY <3>1, <2>3, <2>5, <2>7
  <2>10. Starting => InStart(Id)'
    <3>1. ASSUME Starting, p # Id PROVE InStart(Id)'
      <4>1. AtRest(p) /\ InStart(Id) /\ Id \in Processors
        BY <3>1, <2>8, <1>1, WantedListed DEF StartInv, TypeOK
      <4>2. cpu_startup_increment' = cpu_startup_increment /\ ap'[Id] = ap[Id] /\ ipis'[Id] = ipis[Id]
        BY <4>1, <3>1, <2>1, <2>5
      <4> QED BY <4>1, <4>2, <2>1, <2>3 DEF InStart, HasInit
    <3>2. ASSUME Starting, p = Id PROVE InStart(Id)'
      <4>1. InStart(p)' BY <3>2, <2>6
      <4>2. Id' = p BY <3>2, <2>3
      <4> QED BY <4>1, <4>2 DEF InStart, HasInit
    <3> QED BY <3>1, <3>2
  <2>11. pc' = "init" => cpu_startup_increment' = 0
    <3>1. pc = "init" => ~Starting BY DEF Starting
    <3> QED BY <3>1, <2>1, <2>5, <2>8, <1>1 DEF StartInv
  <2>12. Starting' \/ pc' = "init" => current' \in Starts(madt') /\ Wanted(Entry)'
    BY <2>1, <2>3, <1>1 DEF StartInv, Wanted
  <2> QED BY <2>3, <2>9, <2>10, <2>11, <2>12 DEF StartInv
<1>13. CASE UNCHANGED vars
  BY <1>1, <1>13 DEF vars, given, flags, StartInv, Starting, Entry, Id, AtRest, HasInit, InStart, Wanted
<1> QED BY <1>4, <1>5, <1>7, <1>9, <1>10, <1>11, <1>12, <1>13, StepCases

\* No processor is interrupted that is not listed.
LEMMA UnlistedStep == ASSUME Inv, [Next]_vars PROVE UnlistedInv'
<1>1. TypeOK /\ StartInv /\ UnlistedInv BY DEF Inv
<1>2. madt' = madt => Listed' = Listed BY DEF Listed
<1>3. ASSUME madt' = madt, ap' = ap, ipis' = ipis PROVE UnlistedInv'
  BY <1>1, <1>2, <1>3 DEF UnlistedInv
<1>4. CASE Lookup BY <1>3, <1>4, LookupFacts
<1>5. CASE NextProcessor BY <1>3, <1>5 DEF NextProcessor, given
<1>6. CASE SendInit \/ SendSipi \/ SendAgain
  <2>1. PICK ipi \in Ipi : Send(ipi) BY <1>6 DEF SendInit, SendSipi, SendAgain, Ipi
  <2>2. Starting \/ pc = "init" BY <1>6 DEF SendInit, SendSipi, SendAgain, Starting
  <2>3. /\ madt' = madt /\ ap' = ap /\ Id \in Listed
        /\ \A q \in Processors \ {Id} : ipis'[q] = ipis[q]
    BY <2>1, <2>2, <1>1, SendFacts
  <2> QED BY <2>3, <1>1, <1>2 DEF UnlistedInv
<1>7. CASE WaitForIncrement BY <1>3, <1>7 DEF WaitForIncrement, given
<1>8. ASSUME NEW p \in Processors, ProcessorStep(p) PROVE UnlistedInv'
  <2>1. /\ madt' = madt
        /\ \A q \in Processors \ {p} : ap'[q] = ap[q] /\ ipis'[q] = ipis[q]
        /\ ipis[p] # <<>> \/ ap[p] # "off"
    BY <1>1, <1>8, ProcessorFacts
  <2>2. p \in Listed BY <2>1, <1>1 DEF UnlistedInv
  <2> QED BY <2>1, <2>2, <1>1, <1>2 DEF UnlistedInv
<1>9. CASE UNCHANGED vars BY <1>3, <1>9 DEF vars, given
<1> QED BY <1>4, <1>5, <1>6, <1>7, <1>8, <1>9, StepCases

\* Nothing happens before the tables are checked.
LEMMA ChecksStep == ASSUME Inv, [Next]_vars PROVE ChecksInv'
<1>1. TypeOK /\ StartInv /\ ChecksInv BY DEF Inv
<1>0. machine' = machine /\ madt' = madt /\ (Proper(madt) \/ Damaged(madt_table))'
  <2>1. machine' = machine /\ madt' = madt
    <3>1. CASE Lookup BY <3>1, LookupFacts
    <3>2. CASE NextProcessor \/ SendInit \/ SendSipi \/ SendAgain \/ WaitForIncrement
      BY <3>2 DEF NextProcessor, SendInit, SendSipi, SendAgain, Send, WaitForIncrement, given
    <3>3. ASSUME NEW p \in Processors, ProcessorStep(p) PROVE machine' = machine /\ madt' = madt
      BY <1>1, <3>3, ProcessorFacts
    <3>4. CASE UNCHANGED vars BY <3>4 DEF vars, given
    <3> QED BY <3>1, <3>2, <3>3, <3>4, StepCases
  <2> QED BY <2>1, <1>1 DEF ChecksInv, madt_table, Proper
<1>2. machine' = machine => /\ rsdtp' = rsdtp /\ fadt' = fadt /\ madt_table' = madt_table
                            /\ AllValid' = AllValid
  BY DEF rsdtp, fadt, madt_table, AllValid
<1>3. \A t : Valid(t)' = Valid(t) BY DEF Valid
<1>4. CASE Lookup
  <2>1. machine' = machine /\ ap' = ap /\ ipis' = ipis BY <1>4, LookupFacts
  <2>2. ioapic' = ioapic => (Quiet' <=> Quiet) BY <2>1 DEF Quiet
  <2>3. CASE FindRsdtp
    BY <1>0, <2>1, <2>2, <2>3, <1>1, <1>2, <1>3
       DEF ChecksInv, FindRsdtp, Check, Valid, acpi_validate_rsdt_pointer
  <2>4. CASE CheckRsdt
    <3>1. machine \in Machine BY <1>1, SmpAssumption DEF TypeOK
    <3>2. machine.rsdt # <<>> BY <3>1 DEF Machine, Table
    <3> QED BY <1>0, <3>2, <2>1, <2>2, <2>4, <1>1, <1>2, <1>3 DEF ChecksInv, CheckRsdt, Check, Valid
  <2>11. CASE acpi_print_rsdt
    <3>1. pc = "print" /\ pc' \in {"print", "fadt"} /\ ioapic' = ioapic BY <2>11 DEF acpi_print_rsdt
    <3> QED BY <3>1, <2>1, <2>2, <1>0, <1>1, <1>2, <1>3 DEF ChecksInv
  <2>5. CASE FindFadt
    BY <1>0, <2>1, <2>2, <2>5, <1>1, <1>2, <1>3 DEF ChecksInv, FindFadt, Check
  <2>6. CASE CheckDsdt
    BY <1>0, <2>1, <2>2, <2>6, <1>1, <1>2, <1>3 DEF ChecksInv, CheckDsdt, Check
  <2>7. CASE FindMadt
    BY <1>0, <2>1, <2>2, <2>7, <1>1, <1>2, <1>3 DEF ChecksInv, FindMadt, Check, AllValid
  <2>8. CASE apic_check_supported
    BY <1>0, <2>1, <2>2, <2>8, <1>1, <1>2 DEF ChecksInv, apic_check_supported, Check
  <2>9. CASE NextIoApic
    <3>1. pc = "ioapics" /\ pc' \in {"vector", "ioapics"} BY <2>9 DEF NextIoApic
    <3> QED BY <1>0, <3>1, <2>1, <1>1, <1>2 DEF ChecksInv
  <2>10. CASE CheckVector
    <3>1. pc = "vector" /\ pc' \in {"processors", "returned"} BY <2>10 DEF CheckVector, Check
    <3> QED BY <1>0, <3>1, <2>1, <1>1, <1>2 DEF ChecksInv
  <2> QED BY <2>3, <2>4, <2>5, <2>6, <2>7, <2>8, <2>9, <2>10, <2>11, <1>4 DEF Lookup
<1> DEFINE Late == {"processors", "init", "sipi", "sipi again", "wait", "done"}
<1>5. ASSUME machine' = machine, pc \in Late, pc' \in Late PROVE ChecksInv'
  BY <1>0, <1>1, <1>2, <1>5 DEF ChecksInv
<1>6. CASE NextProcessor BY <1>5, <1>6 DEF NextProcessor, given
<1>7. CASE SendInit \/ SendSipi \/ SendAgain
  BY <1>5, <1>7 DEF SendInit, SendSipi, SendAgain, Send, given
<1>8. CASE WaitForIncrement BY <1>5, <1>8 DEF WaitForIncrement, given
<1>9. ASSUME NEW p \in Processors, ProcessorStep(p) PROVE ChecksInv'
  <2>1. machine' = machine /\ pc' = pc /\ (ipis[p] # <<>> \/ ap[p] # "off")
    BY <1>1, <1>9, ProcessorFacts
  <2>2. ~Quiet BY <2>1 DEF Quiet
  <2> QED BY <1>0, <2>1, <2>2, <1>1, <1>2 DEF ChecksInv
<1>10. CASE UNCHANGED vars
  <2>1. machine' = machine /\ pc' = pc /\ ioapic' = ioapic /\ ap' = ap /\ ipis' = ipis
    BY <1>10 DEF vars, given
  <2>2. Quiet' <=> Quiet BY <2>1 DEF Quiet
  <2> QED BY <1>0, <2>1, <2>2, <1>1, <1>2, <1>3 DEF ChecksInv
<1> QED BY <1>4, <1>6, <1>7, <1>8, <1>9, <1>10, StepCases

\* The walk leaves nobody out.
LEMMA WalkStep == ASSUME Inv, [Next]_vars PROVE WalkInv'
<1>1. TypeOK /\ StartInv /\ WalkInv /\ ChecksInv /\ madt \in Madts BY DEF Inv, TypeOK
<1>2. /\ Len(madt) \in Nat /\ DOMAIN madt = 1 .. Len(madt)
      /\ \A i \in DOMAIN madt : StartOf(madt, i) \in Nat \ {0} /\ madt[i].id \in Processors
  <2>1. Len(madt) \in Nat /\ DOMAIN madt = 1 .. Len(madt) BY <1>1, MadtType
  <2>2. \A i \in DOMAIN madt : i \in 1 .. (Len(madt) + 1) BY <2>1
  <2> QED BY <2>1, <2>2, <1>1, MadtType, StartFacts
<1>3. madt' = madt => /\ \A i : StartOf(madt', i) = StartOf(madt, i)
                      /\ Starts(madt') = Starts(madt) /\ EndOf(madt') = EndOf(madt)
  OBVIOUS
<1>4. ASSUME madt' = madt, Reached' = 0 PROVE Visited'
  BY <1>2, <1>4 DEF Visited
<1>5. \A e : Wanted(e)' <=> Wanted(e) BY DEF Wanted
<1>6. CASE Lookup
  <2>1. /\ madt' = madt /\ cpu_startup_done' = cpu_startup_done
        /\ ~Starting' /\ pc \notin {"init", "processors", "done"} /\ pc' \notin {"init", "done"}
        /\ pc' = "processors" => pc = "vector" /\ current' = current
        /\ pc' = "vector" => current' = 0
    BY <1>6, LookupFacts
  <2>2. pc' = "processors" => current' = 0 BY <2>1, <1>1 DEF WalkInv
  <2>3. Reached' = 0 BY <2>1, <2>2 DEF Reached
  <2>4. /\ pc' = "ioapics" => current' = 0 \/ current' \in Starts(madt)
        /\ pc' \in {"rsdtp", "rsdt", "fadt", "dsdt", "madt", "apic"} => current' = 0
    <3>1. CASE NextIoApic
      <4>1. Proper(madt) /\ current \in Starts(madt) \cup {0}
        BY <3>1, <1>1, CheckedProper DEF NextIoApic, WalkInv
      <4>2. current' \in Starts(madt) \cup {0} BY <3>1, <4>1, <1>1, IterateIs DEF NextIoApic
      <4> QED BY <3>1, <4>2 DEF NextIoApic
    <3>2. CASE acpi_print_rsdt BY <3>2 DEF acpi_print_rsdt
    <3>3. CASE ~NextIoApic /\ ~acpi_print_rsdt
      BY <3>3, <1>1, <1>6
         DEF WalkInv, Lookup, FindRsdtp, CheckRsdt, FindFadt, CheckDsdt, FindMadt,
             apic_check_supported, CheckVector, Check
    <3> QED BY <3>1, <3>2, <3>3
  <2> QED BY <2>1, <2>2, <2>3, <2>4, <1>1, <1>4 DEF WalkInv
<1>7. CASE NextProcessor
  <2>1. /\ pc = "processors" /\ madt' = madt /\ ap' = ap
        /\ current' = acpi_madt_iterate(madt, current)
        /\ pc' = (IF current' = 0 THEN "done"
                  ELSE IF Wanted(EntryAt(madt, current')) THEN "init" ELSE "processors")
        /\ cpu_startup_done' = IF current' = 0 THEN 1 ELSE cpu_startup_done
    BY <1>7 DEF NextProcessor, given
  <2>2. ~Starting /\ ~Starting' BY <2>1 DEF Starting
  <2>3. cpu_startup_done' = 1 => pc' = "done" BY <2>1, <1>1 DEF WalkInv
  <2>4. pc' \in {"done", "init", "processors"} BY <2>1
  <2>5. Proper(madt) BY <2>1, <1>1, CheckedProper
  <2>6. WalkInv'
    <3>0. 1 \in DOMAIN madt BY <1>1, MadtType
    \* The entry that is reached now, and those before it.
    <3>1. ASSUME NEW k \in DOMAIN madt, current' = StartOf(madt, k),
                 \A i \in DOMAIN madt : i < k /\ Wanted(madt[i]) => ap[madt[i].id] = "halted"
          PROVE  WalkInv'
      <4>1. current' \in Starts(madt) /\ current' \in Nat \ {0} /\ EntryAt(madt, current') = madt[k]
        BY <3>1, <1>1, <1>2, EntryIs
      <4>2. Reached' = IF pc' = "init" THEN current' ELSE current' + 1
        BY <4>1, <2>1, <2>2 DEF Reached
      <4>3. ASSUME NEW i \in DOMAIN madt, StartOf(madt, i) < Reached', Wanted(madt[i])
            PROVE  ap[madt[i].id] = "halted"
        <5>1. i \in 1 .. (Len(madt) + 1) /\ k \in 1 .. (Len(madt) + 1) BY <1>2
        <5>2. k < i => current' < StartOf(madt, i) BY <5>1, <3>1, <1>1, StartFacts
        <5>3. StartOf(madt, i) \in Nat BY <1>2
        <5>4. ~(k < i) BY <5>2, <5>3, <4>1, <4>2, <4>3
        <5>5. i # k
          <6>1. ASSUME i = k PROVE FALSE
            <7>1. pc' = "init" BY <6>1, <4>1, <4>3, <2>1
            <7>2. StartOf(madt, i) = current' /\ Reached' = current' BY <7>1, <6>1, <4>2, <3>1
            <7> QED BY <7>2, <5>3, <4>3
          <6> QED BY <6>1
        <5>6. i < k BY <5>1, <5>4, <5>5, <1>2
        <5> QED BY <5>6, <4>3, <3>1
      <4>4. Visited'
        BY <4>3, <2>1, <1>3, <1>5 DEF Visited
      <4> QED BY <4>1, <4>4, <2>1, <2>3, <2>4 DEF WalkInv
    <3>2. CASE current = 0
      <4>1. current' = StartOf(madt, 1) BY <3>2, <2>1, <2>5, <1>1, IterateIs, StartFacts
      <4>2. \A i \in DOMAIN madt : ~(i < 1) BY <1>2
      <4> QED BY <4>1, <4>2, <3>0, <3>1
    <3>3. CASE current # 0
      <4>1. current \in Starts(madt) BY <3>3, <2>1, <1>1 DEF WalkInv
      <4>2. PICK j \in DOMAIN madt : StartOf(madt, j) = current BY <4>1 DEF Starts
      <4>3. current' = IF j = Len(madt) THEN 0 ELSE StartOf(madt, j + 1)
        BY <4>2, <2>1, <2>5, <1>1, IterateIs
      <4>4. Reached = current + 1 BY <3>3, <2>1 DEF Reached
      <4>5. ASSUME NEW i \in DOMAIN madt, i < j + 1, Wanted(madt[i]) PROVE ap[madt[i].id] = "halted"
        <5>1. i \in 1 .. (Len(madt) + 1) /\ j \in 1 .. (Len(madt) + 1) /\ (i < j \/ i = j)
          BY <4>5, <1>2
        <5>2. i < j => StartOf(madt, i) < StartOf(madt, j) BY <5>1, <1>1, StartFacts
        <5>3. StartOf(madt, i) \in Nat /\ StartOf(madt, j) \in Nat BY <1>2
        <5>4. StartOf(madt, i) < Reached BY <5>1, <5>2, <5>3, <4>2, <4>4
        <5> QED BY <5>4, <4>5, <2>2, <1>1 DEF WalkInv, Visited
      <4>6. CASE j = Len(madt)
        <5>1. current' = 0 /\ pc' = "done" BY <4>3, <4>6, <2>1
        <5>2. \A i \in DOMAIN madt : i < j + 1 BY <4>6, <1>2
        <5>3. Visited' BY <5>2, <4>5, <2>1, <1>3, <1>5 DEF Visited
        <5> QED BY <5>1, <5>3 DEF WalkInv
      <4>7. CASE j # Len(madt)
        <5>1. j + 1 \in DOMAIN madt BY <4>7, <1>2
        <5>2. current' = StartOf(madt, j + 1) BY <4>3, <4>7
        <5> DEFINE k == j + 1
        <5>3. \A i \in DOMAIN madt : i < k /\ Wanted(madt[i]) => ap[madt[i].id] = "halted"
          BY <4>5
        <5>4. k \in DOMAIN madt /\ current' = StartOf(madt, k) BY <5>1, <5>2
        <5> HIDE DEF k
        <5> QED BY <5>3, <5>4, <3>1
      <4> QED BY <4>6, <4>7
    <3> QED BY <3>2, <3>3
  <2> QED BY <2>6
<1>8. CASE SendInit \/ SendSipi \/ SendAgain
  <2>1. PICK ipi \in Ipi : Send(ipi) BY <1>8 DEF SendInit, SendSipi, SendAgain, Ipi
  <2>2. /\ pc \in {"init", "sipi", "sipi again"} /\ pc' \in {"sipi", "sipi again", "wait"}
    BY <1>8 DEF SendInit, SendSipi, SendAgain
  <2>3. (Starting \/ pc = "init") /\ Starting' BY <2>2 DEF Starting
  <2>4. /\ madt' = madt /\ ap' = ap /\ current' = current /\ Id' = Id
        /\ cpu_startup_done' = cpu_startup_done
    BY <2>1, <2>3, <1>1, SendFacts
  <2>5. Reached' = Reached BY <2>2, <2>3, <2>4 DEF Reached
  <2>6. Visited'
    <3>1. \A i \in DOMAIN madt : StartOf(madt, i) < Reached /\ Wanted(madt[i])
              => ap[madt[i].id] = "halted" \/ (Starting /\ madt[i].id = Id)
      BY <1>1 DEF WalkInv, Visited
    <3> QED BY <3>1, <2>3, <2>4, <2>5, <1>3, <1>5 DEF Visited
  <2> QED BY <2>2, <2>4, <2>6, <1>1 DEF WalkInv
<1>9. CASE WaitForIncrement
  <2>1. /\ pc = "wait" /\ pc' = "processors" /\ madt' = madt /\ current' = current /\ ap' = ap
        /\ cpu_startup_increment # 0 /\ cpu_startup_done' = cpu_startup_done
    BY <1>9 DEF WaitForIncrement, given, flags
  <2>2. Starting /\ ~Starting' BY <2>1 DEF Starting
  <2>3. ap[Id] = "halted" /\ current \in Starts(madt)
    BY <2>1, <2>2, <1>1 DEF StartInv, InStart, TypeOK
  <2>4. PICK k \in DOMAIN madt : StartOf(madt, k) = current BY <2>3 DEF Starts
  <2>5. madt[k].id = Id BY <2>4, <1>1, EntryIs DEF Id, Entry
  <2>6. current \in Nat \ {0} BY <2>4, <1>2
  <2>7. Reached = current /\ Reached' = current + 1 BY <2>1, <2>2, <2>6 DEF Reached
  <2>8. ASSUME NEW i \in DOMAIN madt, StartOf(madt, i) < current + 1, Wanted(madt[i])
        PROVE  ap[madt[i].id] = "halted"
    <3>1. StartOf(madt, i) \in Nat BY <1>2
    <3>2. CASE StartOf(madt, i) < current
      BY <3>2, <2>3, <2>7, <2>8, <1>1 DEF WalkInv, Visited
    <3>3. CASE StartOf(madt, i) = current
      <4>1. Id = madt[i].id BY <3>3, <1>1, EntryIs DEF Id, Entry
      <4> QED BY <4>1, <2>3
    <3> QED BY <3>1, <3>2, <3>3, <2>6, <2>8
  <2>9. Visited' BY <2>1, <2>7, <2>8, <1>3, <1>5 DEF Visited
  <2> QED BY <2>1, <2>3, <2>9, <1>1 DEF WalkInv
<1>10. ASSUME madt' = madt, pc' = pc, current' = current, cpu_startup_done' = cpu_startup_done,
              \A q \in Processors : ap[q] = "halted" => ap'[q] = "halted" \/ (Starting /\ q = Id)
       PROVE  WalkInv'
  <2>1. Reached' = Reached /\ (Starting' <=> Starting) /\ Id' = Id
    BY <1>10 DEF Reached, Starting, Id, Entry
  <2>2. \A i \in DOMAIN madt : StartOf(madt, i) < Reached /\ Wanted(madt[i])
            => ap[madt[i].id] = "halted" \/ (Starting /\ madt[i].id = Id)
    BY <1>1 DEF WalkInv, Visited
  <2>3. Visited' BY <2>1, <2>2, <1>2, <1>3, <1>5, <1>10 DEF Visited
  <2> QED BY <2>3, <1>1, <1>10 DEF WalkInv
<1>11. ASSUME NEW p \in Processors, ProcessorStep(p) PROVE WalkInv'
  <2>1. /\ madt' = madt /\ pc' = pc /\ current' = current /\ cpu_startup_done' = cpu_startup_done
        /\ \A q \in Processors \ {p} : ap'[q] = ap[q]
        /\ \/ /\ ipis[p] # <<>>
              /\ ap'[p] = (IF Head(ipis[p]) = "INIT" THEN "initializing"
                           ELSE IF ap[p] = "waiting" THEN "starting" ELSE ap[p])
           \/ ap[p] # "halted"
    BY <1>1, <1>11, ProcessorFacts
  <2>2. ap[p] = "halted" => ap'[p] = "halted" \/ (Starting /\ p = Id)
    <3>1. ipis[p] # <<>> /\ Head(ipis[p]) = "INIT" => HasInit(p)
      BY <1>1, InitTail DEF TypeOK, HasInit, Ipi
    <3>2. (Starting /\ p = Id) \/ ~HasInit(p) BY <1>1 DEF StartInv, AtRest
    <3> QED BY <3>1, <3>2, <2>1
  <2> QED BY <2>1, <2>2, <1>10
<1>12. CASE UNCHANGED vars BY <1>10, <1>12 DEF vars, given, flags
<1> QED BY <1>6, <1>7, <1>8, <1>9, <1>11, <1>12, StepCases
-----------------------------------------------------------------------------
LEMMA InvInit == ASSUME Init PROVE Inv
<1>1. TypeOK
  <2>1. <<>> \in Seq({"INIT", "SIPI"}) OBVIOUS
  <2> QED BY <2>1, SmpAssumption DEF Init, TypeOK
<1>2. StartInv BY SmpAssumption DEF Init, StartInv, Starting, AtRest, HasInit, HasInitIn
<1>3. WalkInv
  <2>1. Reached = 0 BY DEF Init, Reached, Starting
  <2>2. madt \in Madts BY DEF Init
  <2>3. \A i \in DOMAIN madt : ~(StartOf(madt, i) < 0)
    <3>1. \A i \in DOMAIN madt : i \in 1 .. (Len(madt) + 1) BY <2>2, MadtType
    <3>2. \A i \in DOMAIN madt : StartOf(madt, i) \in Nat BY <3>1, <2>2, StartFacts
    <3> QED BY <3>2
  <2> QED BY <2>1, <2>3 DEF Init, WalkInv, Visited
<1>4. UnlistedInv BY DEF Init, UnlistedInv
<1>5. ChecksInv BY DEF Init, ChecksInv, Quiet
<1> QED BY <1>1, <1>2, <1>3, <1>4, <1>5 DEF Inv

LEMMA InvStep == ASSUME Inv, [Next]_vars PROVE Inv'
BY TypeStep, StartStep, WalkStep, UnlistedStep, ChecksStep DEF Inv

\* The inductive invariant.
THEOREM InvHolds == Spec => []Inv
BY InvInit, InvStep, PTL DEF Spec

\* Every variable has its type.
THEOREM TypeCorrect == Spec => []TypeOK
<1>1. Inv => TypeOK BY DEF Inv
<1> QED BY <1>1, InvHolds, PTL

\* cpu.asm: however many processors there are and however late their interrupts
\* arrive, two of them are never on the stack at the same time.
THEOREM OneOnStack == Spec => []StackExclusive
<1>1. Inv => StackExclusive
  BY DEF Inv, StartInv, AtRest, StackExclusive, OnStack
<1> QED BY <1>1, InvHolds, PTL

\* main.c: no other processors are started than the listed ones, and all of these are
\* halted when cpu_startup_done is set.
THEOREM ListedStart == Spec => []OnlyListedStart
<1>1. Inv => OnlyListedStart
  <2> SUFFICES ASSUME Inv PROVE OnlyListedStart OBVIOUS
  <2>1. UnlistedInv BY DEF Inv
  <2>2. ASSUME cpu_startup_done = 1, NEW p \in Listed PROVE ap[p] = "halted"
    <3>1. pc = "done" /\ ~Starting /\ Visited /\ madt \in Madts
      BY <2>2 DEF Inv, WalkInv, TypeOK, Starting
    <3>2. PICK i \in DOMAIN madt : /\ madt[i].type = 0 /\ madt[i].enabled
                                   /\ madt[i].id = p /\ p # BootProcessor
      BY DEF Listed
    <3>3. Wanted(madt[i]) BY <3>2 DEF Wanted, ACPI_MADT_TYPE_LOCAL_APIC
    <3>4. StartOf(madt, i) < EndOf(madt)
      <4>1. Len(madt) \in Nat /\ DOMAIN madt = 1 .. Len(madt) BY <3>1, MadtType
      <4>2. i \in 1 .. (Len(madt) + 1) /\ Len(madt) + 1 \in 1 .. (Len(madt) + 1) /\ i < Len(madt) + 1
        BY <4>1
      <4> QED BY <4>2, <3>1, StartFacts DEF EndOf
    <3> QED BY <3>1, <3>2, <3>3, <3>4 DEF Visited, Reached
  <2> QED BY <2>1, <2>2 DEF OnlyListedStart, UnlistedInv
<1> QED BY <1>1, InvHolds, PTL

\* acpi.c: tables of any length, with one byte changed to any other value anywhere, or
\* missing, keep the boot processor from using the MADT.
THEOREM DamageStops == Spec => []CorruptionStops
<1>1. Inv => CorruptionStops
  <2> SUFFICES ASSUME Inv, NEW table \in {rsdtp, machine.rsdt, fadt, machine.dsdt, madt_table},
                      Damaged(table)
               PROVE  ioapic = 0 /\ \A p \in Processors : ap[p] = "off"
    BY DEF CorruptionStops
  <2>1. machine \in Machine BY SmpAssumption DEF Inv, TypeOK
  <2>6. table \in Seq(Bytes) BY <2>1, TablesType
  <2>7. ~Valid(table) BY <2>6, DamagedNotValid
  <2>8. ~AllValid BY <2>7 DEF AllValid
  <2>9. Quiet BY <2>8 DEF Inv, ChecksInv
  <2> QED BY <2>9 DEF Quiet
<1> QED BY <1>1, InvHolds, PTL
=============================================================================
