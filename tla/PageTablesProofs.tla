--------------------------- MODULE PageTablesProofs ---------------------------
(***************************************************************************)
(* What holds of the page tables for every size of a table and every set   *)
(* of pages: they are trees, they keep the window and the processes apart, *)
(* they do what they are asked to do, and they implement PageMap.          *)
(*                                                                         *)
(* The invariant gives every page placed a level and every table an owner, *)
(* the kernel or a user.  The order of the module is                       *)
(*   numbers           an address is its four digits, and the macros and   *)
(*                     the processor read the same ones;                   *)
(*   tables            what an entry is, and what a walk finds;            *)
(*   get_page          a missing table is linked in below its parent, and  *)
(*                     no walk sees it;                                    *)
(*   map, unmap,       each is a change of one walk, of none, or of those  *)
(*   directories,      of a stack, and keeps levels and owners;            *)
(*   stacks                                                                *)
(*   the user          whatever a user reaches is no table, and no other   *)
(*                     user's;                                             *)
(*   the theorems.                                                         *)
(***************************************************************************)
EXTENDS PageTables, SequenceTheorems, WellFoundedInduction, TLAPS

-----------------------------------------------------------------------------
\* Numbers.

\* b goes q times into a, and r is left.
Divides(a, b, q, r) ==
    a \in Nat /\ b \in Nat /\ q \in Nat /\ r \in Nat /\ r < b /\ a = b * q + r

\* There is one way only to divide.
LEMMA DivUnique ==
    ASSUME NEW a, NEW b, NEW q, NEW r, Divides(a, b, q, r)
    PROVE  a \div b = q /\ a % b = r
<1>1. (b * q + r) \div b = q /\ (b * q + r) % b = r
  BY Z3 DEF Divides
<1> QED BY <1>1 DEF Divides

LEMMA DivMod ==
    ASSUME NEW a \in Nat, NEW b \in Nat, b > 0
    PROVE  Divides(a, b, a \div b, a % b)
<1>1. b * (a \div b) <= a /\ a < b * (a \div b) + b /\ a \div b \in Nat
  BY SMT
<1> DEFINE q == a \div b
           p == b * q
           r == a - p
<1>2. q \in Nat /\ p \in Nat /\ p <= a /\ a < p + b
  BY <1>1
<1> HIDE DEF p
<1>3. r \in Nat /\ r < b /\ a = p + r
  BY <1>2
<1> HIDE DEF q, r
<1>4. Divides(a, b, q, r)
  BY <1>2, <1>3 DEF Divides, p
<1>5. r = a % b
  BY <1>4, DivUnique
<1> QED BY <1>4, <1>5 DEF q

LEMMA NestedDiv ==
    ASSUME NEW a \in Nat, NEW b \in Nat, NEW c \in Nat, b > 0, c > 0
    PROVE  a \div (b * c) = (a \div b) \div c
<1> DEFINE q == a \div b
           r == a % b
           k == q \div c
           s == q % c
           B == b * c
           S == b * s + r
<1>1. q \in Nat /\ r \in Nat /\ r < b /\ a = b * q + r
  BY DivMod DEF Divides
<1> HIDE DEF q, r
<1>2. k \in Nat /\ s \in Nat /\ s < c /\ q = c * k + s
  BY <1>1, DivMod DEF Divides
<1> HIDE DEF k, s
<1>3. a = B * k + S
  <2>1. b * q = b * (c * k) + b * s
    BY <1>2
  <2>2. b * (c * k) = (b * c) * k
    BY <1>2
  <2> QED BY <1>1, <1>2, <2>1, <2>2
<1>4. B \in Nat /\ S \in Nat /\ S < B
  <2>1. PICK d \in Nat : c = s + 1 + d
    <3>1. c - s - 1 \in Nat
      BY <1>2
    <3> QED BY <3>1, <1>2
  <2>2. b * c = b * s + b + b * d
    BY <2>1, <1>2
  <2>3. b * d \in Nat /\ b * s \in Nat
    BY <2>1, <1>2
  <2> QED BY <1>1, <2>2, <2>3
<1> HIDE DEF B, S
<1>5. Divides(a, B, k, S)
  BY <1>2, <1>3, <1>4 DEF Divides
<1>6. a \div B = k
  BY <1>5, DivUnique
<1> QED BY <1>6 DEF q, k, B

-----------------------------------------------------------------------------
\* Addresses and their digits.

Addresses == {v \in Nat : v < RADIX * PML4_SPAN}

LEMMA Radix ==
    /\ RADIX \in Nat /\ RADIX > 2 /\ KERNEL \in Nat /\ KERNEL \in Index /\ KERNEL = RADIX - 1
    /\ PDPT_SPAN \in Nat /\ PDPT_SPAN > 0 /\ PML4_SPAN \in Nat /\ PML4_SPAN > 0
    /\ PDPT_SPAN = RADIX * RADIX /\ PML4_SPAN = RADIX * PDPT_SPAN
    /\ PML4_SPAN = PDPT_SPAN * RADIX
    /\ \A i : i \in Index <=> i \in Nat /\ i < RADIX
<1>1. RADIX \in Nat /\ RADIX > 2
  BY PageTablesAssumption
<1>2. RADIX * RADIX \in Nat /\ RADIX * RADIX > 0
  BY <1>1, Z3
<1>3. RADIX * (RADIX * RADIX) \in Nat /\ RADIX * (RADIX * RADIX) > 0
  <2> DEFINE P == RADIX * RADIX
  <2> HIDE DEF P
  <2>1. P \in Nat /\ P > 0
    BY <1>2 DEF P
  <2>2. RADIX * P \in Nat /\ RADIX * P > 0
    BY <1>1, <2>1, Z3
  <2> QED BY <2>2 DEF P
<1>4. PML4_SPAN = RADIX * PDPT_SPAN /\ PML4_SPAN = PDPT_SPAN * RADIX
  BY <1>1, Z3 DEF PML4_SPAN, PDPT_SPAN
<1>5. KERNEL \in Nat /\ KERNEL \in Index /\ KERNEL = RADIX - 1
  BY <1>1 DEF KERNEL, Index
<1>6. \A i : i \in Index <=> i \in Nat /\ i < RADIX
  BY <1>1 DEF Index
<1> QED BY <1>1, <1>2, <1>3, <1>4, <1>5, <1>6 DEF PDPT_SPAN

\* The quotients of an address by the number of entries, one after the other.
LEMMA Quotients ==
    ASSUME NEW v \in Nat, NEW a, NEW b, a = v \div RADIX, b = a \div RADIX
    PROVE  /\ a \in Nat /\ b \in Nat /\ b \div RADIX \in Nat
           /\ v \div PDPT_SPAN = b /\ v \div PML4_SPAN = b \div RADIX
<1>1. a \in Nat /\ b \in Nat /\ b \div RADIX \in Nat
  BY Radix, DivMod DEF Divides
<1>2. v \div (RADIX * RADIX) = b
  BY Radix, NestedDiv
<1>3. v \div (PDPT_SPAN * RADIX) = (v \div PDPT_SPAN) \div RADIX
  BY Radix, NestedDiv
<1> QED BY <1>1, <1>2, <1>3, Radix

\* Quotients stay in their bounds.
LEMMA QuotientBelow ==
    ASSUME NEW a, NEW b, NEW q, NEW r, NEW n \in Nat, Divides(a, b, q, r)
    PROVE  a < b * n <=> q < n
<1>0. a \in Nat /\ b \in Nat /\ q \in Nat /\ r \in Nat /\ r < b /\ a = b * q + r
  BY DEF Divides
<1>1. ASSUME q < n PROVE a < b * n
  <2>1. PICK d \in Nat : n = q + 1 + d
    <3>1. n - q - 1 \in Nat /\ n = q + 1 + (n - q - 1)
      BY <1>0, <1>1
    <3> QED BY <3>1
  <2>2. b * n = b * q + b + b * d
    BY <2>1, <1>0, Z3
  <2>3. b * d \in Nat /\ b * q \in Nat
    BY <1>0, <2>1
  <2> QED BY <1>0, <2>2, <2>3
<1>2. ASSUME n <= q PROVE b * n <= a
  <2>1. PICK d \in Nat : q = n + d
    <3>1. q - n \in Nat /\ q = n + (q - n)
      BY <1>0, <1>2
    <3> QED BY <3>1
  <2>2. b * q = b * n + b * d
    BY <2>1, <1>0, Z3
  <2>3. b * d \in Nat /\ b * n \in Nat
    BY <1>0, <2>1
  <2> QED BY <1>0, <2>2, <2>3
<1>3. b * n \in Nat
  BY <1>0
<1> QED BY <1>0, <1>1, <1>2, <1>3

\* v has the digits x, y, z, w.
Digits(v, x, y, z, w) ==
    \E a, b : /\ x \in Index /\ Divides(b, RADIX, x, y)
              /\ Divides(a, RADIX, b, z) /\ Divides(v, RADIX, a, w)

\* An address, digit by digit.
LEMMA Decomposed ==
    ASSUME NEW v \in Addresses
    PROVE  Digits(v, PML4(v), PDPT(v), PDE(v), PTE(v))
<1> DEFINE R == RADIX
           a == v \div R
           b == a \div R
           c == b \div R
<1>0. R \in Nat /\ R > 2 /\ v \in Nat /\ v < R * PML4_SPAN /\ PML4_SPAN \in Nat
  BY Radix DEF Addresses
<1>1. a \in Nat /\ b \in Nat /\ c \in Nat
  BY <1>0, Quotients
<1>2. v \div PDPT_SPAN = b /\ v \div PML4_SPAN = c
  BY <1>0, Quotients
<1>3. Divides(v, R, a, v % R) /\ Divides(a, R, b, a % R) /\ Divides(b, R, c, b % R)
  <2>1. R > 0 /\ \A n \in Nat : Divides(n, R, n \div R, n % R)
    BY <1>0, DivMod
  <2> HIDE DEF R
  <2> QED BY <1>0, <1>1, <2>1, Zenon
<1>4. c < R
  <2>1. Divides(v, PML4_SPAN, c, v % PML4_SPAN)
    BY <1>0, <1>2, DivMod, Radix
  <2>2. v < PML4_SPAN * R
    BY <1>0, Z3
  <2> QED BY <1>0, <2>1, <2>2, QuotientBelow
<1>5. c % R = c
  <2>1. Divides(c, R, 0, c)
    BY <1>0, <1>1, <1>4, Z3 DEF Divides
  <2> QED BY <2>1, DivUnique
<1>6. PTE(v) = v % R /\ PDE(v) = a % R /\ PDPT(v) = b % R /\ PML4(v) = c
  BY <1>2, <1>5 DEF PTE, PDE, PDPT, PML4
<1>7. c \in Index
  BY <1>1, <1>4, Radix
<1> QED BY <1>3, <1>6, <1>7 DEF Digits

\* Made of digits, an address has these digits.
LEMMA Composed ==
    ASSUME NEW v, NEW x, NEW y, NEW z, NEW w, Digits(v, x, y, z, w)
    PROVE  /\ v \in Addresses
           /\ PML4(v) = x /\ PDPT(v) = y /\ PDE(v) = z /\ PTE(v) = w
           /\ x \in Index /\ y \in Index /\ z \in Index /\ w \in Index
<1> DEFINE R == RADIX
<1>0. R \in Nat /\ R > 2 /\ PML4_SPAN \in Nat /\ PDPT_SPAN \in Nat
      /\ PML4_SPAN = R * PDPT_SPAN /\ PDPT_SPAN = R * R
  BY Radix
<1>1. PICK a, b : /\ x \in Index /\ Divides(b, R, x, y)
                  /\ Divides(a, R, b, z) /\ Divides(v, R, a, w)
  BY DEF Digits
<1>2. /\ a \in Nat /\ b \in Nat /\ v \in Nat /\ x \in Nat /\ x < R
      /\ x \in Index /\ y \in Index /\ z \in Index /\ w \in Index
  BY <1>1, Radix DEF Divides
<1>3. b \div R = x /\ b % R = y /\ a \div R = b /\ a % R = z /\ v \div R = a /\ v % R = w
  BY <1>1, DivUnique
<1>4. v \div PDPT_SPAN = b /\ v \div PML4_SPAN = x
  BY <1>2, <1>3, Quotients
<1>5. x % R = x
  <2>1. Divides(x, R, 0, x)
    BY <1>0, <1>2, Z3 DEF Divides
  <2> QED BY <2>1, DivUnique
<1>6. v < R * PML4_SPAN
  <2>1. b < R * R
    BY <1>0, <1>1, <1>2, QuotientBelow
  <2>2. a < R * PDPT_SPAN
    BY <1>0, <1>1, <2>1, QuotientBelow
  <2>3. v < R * PML4_SPAN
    BY <1>0, <1>1, <2>2, QuotientBelow
  <2> QED BY <2>3
<1> QED BY <1>2, <1>3, <1>4, <1>5, <1>6 DEF Addresses, PTE, PDE, PDPT, PML4

\* No two addresses have the same digits.
LEMMA DigitsDetermine ==
    ASSUME NEW v \in Addresses, NEW u \in Addresses,
           PML4(v) = PML4(u), PDPT(v) = PDPT(u), PDE(v) = PDE(u), PTE(v) = PTE(u)
    PROVE  v = u
<1>1. PICK a, b : /\ Divides(b, RADIX, PML4(v), PDPT(v))
                  /\ Divides(a, RADIX, b, PDE(v)) /\ Divides(v, RADIX, a, PTE(v))
  BY Decomposed DEF Digits
<1>2. PICK c, d : /\ Divides(d, RADIX, PML4(v), PDPT(v))
                  /\ Divides(c, RADIX, d, PDE(v)) /\ Divides(u, RADIX, c, PTE(v))
  BY Decomposed DEF Digits
<1>3. b = d
  BY <1>1, <1>2 DEF Divides
<1>4. a = c
  BY <1>1, <1>2, <1>3 DEF Divides
<1> QED BY <1>1, <1>2, <1>4 DEF Divides

\* The addresses that start with the digits x and y.
LEMMA RegionDigits ==
    ASSUME NEW x \in Index, NEW y \in Index, NEW p \in Nat, p < PDPT_SPAN
    PROVE  Digits(x * PML4_SPAN + y * PDPT_SPAN + p, x, y, p \div RADIX, p % RADIX)
<1> DEFINE R == RADIX
           b == R * x + y
           q == p \div R
           r == p % R
           a == R * b + q
           v == x * PML4_SPAN + y * PDPT_SPAN + p
<1>0. R \in Nat /\ R > 2 /\ x \in Nat /\ y \in Nat /\ y < R /\ p < R * R
  BY Radix
<1>1. b \in Nat /\ Divides(b, R, x, y)
  BY <1>0 DEF Divides
<1>2. Divides(p, R, q, r)
  BY <1>0, DivMod
<1>3. q \in Nat /\ q < R /\ r \in Nat /\ r < R /\ p = R * q + r
  BY <1>0, <1>2, QuotientBelow DEF Divides
<1> HIDE DEF q, r
<1>4. a \in Nat /\ Divides(a, R, b, q)
  BY <1>0, <1>1, <1>3 DEF Divides
<1>5. v = R * a + r
  <2>1. R * b = R * (R * x) + R * y
    BY <1>0, Z3
  <2>2. R * (R * b) = R * (R * (R * x)) + R * (R * y)
    BY <1>0, <2>1, Z3
  <2>3. R * a = R * (R * b) + R * q
    BY <1>0, <1>1, <1>3, Z3
  <2>4. x * PML4_SPAN = R * (R * (R * x))
    BY <1>0, Z3 DEF PML4_SPAN
  <2>5. y * PDPT_SPAN = R * (R * y)
    BY <1>0, Z3 DEF PDPT_SPAN
  <2>6. R * (R * (R * x)) \in Nat /\ R * (R * y) \in Nat /\ R * q \in Nat
    BY <1>0, <1>3
  <2> DEFINE X == x * PML4_SPAN
             Y == y * PDPT_SPAN
             Q == R * q
             A == R * a
  <2>7. X \in Nat /\ Y \in Nat /\ Q \in Nat
    BY <2>4, <2>5, <2>6
  <2>8. A = X + Y + Q
    BY <2>2, <2>3, <2>4, <2>5
  <2>9. p = Q + r
    BY <1>3
  <2>10. v = X + Y + p
    OBVIOUS
  <2> HIDE DEF X, Y, Q, A, v, a
  <2>11. v = A + r
    BY <2>7, <2>8, <2>9, <2>10, <1>3
  <2> QED BY <2>11 DEF A
<1>6. Divides(v, R, a, r)
  <2>1. R * a \in Nat
    BY <1>0, <1>4
  <2> HIDE DEF a, v
  <2> QED BY <1>0, <1>3, <1>4, <1>5, <2>1 DEF Divides
<1> HIDE DEF a, b, v
<1>7. Digits(v, x, y, q, r)
  BY <1>1, <1>4, <1>6 DEF Digits
<1> QED BY <1>7 DEF v, q, r

LEMMA Regions ==
    /\ KVIRTUAL = KERNEL * PML4_SPAN + (RADIX - 2) * PDPT_SPAN
    /\ PCI_VIRTUAL = KERNEL * PML4_SPAN + (RADIX - 1) * PDPT_SPAN
    /\ RADIX - 2 \in Index /\ RADIX - 1 \in Index
    /\ KVIRTUAL \in Nat /\ PCI_VIRTUAL \in Nat
<1> DEFINE P == PDPT_SPAN
           K == KERNEL * PML4_SPAN
<1>1. /\ RADIX \in Nat /\ RADIX > 2 /\ P \in Nat /\ KERNEL \in Nat /\ PML4_SPAN \in Nat
      /\ RADIX - 2 \in Index /\ RADIX - 1 \in Index
  BY Radix
<1>2. K \in Nat
  BY <1>1
<1>3. PICK n \in Nat : RADIX = n + 2 /\ RADIX - 2 = n /\ RADIX - 1 = n + 1
  <2>1. RADIX - 2 \in Nat /\ RADIX = (RADIX - 2) + 2 /\ RADIX - 1 = (RADIX - 2) + 1
    BY <1>1
  <2> QED BY <2>1
<1> HIDE DEF P, K
<1>4. (n + 1) * P = n * P + P /\ n * P \in Nat
  BY <1>1, <1>3, Z3
<1>5. KVIRTUAL = K + n * P /\ PCI_VIRTUAL = KVIRTUAL + P
  BY <1>3 DEF KVIRTUAL, PCI_VIRTUAL, K, P
<1>6. PCI_VIRTUAL = K + (n + 1) * P
  BY <1>1, <1>2, <1>4, <1>5
<1>7. KVIRTUAL \in Nat /\ PCI_VIRTUAL \in Nat
  BY <1>1, <1>2, <1>4, <1>5
<1> QED BY <1>1, <1>3, <1>5, <1>6, <1>7 DEF K, P

\* The window is region RADIX - 2 of the entry for the kernel.
LEMMA WindowDigits ==
    ASSUME NEW p \in Window
    PROVE  /\ p \in Nat
           /\ Digits(KVIRTUAL + p, KERNEL, RADIX - 2, p \div RADIX, p % RADIX)
<1>1. p \in Nat /\ p < PDPT_SPAN
  BY Radix DEF Window
<1>2. Digits(KERNEL * PML4_SPAN + (RADIX - 2) * PDPT_SPAN + p,
             KERNEL, RADIX - 2, p \div RADIX, p % RADIX)
  BY <1>1, Regions, Radix, RegionDigits
<1> QED BY <1>1, <1>2, Regions

\* The registers of devices are in the region after it.
LEMMA DeviceDigits ==
    ASSUME NEW a \in Devices
    PROVE  /\ DevicePage(a) \in Addresses
           /\ PML4(DevicePage(a)) = KERNEL /\ PDPT(DevicePage(a)) = RADIX - 1
<1> DEFINE n == a \div PAGE_SIZE
           p == n % PCI_SPAN
<1>0. n \in Nat
  <2>1. a \in Nat /\ PAGE_SIZE \in Nat /\ PAGE_SIZE > 0
    BY PageTablesAssumption
  <2> QED BY <2>1, DivMod DEF Divides
<1> HIDE DEF n
<1>1. p \in Nat /\ p < PDPT_SPAN
  <2>1. n \in Nat /\ PCI_SPAN \in Nat /\ PCI_SPAN > 0 /\ PCI_SPAN <= PDPT_SPAN
    BY <1>0, PageTablesAssumption, Radix
  <2>2. p \in Nat /\ p < PCI_SPAN
    BY <2>1, DivMod DEF Divides
  <2> HIDE DEF p
  <2> QED BY <2>1, <2>2, Radix
<1>2. DevicePage(a) = KERNEL * PML4_SPAN + (RADIX - 1) * PDPT_SPAN + p
  BY Regions DEF DevicePage, n
<1> HIDE DEF p
<1>3. Digits(KERNEL * PML4_SPAN + (RADIX - 1) * PDPT_SPAN + p,
             KERNEL, RADIX - 1, p \div RADIX, p % RADIX)
  BY <1>1, Regions, Radix, RegionDigits
<1>4. Digits(DevicePage(a), KERNEL, RADIX - 1, p \div RADIX, p % RADIX)
  BY <1>2, <1>3
<1> QED BY <1>4, Composed

\* What is below the entry for the kernel does not use it, and what uses it is
\* not below.
LEMMA BelowKernel ==
    ASSUME NEW v \in Addresses
    PROVE  PML4(v) = KERNEL <=> v >= KERNEL * PML4_SPAN
<1> DEFINE c == v \div PML4_SPAN
<1>1. v \in Nat /\ PML4_SPAN \in Nat /\ PML4_SPAN > 0 /\ KERNEL \in Nat /\ KERNEL = RADIX - 1
      /\ RADIX \in Nat /\ RADIX > 2 /\ v < RADIX * PML4_SPAN
  BY Radix DEF Addresses
<1>2. Divides(v, PML4_SPAN, c, v % PML4_SPAN)
  BY <1>1, DivMod
<1>3. c \in Nat
  BY <1>2 DEF Divides
<1>4. v < PML4_SPAN * RADIX => c < RADIX
  BY <1>1, <1>2, QuotientBelow
<1>5. v < PML4_SPAN * KERNEL <=> c < KERNEL
  BY <1>1, <1>2, QuotientBelow
<1>6. PML4_SPAN * RADIX = RADIX * PML4_SPAN /\ PML4_SPAN * KERNEL = KERNEL * PML4_SPAN
      /\ PML4_SPAN * KERNEL \in Nat
  BY <1>1, Z3
<1>7. c < RADIX
  BY <1>1, <1>4, <1>6
<1>8. PML4(v) = c
  <2>1. Divides(c, RADIX, 0, c)
    BY <1>1, <1>3, <1>7, Z3 DEF Divides
  <2>2. c % RADIX = c
    BY <2>1, DivUnique
  <2> QED BY <2>2 DEF PML4
<1> HIDE DEF c
<1> QED BY <1>1, <1>3, <1>5, <1>6, <1>7, <1>8

Stack == {StackPage(i) : i \in 0 .. (StackPages - 1)}

LEMMA StackFacts ==
    /\ StackPages \in Nat
    /\ \A i \in Nat : StackPage(i) \in Nat
    /\ \A i, j \in Nat : StackPage(i) = StackPage(j) => i = j
<1> DEFINE s == (STACK_TOP - STACK_SIZE) \div PAGE_SIZE
<1>1. PAGE_SIZE \in Nat /\ PAGE_SIZE > 0 /\ STACK_SIZE \in Nat /\ STACK_TOP - STACK_SIZE \in Nat
  BY PageTablesAssumption
<1>2. StackPages \in Nat /\ s \in Nat
  BY <1>1, DivMod DEF Divides, StackPages
<1> HIDE DEF s
<1>3. \A i : StackPage(i) = s + i
  BY DEF StackPage, s
<1> QED BY <1>2, <1>3

\* The pages of the stack are those of its bytes, but for the page of its top.
LEMMA StackBytes ==
    ASSUME NEW a \in (STACK_TOP - STACK_SIZE) .. (STACK_TOP - 1),
           a \div PAGE_SIZE < STACK_TOP \div PAGE_SIZE
    PROVE  a \div PAGE_SIZE \in Stack
<1> DEFINE low == STACK_TOP - STACK_SIZE
           s == low \div PAGE_SIZE
           c == a \div PAGE_SIZE
           n == StackPages
           k == PAGE_SIZE
<1>1. k \in Nat /\ k > 0 /\ STACK_TOP \in Nat /\ STACK_SIZE \in Nat /\ low \in Nat
      /\ low + STACK_SIZE = STACK_TOP /\ STACK_SIZE % k = 0
  BY PageTablesAssumption
<1>2. a \in Nat /\ low <= a
  BY <1>1
<1>3. Divides(STACK_SIZE, k, n, 0)
  BY <1>1, DivMod DEF StackPages
<1>4. Divides(low, k, s, low % k)
  BY <1>1, DivMod
<1>5. Divides(a, k, c, a % k)
  BY <1>1, <1>2, DivMod
<1>6. n \in Nat /\ s \in Nat /\ c \in Nat
  BY <1>3, <1>4, <1>5 DEF Divides
<1>7. c < STACK_TOP \div k
  OBVIOUS
<1> DEFINE r == low % k
<1> HIDE DEF low, s, c, n, k, r
<1>8. Divides(STACK_TOP, k, s + n, r)
  <2>1. STACK_SIZE = n * k + 0 /\ low = s * k + r /\ r \in Nat /\ r < k
    BY <1>3, <1>4 DEF Divides, r
  <2>2. n * k \in Nat /\ s * k \in Nat /\ (s + n) * k = s * k + n * k
    BY <1>1, <1>6, Z3
  <2>3. STACK_TOP = (s + n) * k + r
    BY <1>1, <2>1, <2>2
  <2> QED BY <1>1, <1>6, <2>1, <2>3 DEF Divides
<1>9. STACK_TOP \div k = s + n
  BY <1>1, <1>6, <1>8, DivUnique
<1>10. c < s + n
  BY <1>7, <1>9
<1>11. s <= c
  <2>1. a < k * s => low < k * s
    BY <1>1, <1>2, <1>6, Z3
  <2>2. a < k * s <=> c < s
    BY <1>1, <1>2, <1>5, <1>6, QuotientBelow
  <2>3. low < k * s <=> s < s
    BY <1>1, <1>4, <1>6, QuotientBelow
  <2> QED BY <1>6, <2>1, <2>2, <2>3
<1>12. c = StackPage(c - s) /\ c - s \in 0 .. (n - 1)
  <2>1. c = s + (c - s) /\ c - s \in 0 .. (n - 1)
    BY <1>6, <1>10, <1>11
  <2> QED BY <2>1 DEF StackPage, s, k, low
<1> QED BY <1>12 DEF Stack, c, n, k

LEMMA BelowFacts ==
    ASSUME NEW v \in Nat, v < KERNEL * PML4_SPAN
    PROVE  v \in Addresses /\ PML4(v) # KERNEL
<1>1. KERNEL * PML4_SPAN <= RADIX * PML4_SPAN
  <2>1. RADIX * PML4_SPAN = KERNEL * PML4_SPAN + PML4_SPAN
    BY Radix, Z3
  <2>2. KERNEL * PML4_SPAN \in Nat /\ PML4_SPAN \in Nat
    BY Radix
  <2> QED BY <2>1, <2>2
<1>2. KERNEL * PML4_SPAN \in Nat /\ RADIX * PML4_SPAN \in Nat
  BY Radix
<1>3. v \in Addresses
  BY <1>1, <1>2 DEF Addresses
<1>4. ~ (v >= KERNEL * PML4_SPAN)
  BY <1>2
<1> QED BY <1>3, <1>4, BelowKernel

LEMMA PageFacts ==
    /\ \A v \in HeapPages \cup UserPages \cup Stack :
          v \in Pages /\ v \in Addresses /\ PML4(v) # KERNEL
    /\ \A a \in Devices :
          DevicePage(a) \in Pages /\ DevicePage(a) \in Addresses /\ PML4(DevicePage(a)) = KERNEL
    /\ \A v \in Pages : v \in Addresses /\ (v \in KernelPages <=> PML4(v) = KERNEL)
    /\ \A p \in Window : KVIRTUAL + p \in Addresses /\ PML4(KVIRTUAL + p) = KERNEL
    /\ \A v \in Pages, p \in Window : v # KVIRTUAL + p
<1>1. ASSUME NEW v \in HeapPages \cup UserPages \cup Stack
      PROVE  v \in Pages /\ v \in Addresses /\ PML4(v) # KERNEL
  <2>1. v \in Pages
    BY DEF Pages, Stack
  <2>2. v \in Nat /\ v < KERNEL * PML4_SPAN
    <3>1. CASE v \in HeapPages \cup UserPages
      <4>1. v \in 0 .. (KERNEL * PML4_SPAN - 1) /\ KERNEL * PML4_SPAN \in Nat
        BY <3>1, PageTablesAssumption, Radix
      <4> QED BY <4>1
    <3>2. CASE v \in Stack
      <4>1. PICK i \in 0 .. (StackPages - 1) : v = StackPage(i)
        BY <3>2 DEF Stack
      <4>2. i \in Nat /\ StackPage(i) \in Nat
        BY StackFacts
      <4> QED BY <4>1, <4>2, PageTablesAssumption
    <3> QED BY <3>1, <3>2
  <2> QED BY <2>1, <2>2, BelowFacts
<1>2. ASSUME NEW a \in Devices
      PROVE  /\ DevicePage(a) \in Pages /\ DevicePage(a) \in Addresses
             /\ PML4(DevicePage(a)) = KERNEL /\ PDPT(DevicePage(a)) = RADIX - 1
  BY DeviceDigits DEF Pages
<1>3. ASSUME NEW v \in Pages PROVE v \in Addresses
  BY <1>1, <1>2 DEF Pages, Stack
<1>4. ASSUME NEW v \in Pages PROVE v \in KernelPages <=> PML4(v) = KERNEL
  BY <1>3, BelowKernel DEF KernelPages
<1>5. ASSUME NEW p \in Window
      PROVE  /\ KVIRTUAL + p \in Addresses /\ PML4(KVIRTUAL + p) = KERNEL
             /\ PDPT(KVIRTUAL + p) = RADIX - 2
  BY WindowDigits, Composed
<1>6. ASSUME NEW v \in Pages, NEW p \in Window PROVE v # KVIRTUAL + p
  <2>1. SUFFICES ASSUME v = KVIRTUAL + p PROVE FALSE
    OBVIOUS
  <2>2. PML4(v) = KERNEL /\ PDPT(v) = RADIX - 2
    BY <1>5, <2>1
  <2>3. PICK a \in Devices : v = DevicePage(a)
    BY <1>1, <2>2 DEF Pages, Stack
  <2>4. PDPT(v) = RADIX - 1
    BY <1>2, <2>3
  <2> QED BY <2>2, <2>4, Radix
<1> QED BY <1>1, <1>2, <1>3, <1>4, <1>5, <1>6

-----------------------------------------------------------------------------
\* Tables, and how a step finds them.

Table == [Index -> Entry]

\* The level of a page: 4 for a directory, 3 for a PDPT, 2 for a PDE, 1 for a
\* PTE, and 0 for a page that is no table.  `own` says of a table whether it is
\* the user's: a directory that is not the kernel's, and what hangs from it.
Levels(m, ds, lev) ==
    /\ m \in Seq(Table)
    /\ lev \in [Nat -> 0 .. 4]
    /\ \A t \in Nat : lev[t] # 0 => t \in 1 .. Len(m)
    /\ ds \subseteq Nat /\ BOOT \in ds
    /\ \A t \in Nat : t \in ds <=> lev[t] = 4

\* The entry i of table t leads to another table.
Links(m, lev, t, i) == t \in Nat /\ i \in Index /\ lev[t] >= 2 /\ m[t][i].present

\* An entry leads one level down.
Descends(m, lev) ==
    \A t \in Nat, i \in Index :
        Links(m, lev, t, i) => lev[m[t][i].to] = lev[t] - 1

\* The entry for the kernel, in every directory.
KernelShared(m, ds) == \A d \in ds : m[d][KERNEL] = Leaf(2, FALSE)

\* No two entries lead to the same table, except those for the kernel.
OneParent(m, lev) ==
    \A s, t \in Nat, i, j \in Index :
        Links(m, lev, s, i) /\ Links(m, lev, t, j) /\ m[s][i].to = m[t][j].to =>
            (s = t /\ i = j) \/ (lev[s] = 4 /\ lev[t] = 4 /\ i = KERNEL /\ j = KERNEL)

\* What the user owns is for the user, and leads to what the user owns.
Owned(m, ds, lev, own) ==
    /\ own \in [Nat -> BOOLEAN]
    /\ ~ own[2]
    /\ \A d \in ds : own[d] <=> d # BOOT
    /\ \A t \in Nat, i \in Index :
          Links(m, lev, t, i) /\ ~ (lev[t] = 4 /\ i = KERNEL) =>
              /\ m[t][i].user <=> own[t]
              /\ own[m[t][i].to] <=> own[t]

Shaped(m, ds, lev, own) ==
    /\ Levels(m, ds, lev) /\ Descends(m, lev) /\ KernelShared(m, ds)
    /\ OneParent(m, lev) /\ Owned(m, ds, lev, own)

LEMMA EntryFacts ==
    /\ \A q \in Nat, u \in BOOLEAN :
          /\ Leaf(q, u) \in Entry /\ Leaf(q, u).present /\ Leaf(q, u).to = q
          /\ Leaf(q, u).user = u
    /\ \A q \in Nat : /\ Cleared(q) \in Entry /\ ~ Cleared(q).present
                      /\ Cleared(q).user = FALSE
    /\ Zeroed \in Table
    /\ \A i \in Index : Zeroed[i] = Cleared(0)
<1>1. \A q \in Nat : Cleared(q) \in Entry /\ ~ Cleared(q).present /\ Cleared(q).user = FALSE
  BY DEF Cleared, Entry
<1> QED BY <1>1 DEF Leaf, Entry, Zeroed, Table

LEMMA RawFacts ==
    ASSUME NEW n \in Nat
    PROVE  Raw(n) \in Entry /\ Raw(n).to = n \div PAGE_SIZE
<1>1. n \div PAGE_SIZE \in Nat
  <2>1. PAGE_SIZE \in Nat /\ PAGE_SIZE > 0
    BY PageTablesAssumption
  <2> QED BY <2>1, DivMod DEF Divides
<1> QED BY <1>1 DEF Raw, Entry

\* What the processor makes of an entry at the end of its way, if the way is
\* open to the user or not.
Seen(y, open) == IF y.present THEN Leaf(y.to, open /\ y.user) ELSE Nowhere

LEMMA SeenFacts ==
    /\ \A y \in Entry : ~ Seen(y, FALSE).user
    /\ \A q \in Nat, u \in BOOLEAN : Seen(Leaf(q, u), u) = Leaf(q, u)
<1>1. \A q, u : Leaf(q, u).user = u /\ Leaf(q, u).to = q /\ Leaf(q, u).present
  BY DEF Leaf
<1>2. ~ Nowhere.user
  BY DEF Nowhere, Cleared
<1>3. \A q \in Nat, u \in BOOLEAN : (u /\ u) = u
  OBVIOUS
<1> QED BY <1>1, <1>2, <1>3 DEF Seen

LEMMA SlotTyped ==
    ASSUME NEW m \in Seq(Table), NEW t \in 1 .. Len(m), NEW i \in Index
    PROVE  /\ m[t] \in Table /\ m[t][i] \in Entry
           /\ m[t][i].present \in BOOLEAN /\ m[t][i].to \in Nat /\ m[t][i].user \in BOOLEAN
BY DEF Table, Entry

\* m2 is m with one entry changed to x.
Wrote(m, t, i, x, m2) ==
    /\ m2 \in Seq(Table) /\ Len(m2) = Len(m)
    /\ m2[t][i] = x
    /\ \A s \in 1 .. Len(m), j \in Index : s # t \/ j # i => m2[s][j] = m[s][j]

LEMMA WriteEntry ==
    ASSUME NEW m \in Seq(Table), NEW t \in 1 .. Len(m), NEW i \in Index, NEW x \in Entry
    PROVE  Wrote(m, t, i, x, [m EXCEPT ![t][i] = x])
<1> DEFINE m2 == [m EXCEPT ![t][i] = x]
<1>1. m2 = [m EXCEPT ![t] = [m[t] EXCEPT ![i] = x]]
  OBVIOUS
<1>2. m[t] \in Table /\ [m[t] EXCEPT ![i] = x] \in Table
  BY DEF Table
<1>3. m2 \in Seq(Table) /\ Len(m2) = Len(m)
  BY <1>1, <1>2
<1>4. m2[t] = [m[t] EXCEPT ![i] = x] /\ \A s \in 1 .. Len(m) : s # t => m2[s] = m[s]
  BY <1>1
<1>5. m2[t][i] = x /\ \A j \in Index : j # i => m2[t][j] = m[t][j]
  BY <1>2, <1>4 DEF Table
<1> QED BY <1>3, <1>4, <1>5 DEF Wrote

\* m2 is m with a new table at the end, empty, that an entry leads to now.
Linked(m, t, i, u, m2) ==
    /\ m2 \in Seq(Table) /\ Len(m2) = Len(m) + 1
    /\ m2[t][i] = Leaf(Len(m) + 1, u)
    /\ \A s \in 1 .. Len(m), j \in Index : s # t \/ j # i => m2[s][j] = m[s][j]
    /\ \A j \in Index : m2[Len(m) + 1][j] = Cleared(0)

LEMMA EnsureIs ==
    ASSUME NEW m \in Seq(Table), NEW t \in 1 .. Len(m), NEW i \in Index, NEW u \in BOOLEAN
    PROVE  /\ m[t][i].present => Ensure(m, t, i, u) = m
           /\ ~ m[t][i].present => Linked(m, t, i, u, Ensure(m, t, i, u))
<1>1. m[t][i].present => Ensure(m, t, i, u) = m
  BY DEF Ensure
<1> DEFINE a == Append(m, Zeroed)
           n == Len(m) + 1
           m2 == [a EXCEPT ![t][i] = Leaf(n, u)]
<1>2. /\ a \in Seq(Table) /\ Len(a) = n /\ n \in Nat /\ Len(m) \in Nat
      /\ a[n] = Zeroed /\ \A s \in 1 .. Len(m) : a[s] = m[s]
  BY EntryFacts
<1>3. ~ m[t][i].present => Ensure(m, t, i, u) = m2
  BY DEF Ensure, Directory
<1> HIDE DEF a
<1>4. t \in 1 .. Len(a) /\ Leaf(n, u) \in Entry /\ t # n
  BY <1>2, EntryFacts
<1>5. Wrote(a, t, i, Leaf(n, u), m2)
  BY <1>2, <1>4, WriteEntry
<1> HIDE DEF m2, n
<1>6. m2 \in Seq(Table) /\ Len(m2) = n /\ m2[t][i] = Leaf(n, u)
  BY <1>2, <1>5 DEF Wrote
<1>7. \A s \in 1 .. Len(m), j \in Index : s # t \/ j # i => m2[s][j] = m[s][j]
  <2> SUFFICES ASSUME NEW s \in 1 .. Len(m), NEW j \in Index, s # t \/ j # i
               PROVE  m2[s][j] = m[s][j]
    OBVIOUS
  <2>1. s \in 1 .. Len(a)
    BY <1>2 DEF n
  <2>2. m2[s][j] = a[s][j]
    BY <2>1, <1>5 DEF Wrote
  <2> QED BY <2>2, <1>2
<1>8. \A j \in Index : m2[n][j] = Cleared(0)
  <2> SUFFICES ASSUME NEW j \in Index PROVE m2[n][j] = Cleared(0)
    OBVIOUS
  <2>1. n \in 1 .. Len(a)
    BY <1>2 DEF n
  <2>2. m2[n][j] = a[n][j]
    BY <2>1, <1>4, <1>5 DEF Wrote
  <2> QED BY <2>2, <1>2, EntryFacts
<1> QED BY <1>1, <1>3, <1>6, <1>7, <1>8 DEF Linked, n

-----------------------------------------------------------------------------
\* The walk of the processor.

Walk(m, e, a, b, c, d) ==
    LET e3 == m[e][a]
        e2 == m[e3.to][b]
        e1 == m[e2.to][c]
        e0 == m[e1.to][d]
    IN  IF e3.present /\ e2.present /\ e1.present /\ e0.present
          THEN Leaf(e0.to, e3.user /\ e2.user /\ e1.user /\ e0.user)
        ELSE Nowhere

\* The digits the processor uses are those of the macros of paging.cpp.
LEMMA MacrosAreDigits ==
    ASSUME NEW v \in Nat
    PROVE  Digit(v, 0) = PTE(v) /\ Digit(v, 1) = PDE(v) /\ Digit(v, 2) = PDPT(v) /\ Digit(v, 3) = PML4(v)
<1>1. v \div 1 = v
  <2>1. Divides(v, 1, v, 0)
    BY DEF Divides
  <2> QED BY <2>1, DivUnique
<1>2. Digit(v, 0) = PTE(v)
  BY <1>1 DEF Digit, PTE
<1>3. Digit(v, 1) = PDE(v)
  BY DEF Digit, PDE
<1>4. Digit(v, 2) = PDPT(v)
  BY DEF Digit, PDPT, PDPT_SPAN
<1>5. Digit(v, 3) = PML4(v)
  BY DEF Digit, PML4, PML4_SPAN
<1> QED BY <1>2, <1>3, <1>4, <1>5

LEMMA TranslateIsWalk ==
    ASSUME NEW m, NEW e, NEW v \in Addresses
    PROVE  /\ Translate(m, e, v) = Walk(m, e, PML4(v), PDPT(v), PDE(v), PTE(v))
           /\ PML4(v) \in Index /\ PDPT(v) \in Index /\ PDE(v) \in Index /\ PTE(v) \in Index
<1>1. v \in Nat
  BY DEF Addresses
<1>2. PML4(v) \in Index /\ PDPT(v) \in Index /\ PDE(v) \in Index /\ PTE(v) \in Index
  BY Decomposed, Composed
<1>3. Translate(m, e, v) = Walk(m, e, PML4(v), PDPT(v), PDE(v), PTE(v))
  BY <1>1, MacrosAreDigits, Zenon DEF Translate, Walk
<1> QED BY <1>2, <1>3

\* Where the entries on the way of a walk lead, present or not.
Trail(m, e, a, b, c, p, q, r) ==
    m[e][a].to = p /\ m[p][b].to = q /\ m[q][c].to = r

LEMMA TrailExists ==
    ASSUME NEW m, NEW e, NEW a, NEW b, NEW c
    PROVE  \E p, q, r : Trail(m, e, a, b, c, p, q, r)
BY Zenon DEF Trail

LEMMA WalkStops ==
    ASSUME NEW m, NEW e, NEW a, NEW b, NEW c, NEW d, NEW p, NEW q, NEW r,
           Trail(m, e, a, b, c, p, q, r)
    PROVE  /\ ~ m[e][a].present => Walk(m, e, a, b, c, d) = Nowhere
           /\ ~ m[p][b].present => Walk(m, e, a, b, c, d) = Nowhere
           /\ ~ m[q][c].present => Walk(m, e, a, b, c, d) = Nowhere
           /\ ~ m[r][d].present => Walk(m, e, a, b, c, d) = Nowhere
BY Zenon DEF Walk, Trail

LEMMA WalkGoes ==
    ASSUME NEW m, NEW e, NEW a, NEW b, NEW c, NEW d, NEW p, NEW q, NEW r,
           Trail(m, e, a, b, c, p, q, r),
           m[e][a].present, m[p][b].present, m[q][c].present, m[r][d].present
    PROVE  Walk(m, e, a, b, c, d) =
             Leaf(m[r][d].to, m[e][a].user /\ m[p][b].user /\ m[q][c].user /\ m[r][d].user)
BY Zenon DEF Walk, Trail

LEMMA WalkSame ==
    ASSUME NEW m, NEW m2, NEW e, NEW a, NEW b, NEW c, NEW d, NEW p, NEW q, NEW r,
           Trail(m, e, a, b, c, p, q, r),
           m2[e][a] = m[e][a], m2[p][b] = m[p][b], m2[q][c] = m[q][c], m2[r][d] = m[r][d]
    PROVE  Walk(m2, e, a, b, c, d) = Walk(m, e, a, b, c, d)
BY Zenon DEF Walk, Trail

\* Down to a table at level 1 a walk stays in tables, one level down each time.
LEMMA StepDown ==
    ASSUME NEW m, NEW ds, NEW lev, Levels(m, ds, lev), Descends(m, lev),
           NEW s \in Nat, NEW j \in Index, lev[s] >= 2, m[s][j].present
    PROVE  /\ m[s][j].to \in 1 .. Len(m) /\ m[s][j].to \in Nat
           /\ lev[m[s][j].to] = lev[s] - 1
           /\ s \in 1 .. Len(m) /\ Links(m, lev, s, j)
<1>1. lev[s] \in 0 .. 4
  BY DEF Levels
<1>2. s \in 1 .. Len(m) /\ Links(m, lev, s, j)
  BY <1>1 DEF Levels, Links
<1>3. m[s][j].to \in Nat
  BY <1>2, SlotTyped DEF Levels
<1>4. lev[m[s][j].to] = lev[s] - 1
  BY <1>2 DEF Descends
<1>5. m[s][j].to \in 1 .. Len(m)
  BY <1>1, <1>3, <1>4 DEF Levels
<1> QED BY <1>2, <1>3, <1>4, <1>5

\* What a link does to the walks: nothing.
LEMMA LinkWalk ==
    ASSUME NEW m, NEW ds, NEW lev, Levels(m, ds, lev), Descends(m, lev),
           NEW t \in Nat, NEW i \in Index, lev[t] >= 2, ~ m[t][i].present,
           NEW u \in BOOLEAN, NEW m2, Linked(m, t, i, u, m2),
           NEW e \in ds, NEW a \in Index, NEW b \in Index, NEW c \in Index, NEW d \in Index
    PROVE  Walk(m2, e, a, b, c, d) = Walk(m, e, a, b, c, d)
<1> DEFINE n == Len(m) + 1
<1>0. /\ \A s \in Nat : lev[s] # 0 => s \in 1 .. Len(m)
      /\ \A s \in Nat : lev[s] \in 0 .. 4
      /\ e \in Nat /\ lev[e] = 4 /\ Len(m) \in Nat
  BY DEF Levels
<1>1. ASSUME NEW s \in Nat, NEW j \in Index, lev[s] # 0, s # t \/ j # i
      PROVE  m2[s][j] = m[s][j]
  BY <1>0, <1>1 DEF Linked
<1>2. m2[t][i].to = n /\ \A j \in Index : ~ m2[n][j].present
  <2>1. n \in Nat /\ 0 \in Nat
    BY <1>0
  <2> QED BY <2>1, EntryFacts DEF Linked
<1> HIDE DEF n
<1>3. PICK p, q, r : Trail(m, e, a, b, c, p, q, r)
  BY TrailExists
<1>4. PICK p2, q2, r2 : Trail(m2, e, a, b, c, p2, q2, r2)
  BY TrailExists
<1>5. /\ m[e][a].to = p /\ m[p][b].to = q /\ m[q][c].to = r
      /\ m2[e][a].to = p2 /\ m2[p2][b].to = q2 /\ m2[q2][c].to = r2
  BY <1>3, <1>4 DEF Trail
<1>6. CASE e = t /\ a = i
  <2>1. ~ m[e][a].present /\ ~ m2[p2][b].present
    BY <1>2, <1>5, <1>6
  <2> QED BY <2>1, <1>3, <1>4, WalkStops
<1>7. CASE ~ (e = t /\ a = i)
  <2>1. m2[e][a] = m[e][a] /\ p2 = p
    BY <1>0, <1>1, <1>5, <1>7
  <2>2. CASE ~ m[e][a].present
    BY <2>1, <2>2, <1>3, <1>4, WalkStops
  <2>3. CASE m[e][a].present
    <3>1. p \in Nat /\ lev[p] = 3
      BY <1>0, <1>5, <2>3, StepDown
    <3>2. CASE p = t /\ b = i
      <4>1. ~ m[p][b].present /\ ~ m2[q2][c].present
        BY <1>2, <1>5, <2>1, <3>2
      <4> QED BY <4>1, <1>3, <1>4, WalkStops
    <3>3. CASE ~ (p = t /\ b = i)
      <4>1. m2[p][b] = m[p][b] /\ q2 = q
        BY <1>1, <1>5, <2>1, <3>1, <3>3
      <4>2. CASE ~ m[p][b].present
        BY <2>1, <4>1, <4>2, <1>3, <1>4, WalkStops
      <4>3. CASE m[p][b].present
        <5>1. q \in Nat /\ lev[q] = 2
          BY <1>5, <3>1, <4>3, StepDown
        <5>2. CASE q = t /\ c = i
          <6>1. ~ m[q][c].present /\ ~ m2[r2][d].present
            BY <1>2, <1>5, <4>1, <5>2
          <6> QED BY <6>1, <1>3, <1>4, WalkStops
        <5>3. CASE ~ (q = t /\ c = i)
          <6>1. m2[q][c] = m[q][c] /\ r2 = r
            BY <1>1, <1>5, <4>1, <5>1, <5>3
          <6>2. CASE ~ m[q][c].present
            BY <4>1, <6>1, <6>2, <1>3, <1>4, WalkStops
          <6>3. CASE m[q][c].present
            <7>1. r \in Nat /\ lev[r] = 1
              BY <1>5, <5>1, <6>3, StepDown
            <7>2. r # t
              BY <7>1
            <7>3. m2[r][d] = m[r][d]
              BY <1>1, <7>1, <7>2
            <7> QED BY <1>3, <2>1, <4>1, <6>1, <7>3, WalkSame
          <6> QED BY <6>2, <6>3
        <5> QED BY <5>2, <5>3
      <4> QED BY <4>2, <4>3
    <3> QED BY <3>2, <3>3
  <2> QED BY <2>2, <2>3
<1> QED BY <1>6, <1>7

-----------------------------------------------------------------------------
\* What get_page does to the shape.

\* A step of get_page keeps the tables, their levels and owners, and the entries
\* that are present.
Grows(m, lev, own, m2, lev2, own2) ==
    /\ Len(m) <= Len(m2)
    /\ \A s \in 1 .. Len(m) : lev2[s] = lev[s] /\ own2[s] = own[s]

Keeps(m, lev, m2, lev2) ==
    \A s \in Nat, j \in Index :
        Links(m, lev, s, j) => Links(m2, lev2, s, j) /\ m2[s][j] = m[s][j]

SameWalks(m, ds, m2) ==
    \A e \in ds, v \in Addresses : Translate(m2, e, v) = Translate(m, e, v)

\* The entry for the kernel leads to page 2.
LEMMA KernelLink ==
    ASSUME NEW m, NEW ds, NEW lev, Levels(m, ds, lev), Descends(m, lev), KernelShared(m, ds),
           NEW d \in ds
    PROVE  /\ d \in Nat /\ d \in 1 .. Len(m) /\ lev[d] = 4
           /\ m[d][KERNEL] = Leaf(2, FALSE)
           /\ m[d][KERNEL].present /\ m[d][KERNEL].to = 2 /\ ~ m[d][KERNEL].user
           /\ Links(m, lev, d, KERNEL)
           /\ 2 \in 1 .. Len(m) /\ lev[2] = 3
<1>1. d \in Nat /\ lev[d] = 4
  BY DEF Levels
<1>2. d \in 1 .. Len(m)
  BY <1>1 DEF Levels
<1>3. Leaf(2, FALSE).present /\ Leaf(2, FALSE).to = 2 /\ Leaf(2, FALSE).user = FALSE
  BY EntryFacts
<1>4. m[d][KERNEL] = Leaf(2, FALSE)
  BY DEF KernelShared
<1>5. m[d][KERNEL].present /\ m[d][KERNEL].to = 2 /\ ~ m[d][KERNEL].user
  BY <1>3, <1>4, Zenon
<1>6. lev[d] >= 2 /\ KERNEL \in Index
  BY <1>1, Radix
<1>7. Links(m, lev, d, KERNEL)
  BY <1>1, <1>5, <1>6, Zenon DEF Links
<1>8. 2 \in 1 .. Len(m) /\ lev[2] = 3
  BY <1>1, <1>5, <1>6, StepDown
<1> QED BY <1>1, <1>2, <1>4, <1>5, <1>7, <1>8

LinkLevels(m, lev, t, lev2) == lev2 = [lev EXCEPT ![Len(m) + 1] = lev[t] - 1]
LinkOwners(m, own, u, own2) == own2 = [own EXCEPT ![Len(m) + 1] = u]

LEMMA LinkedLinks ==
    ASSUME NEW m, NEW ds, NEW lev, Levels(m, ds, lev),
           NEW t \in Nat, NEW i \in Index, lev[t] >= 2, ~ m[t][i].present,
           NEW u \in BOOLEAN, NEW m2, Linked(m, t, i, u, m2),
           NEW lev2, LinkLevels(m, lev, t, lev2)
    PROVE  /\ Len(m) + 1 \in Nat /\ t \in 1 .. Len(m) /\ lev[Len(m) + 1] = 0
           /\ \A s \in Nat : lev2[s] = IF s = Len(m) + 1 THEN lev[t] - 1 ELSE lev[s]
           /\ m2[t][i].to = Len(m) + 1 /\ m2[t][i].present /\ m2[t][i].user = u
           /\ Links(m2, lev2, t, i)
           /\ \A s \in Nat, j \in Index :
                 Links(m2, lev2, s, j) =>
                   \/ s = t /\ j = i
                   \/ (s # t \/ j # i) /\ Links(m, lev, s, j) /\ m2[s][j] = m[s][j]
           /\ \A s \in Nat, j \in Index :
                 Links(m, lev, s, j) => /\ s # t \/ j # i
                                        /\ Links(m2, lev2, s, j) /\ m2[s][j] = m[s][j]
<1> DEFINE n == Len(m) + 1
<1>0. /\ lev \in [Nat -> 0 .. 4] /\ Len(m) \in Nat /\ n \in Nat
      /\ \A s \in Nat : lev[s] # 0 => s \in 1 .. Len(m)
      /\ \A s \in Nat : lev[s] \in 0 .. 4
  BY DEF Levels
<1>1. t \in 1 .. Len(m) /\ lev[n] = 0 /\ t # n
  BY <1>0
<1>2. \A s \in Nat : lev2[s] = IF s = n THEN lev[t] - 1 ELSE lev[s]
  BY <1>0 DEF LinkLevels
<1>3. m2[t][i] = Leaf(n, u) /\ \A j \in Index : m2[n][j] = Cleared(0)
  BY DEF Linked
<1> HIDE DEF n
<1>4. m2[t][i].to = n /\ m2[t][i].present /\ m2[t][i].user = u
      /\ \A j \in Index : ~ m2[n][j].present
  BY <1>0, <1>3, EntryFacts
<1>5. Links(m2, lev2, t, i)
  BY <1>1, <1>2, <1>4 DEF Links
<1>6. ASSUME NEW s \in Nat, NEW j \in Index, Links(m2, lev2, s, j), ~ (s = t /\ j = i)
      PROVE  (s # t \/ j # i) /\ Links(m, lev, s, j) /\ m2[s][j] = m[s][j]
  <2>1. s # n
    BY <1>4, <1>6 DEF Links
  <2>2. lev[s] >= 2 /\ m2[s][j].present
    BY <1>2, <1>6, <2>1 DEF Links
  <2>3. s \in 1 .. Len(m)
    BY <1>0, <2>2
  <2>4. m2[s][j] = m[s][j]
    BY <1>6, <2>3 DEF Linked
  <2> QED BY <1>6, <2>2, <2>4 DEF Links
<1>7. ASSUME NEW s \in Nat, NEW j \in Index, Links(m, lev, s, j)
      PROVE  (s # t \/ j # i) /\ Links(m2, lev2, s, j) /\ m2[s][j] = m[s][j]
  <2>1. s # t \/ j # i
    BY <1>7 DEF Links
  <2>2. lev[s] >= 2 /\ s \in 1 .. Len(m) /\ s # n
    BY <1>0, <1>1, <1>7 DEF Links
  <2>3. m2[s][j] = m[s][j]
    BY <2>1, <2>2 DEF Linked
  <2> QED BY <1>2, <1>7, <2>1, <2>2, <2>3 DEF Links
<1> QED BY <1>0, <1>1, <1>2, <1>4, <1>5, <1>6, <1>7 DEF n

LEMMA LinkedShaped ==
    ASSUME NEW m, NEW ds, NEW lev, NEW own, Shaped(m, ds, lev, own),
           NEW t \in Nat, NEW i \in Index, lev[t] >= 2, ~ m[t][i].present,
           NEW u \in BOOLEAN, own[t] = u,
           NEW m2, Linked(m, t, i, u, m2),
           NEW lev2, LinkLevels(m, lev, t, lev2),
           NEW own2, LinkOwners(m, own, u, own2)
    PROVE  Shaped(m2, ds, lev2, own2) /\ Grows(m, lev, own, m2, lev2, own2)
<1> DEFINE n == Len(m) + 1
<1>0. /\ Levels(m, ds, lev) /\ Descends(m, lev) /\ KernelShared(m, ds)
      /\ OneParent(m, lev) /\ Owned(m, ds, lev, own)
  BY DEF Shaped
<1>1. /\ n \in Nat /\ t \in 1 .. Len(m) /\ lev[n] = 0
      /\ \A s \in Nat : lev2[s] = IF s = n THEN lev[t] - 1 ELSE lev[s]
      /\ m2[t][i].to = n /\ m2[t][i].present /\ m2[t][i].user = u
      /\ Links(m2, lev2, t, i)
  BY <1>0, LinkedLinks
<1>2. \A s \in Nat, j \in Index :
        Links(m2, lev2, s, j) =>
          \/ s = t /\ j = i
          \/ (s # t \/ j # i) /\ Links(m, lev, s, j) /\ m2[s][j] = m[s][j]
  BY <1>0, LinkedLinks
<1>3. /\ lev \in [Nat -> 0 .. 4] /\ Len(m) \in Nat /\ Len(m2) = n /\ n = Len(m) + 1
      /\ \A s \in Nat : lev[s] # 0 => s \in 1 .. Len(m)
      /\ \A s \in Nat : lev[s] \in 0 .. 4
      /\ ds \subseteq Nat /\ \A s \in Nat : s \in ds <=> lev[s] = 4
      /\ BOOT \in ds
  BY <1>0 DEF Levels, Linked
<1>4. /\ own \in [Nat -> BOOLEAN] /\ ~ own[2] /\ \A d \in ds : own[d] <=> d # BOOT
      /\ own2 \in [Nat -> BOOLEAN]
      /\ \A s \in Nat : own2[s] = IF s = n THEN u ELSE own[s]
  BY <1>0, <1>3 DEF Owned, LinkOwners
<1> HIDE DEF n
<1>5. Levels(m2, ds, lev2)
  <2>1. m2 \in Seq(Table)
    BY DEF Linked
  <2>2. lev2 \in [Nat -> 0 .. 4]
    <3>1. lev[t] - 1 \in 0 .. 4
      BY <1>3
    <3> QED BY <1>3, <3>1 DEF LinkLevels
  <2>3. \A s \in Nat : lev2[s] # 0 => s \in 1 .. Len(m2)
    BY <1>1, <1>3
  <2>4. \A s \in Nat : s \in ds <=> lev2[s] = 4
    <3>1. lev[t] - 1 # 4 /\ n \notin ds
      BY <1>1, <1>3
    <3> QED BY <1>1, <1>3, <3>1
  <2> QED BY <1>3, <2>1, <2>2, <2>3, <2>4 DEF Levels
<1>6. ASSUME NEW s \in Nat, NEW j \in Index, Links(m, lev, s, j)
      PROVE  /\ m[s][j].to \in Nat /\ m[s][j].to # n
             /\ s # n /\ lev2[s] = lev[s] /\ own2[s] = own[s]
             /\ lev2[m[s][j].to] = lev[m[s][j].to] /\ own2[m[s][j].to] = own[m[s][j].to]
             /\ lev[m[s][j].to] = lev[s] - 1
  <2>1. lev[s] >= 2 /\ m[s][j].present
    BY <1>6 DEF Links
  <2>2. m[s][j].to \in 1 .. Len(m) /\ s \in 1 .. Len(m) /\ lev[m[s][j].to] = lev[s] - 1
    BY <2>1, <1>0, StepDown
  <2> QED BY <1>1, <1>3, <1>4, <2>2
<1>7. t # n /\ lev2[t] = lev[t] /\ own2[t] = own[t]
  BY <1>1, <1>3, <1>4
<1>8. Descends(m2, lev2)
  <2> SUFFICES ASSUME NEW s \in Nat, NEW j \in Index, Links(m2, lev2, s, j)
               PROVE  lev2[m2[s][j].to] = lev2[s] - 1
    BY DEF Descends
  <2>1. CASE s = t /\ j = i
    <3>1. lev2[n] = lev[t] - 1 /\ m2[s][j].to = n
      BY <1>1, <2>1
    <3> QED BY <1>7, <2>1, <3>1
  <2>2. CASE Links(m, lev, s, j) /\ m2[s][j] = m[s][j]
    BY <1>6, <2>2
  <2> QED BY <1>2, <2>1, <2>2
<1>9. KernelShared(m2, ds)
  <2> SUFFICES ASSUME NEW d \in ds PROVE m2[d][KERNEL] = Leaf(2, FALSE)
    BY DEF KernelShared
  <2>1. m[d][KERNEL] = Leaf(2, FALSE) /\ d \in 1 .. Len(m) /\ m[d][KERNEL].present
    BY <1>0, KernelLink
  <2>2. d # t \/ KERNEL # i
    BY <2>1
  <2> QED BY <2>1, <2>2, Radix DEF Linked
<1>10. OneParent(m2, lev2)
  <2> SUFFICES ASSUME NEW s \in Nat, NEW r \in Nat, NEW j \in Index, NEW k \in Index,
                      Links(m2, lev2, s, j), Links(m2, lev2, r, k),
                      m2[s][j].to = m2[r][k].to
               PROVE  (s = r /\ j = k) \/ (lev2[s] = 4 /\ lev2[r] = 4 /\ j = KERNEL /\ k = KERNEL)
    BY DEF OneParent
  <2>0. ASSUME NEW x \in Nat, NEW y \in Index, Links(m2, lev2, x, y), ~ (x = t /\ y = i)
        PROVE  m2[x][y].to # n
    <3>1. Links(m, lev, x, y) /\ m2[x][y] = m[x][y]
      BY <1>2, <2>0
    <3> QED BY <3>1, <1>6
  <2>1. CASE s = t /\ j = i
    BY <1>1, <2>0, <2>1
  <2>2. CASE r = t /\ k = i
    BY <1>1, <2>0, <2>2
  <2>3. CASE /\ Links(m, lev, s, j) /\ m2[s][j] = m[s][j]
             /\ Links(m, lev, r, k) /\ m2[r][k] = m[r][k]
    <3>1. m[s][j].to = m[r][k].to
      BY <2>3
    <3>2. (s = r /\ j = k) \/ (lev[s] = 4 /\ lev[r] = 4 /\ j = KERNEL /\ k = KERNEL)
      BY <1>0, <2>3, <3>1 DEF OneParent
    <3> QED BY <1>6, <2>3, <3>2
  <2> QED BY <1>2, <2>1, <2>2, <2>3
<1>11. Owned(m2, ds, lev2, own2)
  <2>1. ~ own2[2]
    <3>1. 2 \in 1 .. Len(m)
      BY <1>0, <1>3, KernelLink
    <3>2. 2 # n
      BY <3>1, <1>3
    <3> QED BY <3>2, <1>4
  <2>2. \A d \in ds : own2[d] <=> d # BOOT
    <3>1. \A d \in ds : d # n /\ d \in Nat
      BY <1>1, <1>3
    <3> QED BY <3>1, <1>4
  <2>3. ASSUME NEW s \in Nat, NEW j \in Index, Links(m2, lev2, s, j),
               ~ (lev2[s] = 4 /\ j = KERNEL)
        PROVE  (m2[s][j].user <=> own2[s]) /\ (own2[m2[s][j].to] <=> own2[s])
    <3>1. CASE s = t /\ j = i
      <4>1. own2[n] = u /\ own2[t] = u
        BY <1>1, <1>4, <1>7
      <4> QED BY <3>1, <4>1, <1>1
    <3>2. CASE Links(m, lev, s, j) /\ m2[s][j] = m[s][j]
      <4>1. ~ (lev[s] = 4 /\ j = KERNEL)
        BY <1>6, <2>3, <3>2
      <4>2. (m[s][j].user <=> own[s]) /\ (own[m[s][j].to] <=> own[s])
        BY <1>0, <3>2, <4>1 DEF Owned
      <4> QED BY <4>2, <3>2, <1>6
    <3> QED BY <1>2, <2>3, <3>1, <3>2
  <2> QED BY <1>4, <2>1, <2>2, <2>3 DEF Owned
<1>12. Grows(m, lev, own, m2, lev2, own2)
  BY <1>1, <1>3, <1>4 DEF Grows
<1> QED BY <1>5, <1>8, <1>9, <1>10, <1>11, <1>12 DEF Shaped

\* What Ensure leaves: entry i of table t leads to a table of the level below.
Ensured(m, ds, lev, own, t, i, u, m2, lev2, own2) ==
    /\ Shaped(m2, ds, lev2, own2) /\ Grows(m, lev, own, m2, lev2, own2)
    /\ Keeps(m, lev, m2, lev2) /\ SameWalks(m, ds, m2)
    /\ Links(m2, lev2, t, i)
    /\ m2[t][i].to \in 1 .. Len(m2)
    /\ lev2[m2[t][i].to] = lev[t] - 1 /\ own2[m2[t][i].to] = u

LEMMA EnsureLinked ==
    ASSUME NEW m, NEW ds, NEW lev, NEW own, Shaped(m, ds, lev, own),
           NEW t \in Nat, NEW i \in Index, lev[t] >= 2, ~ m[t][i].present,
           NEW u \in BOOLEAN, own[t] = u,
           NEW m2, Linked(m, t, i, u, m2)
    PROVE  \E lev2, own2 : Ensured(m, ds, lev, own, t, i, u, m2, lev2, own2)
<1> DEFINE n == Len(m) + 1
<1>0. Levels(m, ds, lev) /\ Descends(m, lev) /\ Owned(m, ds, lev, own)
  BY DEF Shaped
<1>1. PICK lev2, own2 : LinkLevels(m, lev, t, lev2) /\ LinkOwners(m, own, u, own2)
  BY Zenon DEF LinkLevels, LinkOwners
<1>2. Shaped(m2, ds, lev2, own2) /\ Grows(m, lev, own, m2, lev2, own2)
  BY <1>1, LinkedShaped
<1>3. Keeps(m, lev, m2, lev2)
  BY <1>0, <1>1, LinkedLinks DEF Keeps
<1>4. Links(m2, lev2, t, i) /\ m2[t][i].to = n
      /\ n \in Nat /\ lev2[n] = lev[t] - 1
  BY <1>0, <1>1, LinkedLinks
<1>5. own2[n] = u /\ n \in 1 .. Len(m2)
  <2>1. own \in [Nat -> BOOLEAN] /\ Len(m2) = n
    BY <1>0 DEF Owned, Linked
  <2>2. Len(m) \in Nat
    BY <1>0 DEF Levels
  <2> QED BY <1>1, <1>4, <2>1, <2>2 DEF LinkOwners
<1> HIDE DEF n
<1>6. SameWalks(m, ds, m2)
  <2> SUFFICES ASSUME NEW e \in ds, NEW v \in Addresses
               PROVE  Translate(m2, e, v) = Translate(m, e, v)
    BY DEF SameWalks
  <2>1. /\ Translate(m, e, v) = Walk(m, e, PML4(v), PDPT(v), PDE(v), PTE(v))
        /\ Translate(m2, e, v) = Walk(m2, e, PML4(v), PDPT(v), PDE(v), PTE(v))
        /\ PML4(v) \in Index /\ PDPT(v) \in Index /\ PDE(v) \in Index /\ PTE(v) \in Index
    BY TranslateIsWalk
  <2>2. Walk(m2, e, PML4(v), PDPT(v), PDE(v), PTE(v)) = Walk(m, e, PML4(v), PDPT(v), PDE(v), PTE(v))
    BY <1>0, <2>1, LinkWalk
  <2> QED BY <2>1, <2>2
<1>7. Ensured(m, ds, lev, own, t, i, u, m2, lev2, own2)
  BY <1>2, <1>3, <1>4, <1>5, <1>6 DEF Ensured
<1> QED BY <1>7

\* get_page, one level: the entry leads to a table, and nothing that the
\* processor sees has changed.
LEMMA EnsureShaped ==
    ASSUME NEW m, NEW ds, NEW lev, NEW own, Shaped(m, ds, lev, own),
           NEW t \in Nat, NEW i \in Index, lev[t] >= 2,
           NEW u \in BOOLEAN, own[t] = u, lev[t] = 4 /\ i = KERNEL => ~ u
    PROVE  \E lev2, own2 : Ensured(m, ds, lev, own, t, i, u, Ensure(m, t, i, u), lev2, own2)
<1>0. Levels(m, ds, lev) /\ Descends(m, lev) /\ KernelShared(m, ds) /\ Owned(m, ds, lev, own)
  BY DEF Shaped
<1>1. m \in Seq(Table) /\ t \in 1 .. Len(m)
  BY <1>0 DEF Levels
<1>2. CASE ~ m[t][i].present
  <2>1. Linked(m, t, i, u, Ensure(m, t, i, u))
    BY <1>1, <1>2, EnsureIs
  <2> QED BY <1>2, <2>1, EnsureLinked
<1>3. CASE m[t][i].present
  <2>1. Ensure(m, t, i, u) = m
    BY <1>1, <1>3, EnsureIs
  <2>2. /\ Links(m, lev, t, i) /\ m[t][i].to \in 1 .. Len(m)
        /\ lev[m[t][i].to] = lev[t] - 1
    BY <1>0, <1>3, StepDown
  <2>3. own[m[t][i].to] = u
    <3>1. CASE lev[t] = 4 /\ i = KERNEL
      <4>1. t \in ds
        BY <1>0, <3>1 DEF Levels
      <4>2. m[t][KERNEL].to = 2
        BY <1>0, <4>1, KernelLink
      <4>3. ~ own[2] /\ own[2] \in BOOLEAN
        BY <1>0 DEF Owned
      <4> QED BY <3>1, <4>2, <4>3
    <3>2. CASE ~ (lev[t] = 4 /\ i = KERNEL)
      <4>1. own[m[t][i].to] <=> own[t]
        BY <1>0, <2>2, <3>2 DEF Owned
      <4>2. own[m[t][i].to] \in BOOLEAN
        BY <1>0, <2>2 DEF Owned
      <4> QED BY <4>1, <4>2
    <3> QED BY <3>1, <3>2
  <2>4. Grows(m, lev, own, m, lev, own) /\ Keeps(m, lev, m, lev) /\ SameWalks(m, ds, m)
    <3>1. Len(m) \in Nat
      BY <1>1
    <3> QED BY <3>1 DEF Grows, Keeps, SameWalks
  <2>5. Ensured(m, ds, lev, own, t, i, u, m, lev, own)
    BY <2>2, <2>3, <2>4 DEF Ensured
  <2> QED BY <2>1, <2>5
<1> QED BY <1>2, <1>3

-----------------------------------------------------------------------------
\* get_page, all levels.

\* The entries for v in directory d are there, and lead to table t.
Reaches(m, lev, d, v, t) ==
    \E p \in Nat, q \in Nat :
        /\ Links(m, lev, d, PML4(v)) /\ m[d][PML4(v)].to = p
        /\ Links(m, lev, p, PDPT(v)) /\ m[p][PDPT(v)].to = q
        /\ Links(m, lev, q, PDE(v)) /\ m[q][PDE(v)].to = t

\* What get_page leaves.
Found(m, ds, lev, own, d, v, u, m2, t, lev2, own2) ==
    /\ Shaped(m2, ds, lev2, own2) /\ Grows(m, lev, own, m2, lev2, own2)
    /\ SameWalks(m, ds, m2)
    /\ Reaches(m2, lev2, d, v, t) /\ t \in 1 .. Len(m2) /\ lev2[t] = 1 /\ own2[t] = u

LEMMA GrowsTransitive ==
    ASSUME NEW m1, NEW lev1, NEW own1, NEW m2, NEW lev2, NEW own2, NEW m3, NEW lev3, NEW own3,
           NEW ds, Len(m1) \in Nat, Len(m2) \in Nat, Len(m3) \in Nat,
           Grows(m1, lev1, own1, m2, lev2, own2), Grows(m2, lev2, own2, m3, lev3, own3),
           SameWalks(m1, ds, m2), SameWalks(m2, ds, m3)
    PROVE  Grows(m1, lev1, own1, m3, lev3, own3) /\ SameWalks(m1, ds, m3)
<1>1. Grows(m1, lev1, own1, m3, lev3, own3)
  BY DEF Grows
<1>2. SameWalks(m1, ds, m3)
  BY DEF SameWalks
<1> QED BY <1>1, <1>2

LEMMA GetPageFinds ==
    ASSUME NEW m, NEW ds, NEW lev, NEW own, Shaped(m, ds, lev, own),
           NEW d \in ds, NEW v \in Addresses, NEW u \in BOOLEAN,
           u <=> d # BOOT, u => PML4(v) # KERNEL
    PROVE  \E lev2, own2 :
             Found(m, ds, lev, own, d, v, u, GetPage(m, d, v, u).mem, GetPage(m, d, v, u).table,
                   lev2, own2)
<1> DEFINE a == PML4(v)
           b == PDPT(v)
           c == PDE(v)
           m4 == Ensure(m, d, a, u)
           p == m4[d][a].to
           m3 == Ensure(m4, p, b, u)
           q == m3[p][b].to
           m2 == Ensure(m3, q, c, u)
           t == m2[q][c].to
<1>0. GetPage(m, d, v, u).mem = m2 /\ GetPage(m, d, v, u).table = t
  BY DEF GetPage
<1>1. a \in Index /\ b \in Index /\ c \in Index
  BY TranslateIsWalk
<1>2. d \in Nat /\ lev[d] = 4 /\ own[d] = u /\ (a = KERNEL => ~ u)
  <2>1. d \in Nat /\ lev[d] = 4
    BY DEF Shaped, Levels
  <2>2. own[d] \in BOOLEAN /\ (own[d] <=> d # BOOT)
    BY <2>1 DEF Shaped, Owned
  <2> QED BY <2>1, <2>2
<1> HIDE DEF a, b, c
<1>3. PICK lev4, own4 : Ensured(m, ds, lev, own, d, a, u, m4, lev4, own4)
  BY <1>1, <1>2, EnsureShaped
<1> HIDE DEF m4
<1>4. /\ Shaped(m4, ds, lev4, own4) /\ Grows(m, lev, own, m4, lev4, own4) /\ SameWalks(m, ds, m4)
      /\ Links(m4, lev4, d, a) /\ p \in Nat /\ p \in 1 .. Len(m4) /\ lev4[p] = 3 /\ own4[p] = u
  BY <1>2, <1>3 DEF Ensured
<1> HIDE DEF p
<1>5. PICK lev3, own3 : Ensured(m4, ds, lev4, own4, p, b, u, m3, lev3, own3)
  BY <1>1, <1>4, EnsureShaped
<1> HIDE DEF m3
<1>6. /\ Shaped(m3, ds, lev3, own3) /\ Grows(m4, lev4, own4, m3, lev3, own3) /\ SameWalks(m4, ds, m3)
      /\ Links(m3, lev3, p, b) /\ q \in Nat /\ q \in 1 .. Len(m3) /\ lev3[q] = 2 /\ own3[q] = u
      /\ Keeps(m4, lev4, m3, lev3)
  BY <1>4, <1>5 DEF Ensured
<1> HIDE DEF q
<1>7. PICK lev2, own2 : Ensured(m3, ds, lev3, own3, q, c, u, m2, lev2, own2)
  BY <1>1, <1>6, EnsureShaped
<1> HIDE DEF m2
<1>8. /\ Shaped(m2, ds, lev2, own2) /\ Grows(m3, lev3, own3, m2, lev2, own2) /\ SameWalks(m3, ds, m2)
      /\ Links(m2, lev2, q, c) /\ t \in Nat /\ t \in 1 .. Len(m2) /\ lev2[t] = 1 /\ own2[t] = u
      /\ Keeps(m3, lev3, m2, lev2)
  BY <1>6, <1>7 DEF Ensured
<1>9. Links(m2, lev2, d, a) /\ m2[d][a].to = p
  <2>1. Links(m3, lev3, d, a) /\ m3[d][a] = m4[d][a]
    BY <1>1, <1>2, <1>4, <1>6 DEF Keeps
  <2>2. Links(m2, lev2, d, a) /\ m2[d][a] = m3[d][a]
    BY <1>1, <1>2, <1>8, <2>1 DEF Keeps
  <2> QED BY <2>1, <2>2 DEF p
<1>10. Links(m2, lev2, p, b) /\ m2[p][b].to = q
  <2>1. Links(m2, lev2, p, b) /\ m2[p][b] = m3[p][b]
    BY <1>1, <1>4, <1>6, <1>8 DEF Keeps
  <2> QED BY <2>1 DEF q
<1>11. Reaches(m2, lev2, d, v, t)
  BY <1>4, <1>6, <1>8, <1>9, <1>10 DEF Reaches, a, b, c
<1>12. Grows(m, lev, own, m2, lev2, own2) /\ SameWalks(m, ds, m2)
  <2>0. Len(m) \in Nat /\ Len(m2) \in Nat /\ Len(m3) \in Nat /\ Len(m4) \in Nat
    BY <1>4, <1>6, <1>8 DEF Shaped, Levels
  <2>1. Grows(m, lev, own, m3, lev3, own3) /\ SameWalks(m, ds, m3)
    BY <2>0, <1>4, <1>6, GrowsTransitive
  <2> QED BY <2>0, <2>1, <1>8, GrowsTransitive
<1> HIDE DEF t
<1>13. Found(m, ds, lev, own, d, v, u, m2, t, lev2, own2)
  BY <1>8, <1>11, <1>12 DEF Found
<1> QED BY <1>0, <1>13

-----------------------------------------------------------------------------
\* The entry of a page, at the end of the way.

\* All directories see the same in the entry for the kernel.
LEMMA KernelSeenAlike ==
    ASSUME NEW m, NEW ds, KernelShared(m, ds), NEW d \in ds, NEW e \in ds,
           NEW v \in Addresses, PML4(v) = KERNEL
    PROVE  Translate(m, e, v) = Translate(m, d, v)
<1>1. m[e][KERNEL] = m[d][KERNEL]
  BY DEF KernelShared
<1>2. Walk(m, e, KERNEL, PDPT(v), PDE(v), PTE(v)) = Walk(m, d, KERNEL, PDPT(v), PDE(v), PTE(v))
  BY <1>1, Zenon DEF Walk
<1> QED BY <1>2, TranslateIsWalk

\* Two ways that lead to the same table are the same way, except that all
\* directories share the part of the kernel.
LEMMA OneWay ==
    ASSUME NEW m, NEW ds, NEW lev, Levels(m, ds, lev), Descends(m, lev), OneParent(m, lev),
           NEW d \in ds, NEW e \in ds, NEW v, NEW w, NEW t,
           Reaches(m, lev, d, v, t), Reaches(m, lev, e, w, t)
    PROVE  /\ PML4(v) = PML4(w) /\ PDPT(v) = PDPT(w) /\ PDE(v) = PDE(w)
           /\ d = e \/ PML4(v) = KERNEL
<1>1. PICK p \in Nat, q \in Nat :
         /\ Links(m, lev, d, PML4(v)) /\ m[d][PML4(v)].to = p
         /\ Links(m, lev, p, PDPT(v)) /\ m[p][PDPT(v)].to = q
         /\ Links(m, lev, q, PDE(v)) /\ m[q][PDE(v)].to = t
  BY DEF Reaches
<1>2. PICK p2 \in Nat, q2 \in Nat :
         /\ Links(m, lev, e, PML4(w)) /\ m[e][PML4(w)].to = p2
         /\ Links(m, lev, p2, PDPT(w)) /\ m[p2][PDPT(w)].to = q2
         /\ Links(m, lev, q2, PDE(w)) /\ m[q2][PDE(w)].to = t
  BY DEF Reaches
<1>3. \A s \in Nat : lev[s] \in 0 .. 4
  BY DEF Levels
<1>4. d \in Nat /\ e \in Nat /\ lev[d] = 4 /\ lev[e] = 4
  BY DEF Levels
<1>5. lev[p] = 3 /\ lev[p2] = 3
  BY <1>1, <1>2, <1>4 DEF Descends, Links
<1>6. lev[q] = 2 /\ lev[q2] = 2
  BY <1>1, <1>2, <1>5 DEF Descends, Links
<1>7. \A s, r \in Nat : \A i, j :
        Links(m, lev, s, i) /\ Links(m, lev, r, j) /\ m[s][i].to = m[r][j].to =>
            (s = r /\ i = j) \/ (lev[s] = 4 /\ lev[r] = 4 /\ i = KERNEL /\ j = KERNEL)
  BY DEF OneParent, Links
<1>8. q = q2 /\ PDE(v) = PDE(w)
  <2>1. m[q][PDE(v)].to = m[q2][PDE(w)].to /\ lev[q] # 4
    BY <1>1, <1>2, <1>6
  <2> QED BY <1>1, <1>2, <1>7, <2>1, Zenon
<1>9. p = p2 /\ PDPT(v) = PDPT(w)
  <2>1. m[p][PDPT(v)].to = m[p2][PDPT(w)].to /\ lev[p] # 4
    BY <1>1, <1>2, <1>5, <1>8
  <2> QED BY <1>1, <1>2, <1>7, <2>1, Zenon
<1>10. (d = e /\ PML4(v) = PML4(w)) \/ (PML4(v) = KERNEL /\ PML4(w) = KERNEL)
  <2>1. m[d][PML4(v)].to = m[e][PML4(w)].to
    BY <1>1, <1>2, <1>9
  <2> QED BY <1>1, <1>2, <1>4, <1>7, <2>1, Zenon
<1> QED BY <1>8, <1>9, <1>10

\* What the processor makes of the entry of a page.
LEMMA Reached ==
    ASSUME NEW m, NEW ds, NEW lev, NEW own, Shaped(m, ds, lev, own),
           NEW d \in ds, NEW v \in Addresses, NEW t, Reaches(m, lev, d, v, t)
    PROVE  /\ t \in Nat /\ lev[t] = 1 /\ t \in 1 .. Len(m)
           /\ Translate(m, d, v) = Seen(m[t][PTE(v)], own[t])
<1>0. Levels(m, ds, lev) /\ Descends(m, lev) /\ Owned(m, ds, lev, own)
  BY DEF Shaped
<1> DEFINE a == PML4(v)
           b == PDPT(v)
           c == PDE(v)
           i == PTE(v)
<1>1. PICK p \in Nat, q \in Nat :
         /\ Links(m, lev, d, a) /\ m[d][a].to = p
         /\ Links(m, lev, p, b) /\ m[p][b].to = q
         /\ Links(m, lev, q, c) /\ m[q][c].to = t
  BY DEF Reaches
<1>2. a \in Index /\ b \in Index /\ c \in Index /\ i \in Index
      /\ Translate(m, d, v) = Walk(m, d, a, b, c, i)
  BY TranslateIsWalk
<1> HIDE DEF a, b, c, i
<1>3. d \in Nat /\ lev[d] = 4
  BY <1>0 DEF Levels
<1>4. lev[p] = 3
  BY <1>0, <1>1, <1>2, <1>3 DEF Descends
<1>5. lev[q] = 2
  BY <1>0, <1>1, <1>2, <1>4 DEF Descends
<1>6. t \in Nat /\ lev[t] = 1 /\ t \in 1 .. Len(m)
  <2>1. m[q][c].present
    BY <1>1 DEF Links
  <2>2. /\ m[q][c].to \in 1 .. Len(m) /\ m[q][c].to \in Nat
        /\ lev[m[q][c].to] = lev[q] - 1
    BY <1>0, <1>2, <1>5, <2>1, StepDown
  <2> QED BY <1>1, <1>5, <2>2
<1>7. Trail(m, d, a, b, c, p, q, t) /\ m[d][a].present /\ m[p][b].present /\ m[q][c].present
  BY <1>1 DEF Trail, Links
<1>8. ~ m[t][i].present => Translate(m, d, v) = Nowhere
  BY <1>2, <1>7, WalkStops
<1>9. m[t][i].present =>
        Translate(m, d, v) =
          Leaf(m[t][i].to, m[d][a].user /\ m[p][b].user /\ m[q][c].user /\ m[t][i].user)
  BY <1>2, <1>7, WalkGoes
<1>10. /\ m[d][a].user \in BOOLEAN /\ m[p][b].user \in BOOLEAN /\ m[q][c].user \in BOOLEAN
       /\ m[t][i].user \in BOOLEAN
  <2>1. m \in Seq(Table) /\ d \in 1 .. Len(m) /\ p \in 1 .. Len(m) /\ q \in 1 .. Len(m)
    BY <1>0, <1>3, <1>4, <1>5 DEF Levels
  <2> QED BY <2>1, <1>2, <1>6, SlotTyped
<1>11. own[t] <=> m[d][a].user /\ m[p][b].user /\ m[q][c].user
  <2>1. (m[q][c].user <=> own[q]) /\ (own[t] <=> own[q])
    BY <1>0, <1>1, <1>2, <1>5 DEF Owned
  <2>2. (m[p][b].user <=> own[p]) /\ (own[q] <=> own[p])
    BY <1>0, <1>1, <1>2, <1>4 DEF Owned
  <2>3. a = KERNEL => ~ own[p]
    <3> SUFFICES ASSUME a = KERNEL PROVE ~ own[p]
      OBVIOUS
    <3>1. m[d][KERNEL].to = 2
      BY KernelLink DEF Shaped
    <3>2. p = 2
      BY <1>1, <3>1
    <3> QED BY <3>2, <1>0 DEF Owned
  <2>4. a # KERNEL => (m[d][a].user <=> own[d]) /\ (own[p] <=> own[d])
    BY <1>0, <1>1, <1>2, <1>3 DEF Owned
  <2> QED BY <2>1, <2>2, <2>3, <2>4
<1>12. (m[d][a].user /\ m[p][b].user /\ m[q][c].user /\ m[t][i].user)
         = (own[t] /\ m[t][i].user)
  BY <1>10, <1>11
<1> QED BY <1>6, <1>8, <1>9, <1>12 DEF i, Seen

\* Where there is no way the processor finds nothing.
LEMMA Unreached ==
    ASSUME NEW m, NEW ds, NEW lev, Levels(m, ds, lev), Descends(m, lev),
           NEW m2, \A s \in Nat, j \in Index : lev[s] >= 2 => m2[s][j] = m[s][j],
           NEW d \in ds, NEW v \in Addresses
    PROVE  \/ Translate(m, d, v) = Nowhere /\ Translate(m2, d, v) = Nowhere
           \/ \E t \in Nat : /\ Reaches(m, lev, d, v, t) /\ lev[t] = 1
                             /\ m2[t][PTE(v)] = m[t][PTE(v)] =>
                                  Translate(m2, d, v) = Translate(m, d, v)
<1> DEFINE a == PML4(v)
           b == PDPT(v)
           c == PDE(v)
           i == PTE(v)
<1>2. /\ a \in Index /\ b \in Index /\ c \in Index /\ i \in Index
      /\ Translate(m, d, v) = Walk(m, d, a, b, c, i)
      /\ Translate(m2, d, v) = Walk(m2, d, a, b, c, i)
  BY TranslateIsWalk
<1>3. d \in Nat /\ lev[d] = 4
  BY DEF Levels
<1>4. \A t : Reaches(m, lev, d, v, t) <=>
        \E p \in Nat, q \in Nat :
          /\ Links(m, lev, d, a) /\ m[d][a].to = p
          /\ Links(m, lev, p, b) /\ m[p][b].to = q
          /\ Links(m, lev, q, c) /\ m[q][c].to = t
  BY Zenon DEF Reaches
<1> HIDE DEF a, b, c, i
<1>5. PICK p, q, r : Trail(m, d, a, b, c, p, q, r)
  BY TrailExists
<1>6. PICK p2, q2, r2 : Trail(m2, d, a, b, c, p2, q2, r2)
  BY TrailExists
<1>7. /\ m[d][a].to = p /\ m[p][b].to = q /\ m[q][c].to = r
      /\ m2[d][a].to = p2 /\ m2[p2][b].to = q2 /\ m2[q2][c].to = r2
  BY <1>5, <1>6 DEF Trail
<1>8. m2[d][a] = m[d][a] /\ p2 = p
  BY <1>2, <1>3, <1>7
<1>9. CASE ~ m[d][a].present
  BY <1>2, <1>5, <1>6, <1>8, <1>9, WalkStops
<1>10. CASE m[d][a].present
  <2>1. p \in Nat /\ lev[p] = 3 /\ Links(m, lev, d, a)
    BY <1>2, <1>3, <1>7, <1>10, StepDown
  <2>2. m2[p][b] = m[p][b] /\ q2 = q
    BY <1>2, <1>7, <1>8, <2>1
  <2>3. CASE ~ m[p][b].present
    BY <1>2, <1>5, <1>6, <1>8, <2>2, <2>3, WalkStops
  <2>4. CASE m[p][b].present
    <3>1. q \in Nat /\ lev[q] = 2 /\ Links(m, lev, p, b)
      BY <1>2, <1>7, <2>1, <2>4, StepDown
    <3>2. m2[q][c] = m[q][c] /\ r2 = r
      BY <1>2, <1>7, <2>2, <3>1
    <3>3. CASE ~ m[q][c].present
      BY <1>2, <1>5, <1>6, <2>2, <3>2, <3>3, WalkStops
    <3>4. CASE m[q][c].present
      <4>1. r \in Nat /\ lev[r] = 1 /\ Links(m, lev, q, c)
        BY <1>2, <1>7, <3>1, <3>4, StepDown
      <4>2. Reaches(m, lev, d, v, r)
        BY <1>4, <1>7, <2>1, <3>1, <4>1
      <4>3. m2[r][i] = m[r][i] => Translate(m2, d, v) = Translate(m, d, v)
        BY <1>2, <1>5, <1>8, <2>2, <3>2, WalkSame
      <4> QED BY <4>1, <4>2, <4>3 DEF i
    <3> QED BY <3>3, <3>4
  <2> QED BY <2>3, <2>4
<1> QED BY <1>9, <1>10

\* One page of one directory is mapped to x: the kernel's pages in all of them.
Changed(m, ds, d, v, x, m2) ==
    \A e \in ds, w \in Addresses :
        Translate(m2, e, w) =
          IF w = v /\ (e = d \/ PML4(v) = KERNEL) THEN x ELSE Translate(m, e, w)

\* Writing the entry of a page changes no table.
LEMMA LeafKeepsShape ==
    ASSUME NEW m, NEW ds, NEW lev, NEW own, Shaped(m, ds, lev, own),
           NEW t \in Nat, lev[t] = 1, NEW i \in Index, NEW y, NEW m2, Wrote(m, t, i, y, m2)
    PROVE  /\ Shaped(m2, ds, lev, own) /\ Grows(m, lev, own, m2, lev, own)
           /\ \A s \in Nat, j \in Index : lev[s] >= 2 => m2[s][j] = m[s][j]
<1>0. /\ Levels(m, ds, lev) /\ Descends(m, lev) /\ KernelShared(m, ds)
      /\ OneParent(m, lev) /\ Owned(m, ds, lev, own)
  BY DEF Shaped
<1>1. /\ \A s \in Nat : lev[s] # 0 => s \in 1 .. Len(m)
      /\ \A s \in Nat : lev[s] \in 0 .. 4
      /\ Len(m2) = Len(m) /\ Len(m) \in Nat /\ m2 \in Seq(Table)
  BY <1>0 DEF Levels, Wrote
<1>2. ASSUME NEW s \in Nat, NEW j \in Index, lev[s] >= 2 PROVE m2[s][j] = m[s][j]
  <2>1. s # t /\ s \in 1 .. Len(m)
    BY <1>1, <1>2
  <2> QED BY <2>1 DEF Wrote
<1>3. \A s \in Nat, j \in Index : Links(m2, lev, s, j) <=> Links(m, lev, s, j)
  BY <1>2 DEF Links
<1>4. \A s \in Nat, j \in Index : Links(m2, lev, s, j) => m2[s][j] = m[s][j]
  BY <1>2 DEF Links
<1>5. Levels(m2, ds, lev)
  BY <1>0, <1>1 DEF Levels
<1>6. Descends(m2, lev)
  BY <1>0, <1>3, <1>4 DEF Descends
<1>7. KernelShared(m2, ds)
  <2> SUFFICES ASSUME NEW d \in ds PROVE m2[d][KERNEL] = Leaf(2, FALSE)
    BY DEF KernelShared
  <2>1. m[d][KERNEL] = Leaf(2, FALSE)
    BY <1>0 DEF KernelShared
  <2>2. d \in Nat /\ lev[d] >= 2 /\ KERNEL \in Index
    BY <1>0, Radix DEF Levels
  <2>3. m2[d][KERNEL] = m[d][KERNEL]
    BY <1>2, <2>2
  <2> QED BY <2>1, <2>3
<1>8. OneParent(m2, lev)
  BY <1>0, <1>3, <1>4 DEF OneParent
<1>9. Owned(m2, ds, lev, own)
  <2>1. /\ own \in [Nat -> BOOLEAN] /\ ~ own[2]
        /\ \A d \in ds : own[d] <=> d # BOOT
    BY <1>0 DEF Owned
  <2>2. ASSUME NEW s \in Nat, NEW j \in Index, Links(m2, lev, s, j),
               ~ (lev[s] = 4 /\ j = KERNEL)
        PROVE  (m2[s][j].user <=> own[s]) /\ (own[m2[s][j].to] <=> own[s])
    <3>1. (m[s][j].user <=> own[s]) /\ (own[m[s][j].to] <=> own[s])
      BY <1>0, <1>3, <2>2 DEF Owned
    <3> QED BY <1>4, <2>2, <3>1
  <2> QED BY <2>1, <2>2 DEF Owned
<1>10. Grows(m, lev, own, m2, lev, own)
  BY <1>1 DEF Grows
<1> QED BY <1>2, <1>5, <1>6, <1>7, <1>8, <1>9, <1>10 DEF Shaped

\* And what the processor sees changes for this page alone.
LEMMA LeafWritten ==
    ASSUME NEW m, NEW ds, NEW lev, NEW own, Shaped(m, ds, lev, own),
           NEW d \in ds, NEW v \in Addresses, NEW t, Reaches(m, lev, d, v, t),
           NEW y \in Entry, NEW m2, Wrote(m, t, PTE(v), y, m2)
    PROVE  /\ Shaped(m2, ds, lev, own) /\ Grows(m, lev, own, m2, lev, own)
           /\ Changed(m, ds, d, v, Seen(y, own[t]), m2)
<1> DEFINE x == Seen(y, own[t])
           i == PTE(v)
<1>0. /\ Levels(m, ds, lev) /\ Descends(m, lev) /\ KernelShared(m, ds)
      /\ OneParent(m, lev) /\ Owned(m, ds, lev, own)
  BY DEF Shaped
<1>1. t \in Nat /\ lev[t] = 1 /\ t \in 1 .. Len(m)
  BY Reached
<1>2. i \in Index
  BY TranslateIsWalk
<1>3. /\ Shaped(m2, ds, lev, own) /\ Grows(m, lev, own, m2, lev, own)
      /\ \A s \in Nat, j \in Index : lev[s] >= 2 => m2[s][j] = m[s][j]
  BY <1>1, <1>2, LeafKeepsShape
<1>4. \A e, w, r : Reaches(m, lev, e, w, r) => Reaches(m2, lev, e, w, r)
  <2> SUFFICES ASSUME NEW e, NEW w, NEW r, Reaches(m, lev, e, w, r)
               PROVE  Reaches(m2, lev, e, w, r)
    OBVIOUS
  <2>1. \A s \in Nat : \A j : Links(m, lev, s, j) => Links(m2, lev, s, j) /\ m2[s][j] = m[s][j]
    BY <1>3 DEF Links
  <2>2. PICK p \in Nat, q \in Nat :
         /\ Links(m, lev, e, PML4(w)) /\ m[e][PML4(w)].to = p
         /\ Links(m, lev, p, PDPT(w)) /\ m[p][PDPT(w)].to = q
         /\ Links(m, lev, q, PDE(w)) /\ m[q][PDE(w)].to = r
    BY DEF Reaches
  <2>3. e \in Nat
    BY <2>2 DEF Links
  <2>4. /\ Links(m2, lev, e, PML4(w)) /\ m2[e][PML4(w)].to = p
        /\ Links(m2, lev, p, PDPT(w)) /\ m2[p][PDPT(w)].to = q
        /\ Links(m2, lev, q, PDE(w)) /\ m2[q][PDE(w)].to = r
    BY <2>1, <2>2, <2>3
  <2> QED BY <2>4 DEF Reaches
<1>5. m2[t][i] = y
  BY DEF Wrote
<1>6. Translate(m2, d, v) = x
  <2>1. Reaches(m2, lev, d, v, t)
    BY <1>4
  <2>2. Translate(m2, d, v) = Seen(m2[t][i], own[t])
    BY <1>3, <2>1, Reached
  <2> QED BY <1>5, <2>2
<1> HIDE DEF x
<1>7. ASSUME NEW e \in ds, PML4(v) = KERNEL PROVE Translate(m2, e, v) = x
  <2>1. KernelShared(m2, ds)
    BY <1>3 DEF Shaped
  <2> QED BY <1>6, <1>7, <2>1, KernelSeenAlike
<1>8. ASSUME NEW e \in ds, NEW w \in Addresses, ~ (w = v /\ (e = d \/ PML4(v) = KERNEL))
      PROVE  Translate(m2, e, w) = Translate(m, e, w)
  <2>1. CASE Translate(m, e, w) = Nowhere /\ Translate(m2, e, w) = Nowhere
    BY <2>1
  <2>2. ASSUME NEW r \in Nat, Reaches(m, lev, e, w, r), lev[r] = 1,
               m2[r][PTE(w)] = m[r][PTE(w)] => Translate(m2, e, w) = Translate(m, e, w)
        PROVE  Translate(m2, e, w) = Translate(m, e, w)
    <3>1. r # t \/ PTE(w) # i
      <4> SUFFICES ASSUME r = t, PTE(w) = PTE(v) PROVE FALSE
        OBVIOUS
      <4>1. Reaches(m, lev, e, w, t)
        BY <2>2
      <4>2. /\ PML4(v) = PML4(w) /\ PDPT(v) = PDPT(w) /\ PDE(v) = PDE(w)
            /\ d = e \/ PML4(v) = KERNEL
        BY <1>0, <4>1, OneWay
      <4>3. v = w
        BY <4>2, DigitsDetermine
      <4> QED BY <4>2, <4>3, <1>8
    <3>2. r \in 1 .. Len(m) /\ PTE(w) \in Index
      <4>1. r \in 1 .. Len(m)
        BY <1>0, <2>2 DEF Levels
      <4>2. PTE(w) \in Index
        BY TranslateIsWalk
      <4> QED BY <4>1, <4>2
    <3>3. m2[r][PTE(w)] = m[r][PTE(w)]
      BY <3>1, <3>2 DEF Wrote
    <3> QED BY <2>2, <3>3
  <2>3. \/ Translate(m, e, w) = Nowhere /\ Translate(m2, e, w) = Nowhere
        \/ \E r \in Nat : /\ Reaches(m, lev, e, w, r) /\ lev[r] = 1
                          /\ m2[r][PTE(w)] = m[r][PTE(w)] =>
                               Translate(m2, e, w) = Translate(m, e, w)
    BY <1>0, <1>3, Unreached
  <2> QED BY <2>1, <2>2, <2>3
<1>9. Changed(m, ds, d, v, x, m2)
  BY <1>6, <1>7, <1>8 DEF Changed
<1> QED BY <1>3, <1>9 DEF x

-----------------------------------------------------------------------------
\* map and unmap.

\* An entry put at v in directory d changes what is there, and nothing else.
LEMMA PutEffect ==
    ASSUME NEW m, NEW ds, NEW lev, NEW own, Shaped(m, ds, lev, own),
           NEW d \in ds, NEW v \in Addresses, NEW u \in BOOLEAN, NEW y \in Entry,
           u <=> d # BOOT, u => PML4(v) # KERNEL
    PROVE  \E lev2, own2 :
              /\ Shaped(PutPage(m, d, v, y, u), ds, lev2, own2)
              /\ Grows(m, lev, own, PutPage(m, d, v, y, u), lev2, own2)
              /\ Changed(m, ds, d, v, Seen(y, u), PutPage(m, d, v, y, u))
<1> DEFINE m1 == GetPage(m, d, v, u).mem
           t == GetPage(m, d, v, u).table
           m2 == [m1 EXCEPT ![t][PTE(v)] = y]
<1>0. PutPage(m, d, v, y, u) = m2
  BY DEF PutPage
<1>1. PICK lev2, own2 : Found(m, ds, lev, own, d, v, u, m1, t, lev2, own2)
  BY GetPageFinds
<1> HIDE DEF m1, t
<1>2. /\ Shaped(m1, ds, lev2, own2) /\ Grows(m, lev, own, m1, lev2, own2)
      /\ SameWalks(m, ds, m1)
      /\ Reaches(m1, lev2, d, v, t) /\ t \in 1 .. Len(m1) /\ own2[t] = u
  BY <1>1 DEF Found
<1>3. m1 \in Seq(Table) /\ m \in Seq(Table)
  BY <1>2 DEF Shaped, Levels
<1>4. PTE(v) \in Index
  BY TranslateIsWalk
<1>5. Wrote(m1, t, PTE(v), y, m2)
  BY <1>2, <1>3, <1>4, WriteEntry
<1> HIDE DEF m2
<1>6. /\ Shaped(m2, ds, lev2, own2) /\ Grows(m1, lev2, own2, m2, lev2, own2)
      /\ Changed(m1, ds, d, v, Seen(y, own2[t]), m2)
  BY <1>2, <1>5, LeafWritten
<1>7. Changed(m1, ds, d, v, Seen(y, u), m2)
  BY <1>2, <1>6
<1>8. Changed(m, ds, d, v, Seen(y, u), m2)
  BY <1>2, <1>7 DEF Changed, SameWalks
<1>9. Grows(m, lev, own, m2, lev2, own2)
  <2>1. Len(m) \in Nat /\ Len(m1) \in Nat /\ Len(m2) \in Nat
    BY <1>3, <1>6 DEF Shaped, Levels
  <2> QED BY <1>2, <1>6, <2>1 DEF Grows
<1> QED BY <1>0, <1>6, <1>8, <1>9

\* map changes what is at v in directory d, and nothing else.
LEMMA MapEffect ==
    ASSUME NEW m, NEW ds, NEW lev, NEW own, Shaped(m, ds, lev, own),
           NEW d \in ds, NEW v \in Addresses, NEW u \in BOOLEAN, NEW q \in Nat,
           u <=> d # BOOT, u => PML4(v) # KERNEL
    PROVE  \E lev2, own2 :
              /\ Shaped(MapPage(m, d, v, q, u), ds, lev2, own2)
              /\ Grows(m, lev, own, MapPage(m, d, v, q, u), lev2, own2)
              /\ Changed(m, ds, d, v, Leaf(q, u), MapPage(m, d, v, q, u))
<1>1. Leaf(q, u) \in Entry /\ Seen(Leaf(q, u), u) = Leaf(q, u)
  BY EntryFacts, SeenFacts
<1> DEFINE y == Leaf(q, u)
<1>2. MapPage(m, d, v, q, u) = PutPage(m, d, v, y, u)
  BY DEF MapPage
<1> HIDE DEF y
<1>3. y \in Entry /\ Seen(y, u) = Leaf(q, u)
  BY <1>1 DEF y
<1>4. \E lev2, own2 :
        /\ Shaped(PutPage(m, d, v, y, u), ds, lev2, own2)
        /\ Grows(m, lev, own, PutPage(m, d, v, y, u), lev2, own2)
        /\ Changed(m, ds, d, v, Seen(y, u), PutPage(m, d, v, y, u))
  BY <1>3, PutEffect
<1> QED BY <1>2, <1>3, <1>4

\* unmap makes a page unreachable, and changes nothing else.
LEMMA UnmapEffect ==
    ASSUME NEW m, NEW ds, NEW lev, NEW own, Shaped(m, ds, lev, own),
           NEW d \in ds, NEW v \in Addresses
    PROVE  /\ Shaped(UnmapPage(m, d, v), ds, lev, own)
           /\ Grows(m, lev, own, UnmapPage(m, d, v), lev, own)
           /\ Changed(m, ds, d, v, Nowhere, UnmapPage(m, d, v))
           /\ Len(UnmapPage(m, d, v)) = Len(m)
<1> DEFINE a == PML4(v)
           b == PDPT(v)
           c == PDE(v)
           i == PTE(v)
<1>0. Levels(m, ds, lev) /\ Descends(m, lev) /\ KernelShared(m, ds)
  BY DEF Shaped
<1>1. /\ a \in Index /\ b \in Index /\ c \in Index /\ i \in Index
      /\ Translate(m, d, v) = Walk(m, d, a, b, c, i)
  BY TranslateIsWalk
<1>2. PICK p, q, r : Trail(m, d, a, b, c, p, q, r)
  BY TrailExists
<1>3. m[d][a].to = p /\ m[p][b].to = q /\ m[q][c].to = r
  BY <1>2 DEF Trail
<1>4. UnmapPage(m, d, v) =
        IF m[d][a].present /\ m[p][b].present /\ m[q][c].present /\ m[r][i].present
          THEN [m EXCEPT ![r][i] = Cleared(m[r][i].to)] ELSE m
  BY <1>3, Zenon DEF UnmapPage
<1>5. d \in Nat /\ lev[d] = 4 /\ Len(m) \in Nat /\ m \in Seq(Table)
  BY <1>0 DEF Levels
<1>6. \A x : Reaches(m, lev, d, v, x) <=>
        \E e \in Nat, f \in Nat :
          /\ Links(m, lev, d, a) /\ m[d][a].to = e
          /\ Links(m, lev, e, b) /\ m[e][b].to = f
          /\ Links(m, lev, f, c) /\ m[f][c].to = x
  BY Zenon DEF Reaches
<1> HIDE DEF a, b, c
<1>7. CASE ~ (m[d][a].present /\ m[p][b].present /\ m[q][c].present /\ m[r][i].present)
  <2>1. UnmapPage(m, d, v) = m
    BY <1>4, <1>7
  <2>2. Translate(m, d, v) = Nowhere
    BY <1>1, <1>2, <1>7, WalkStops
  <2>3. Changed(m, ds, d, v, Nowhere, m)
    <3> SUFFICES ASSUME NEW e \in ds, e = d \/ PML4(v) = KERNEL
                 PROVE  Translate(m, e, v) = Nowhere
      BY DEF Changed
    <3> QED BY <1>0, <2>2, KernelSeenAlike
  <2>4. Grows(m, lev, own, m, lev, own)
    BY <1>5 DEF Grows
  <2> QED BY <2>1, <2>3, <2>4
<1>8. CASE m[d][a].present /\ m[p][b].present /\ m[q][c].present /\ m[r][i].present
  <2>1. p \in Nat /\ lev[p] = 3 /\ Links(m, lev, d, a)
    BY <1>0, <1>1, <1>3, <1>5, <1>8, StepDown
  <2>2. q \in Nat /\ lev[q] = 2 /\ Links(m, lev, p, b)
    BY <1>0, <1>1, <1>3, <1>8, <2>1, StepDown
  <2>3. r \in 1 .. Len(m) /\ r \in Nat /\ lev[r] = 1 /\ Links(m, lev, q, c)
    BY <1>0, <1>1, <1>3, <1>8, <2>2, StepDown
  <2>4. Reaches(m, lev, d, v, r)
    BY <1>3, <1>6, <2>1, <2>2, <2>3
  <2> DEFINE y == Cleared(m[r][i].to)
             m2 == [m EXCEPT ![r][i] = y]
  <2>5. UnmapPage(m, d, v) = m2
    BY <1>4, <1>8
  <2>6. y \in Entry /\ ~ y.present /\ ~ y.user
    <3>1. m[r][i].to \in Nat
      BY <1>1, <1>5, <2>3, SlotTyped
    <3> QED BY <3>1, EntryFacts
  <2> HIDE DEF y
  <2>7. Wrote(m, r, i, y, m2)
    BY <1>1, <1>5, <2>3, <2>6, WriteEntry
  <2> HIDE DEF m2
  <2>8. /\ Shaped(m2, ds, lev, own) /\ Grows(m, lev, own, m2, lev, own)
        /\ Changed(m, ds, d, v, Seen(y, own[r]), m2)
    BY <2>4, <2>6, <2>7, LeafWritten
  <2>9. Changed(m, ds, d, v, Nowhere, m2)
    BY <2>6, <2>8 DEF Seen
  <2> QED BY <2>5, <2>7, <2>8, <2>9 DEF Wrote
<1> QED BY <1>7, <1>8

-----------------------------------------------------------------------------
\* Pages that are placed.

\* A page more changes no table.
LEMMA PlaceKeeps ==
    ASSUME NEW m, NEW ds, NEW lev, NEW own, Shaped(m, ds, lev, own)
    PROVE  /\ Shaped(Append(m, Zeroed), ds, lev, own)
           /\ Grows(m, lev, own, Append(m, Zeroed), lev, own)
           /\ SameWalks(m, ds, Append(m, Zeroed))
           /\ Len(Append(m, Zeroed)) = Len(m) + 1 /\ Len(m) \in Nat
           /\ lev[Len(m) + 1] = 0
<1> DEFINE m2 == Append(m, Zeroed)
<1>0. /\ Levels(m, ds, lev) /\ Descends(m, lev) /\ KernelShared(m, ds)
      /\ OneParent(m, lev) /\ Owned(m, ds, lev, own)
  BY DEF Shaped
<1>1. /\ m \in Seq(Table) /\ lev \in [Nat -> 0 .. 4] /\ Len(m) \in Nat
      /\ \A s \in Nat : lev[s] # 0 => s \in 1 .. Len(m)
      /\ \A s \in Nat : lev[s] \in 0 .. 4
  BY <1>0 DEF Levels
<1>2. /\ m2 \in Seq(Table) /\ Len(m2) = Len(m) + 1
      /\ \A s \in 1 .. Len(m) : m2[s] = m[s]
  BY <1>1, EntryFacts
<1> HIDE DEF m2
<1>3. \A s \in Nat : lev[s] # 0 => m2[s] = m[s]
  BY <1>1, <1>2
<1>4. \A s \in Nat, j \in Index : Links(m2, lev, s, j) <=> Links(m, lev, s, j)
  BY <1>1, <1>3 DEF Links
<1>5. \A s \in Nat, j \in Index : Links(m2, lev, s, j) => m2[s][j] = m[s][j]
  BY <1>1, <1>3 DEF Links
<1>6. Levels(m2, ds, lev)
  <2>1. \A s \in Nat : lev[s] # 0 => s \in 1 .. Len(m2)
    BY <1>1, <1>2
  <2> QED BY <1>0, <1>2, <2>1 DEF Levels
<1>7. Descends(m2, lev)
  BY <1>0, <1>4, <1>5 DEF Descends
<1>8. KernelShared(m2, ds)
  <2> SUFFICES ASSUME NEW d \in ds PROVE m2[d][KERNEL] = Leaf(2, FALSE)
    BY DEF KernelShared
  <2>1. m[d][KERNEL] = Leaf(2, FALSE)
    BY <1>0 DEF KernelShared
  <2>2. d \in Nat /\ lev[d] # 0
    BY <1>0 DEF Levels
  <2> QED BY <1>3, <2>1, <2>2
<1>9. OneParent(m2, lev)
  BY <1>0, <1>4, <1>5 DEF OneParent
<1>10. Owned(m2, ds, lev, own)
  <2>1. ASSUME NEW s \in Nat, NEW j \in Index, Links(m2, lev, s, j), ~ (lev[s] = 4 /\ j = KERNEL)
        PROVE  (m2[s][j].user <=> own[s]) /\ (own[m2[s][j].to] <=> own[s])
    <3>1. (m[s][j].user <=> own[s]) /\ (own[m[s][j].to] <=> own[s])
      BY <1>0, <1>4, <2>1 DEF Owned
    <3> QED BY <1>5, <2>1, <3>1
  <2>2. own \in [Nat -> BOOLEAN] /\ ~ own[2] /\ \A d \in ds : own[d] <=> d # BOOT
    BY <1>0 DEF Owned
  <2> QED BY <2>1, <2>2 DEF Owned
<1>11. Grows(m, lev, own, m2, lev, own)
  BY <1>1, <1>2 DEF Grows
<1>12. SameWalks(m, ds, m2)
  <2> SUFFICES ASSUME NEW e \in ds, NEW w \in Addresses
               PROVE  Translate(m2, e, w) = Translate(m, e, w)
    BY DEF SameWalks
  <2>1. \A s \in Nat, j \in Index : lev[s] >= 2 => m2[s][j] = m[s][j]
    BY <1>1, <1>3
  <2>2. \/ Translate(m, e, w) = Nowhere /\ Translate(m2, e, w) = Nowhere
        \/ \E t \in Nat : /\ Reaches(m, lev, e, w, t) /\ lev[t] = 1
                          /\ m2[t][PTE(w)] = m[t][PTE(w)] =>
                               Translate(m2, e, w) = Translate(m, e, w)
    BY <1>0, <2>1, Unreached
  <2> QED BY <1>3, <2>2
<1>13. lev[Len(m) + 1] = 0
  BY <1>1
<1> QED BY <1>1, <1>2, <1>6, <1>7, <1>8, <1>9, <1>10, <1>11, <1>12, <1>13 DEF Shaped, m2

\* m2 is m with a new directory at the end, that maps the kernel alone.
Created(m, m2) ==
    /\ m2 \in Seq(Table) /\ Len(m2) = Len(m) + 1
    /\ \A s \in 1 .. Len(m) : m2[s] = m[s]
    /\ m2[Len(m) + 1][KERNEL] = Leaf(2, FALSE)
    /\ \A j \in Index : j # KERNEL => m2[Len(m) + 1][j] = Cleared(0)

CreateLevels(m, lev, lev2) == lev2 = [lev EXCEPT ![Len(m) + 1] = 4]
CreateOwners(m, own, own2) == own2 = [own EXCEPT ![Len(m) + 1] = TRUE]

LEMMA NewDirectoryIs ==
    ASSUME NEW m \in Seq(Table), NEW x \in Entry, x = Leaf(2, FALSE)
    PROVE  Created(m, Append(m, [Zeroed EXCEPT ![KERNEL] = x]))
<1> DEFINE z == [Zeroed EXCEPT ![KERNEL] = x]
<1>1. z \in Table /\ z[KERNEL] = x /\ \A j \in Index : j # KERNEL => z[j] = Cleared(0)
  BY EntryFacts, Radix DEF Table
<1> HIDE DEF z
<1>2. /\ Append(m, z) \in Seq(Table) /\ Len(Append(m, z)) = Len(m) + 1
      /\ \A s \in 1 .. Len(m) : Append(m, z)[s] = m[s]
      /\ Append(m, z)[Len(m) + 1] = z
  BY <1>1
<1>3. Created(m, Append(m, z))
  BY <1>1, <1>2 DEF Created
<1> QED BY <1>3 DEF z

\* The links after create_user_page_directory: those before, and the kernel's.
LEMMA CreatedLinks ==
    ASSUME NEW m, NEW ds, NEW lev, Levels(m, ds, lev), NEW m2, Created(m, m2),
           NEW lev2, CreateLevels(m, lev, lev2)
    PROVE  /\ Len(m) + 1 \in Nat /\ lev[Len(m) + 1] = 0 /\ Len(m) + 1 # BOOT
           /\ lev2 \in [Nat -> 0 .. 4]
           /\ \A s \in Nat : lev2[s] = IF s = Len(m) + 1 THEN 4 ELSE lev[s]
           /\ \A s \in Nat, j \in Index :
                 Links(m2, lev2, s, j) =>
                   \/ s = Len(m) + 1 /\ j = KERNEL
                   \/ s # Len(m) + 1 /\ Links(m, lev, s, j) /\ m2[s][j] = m[s][j]
           /\ \A s \in Nat : lev[s] # 0 => s # Len(m) + 1 /\ m2[s] = m[s]
<1> DEFINE n == Len(m) + 1
<1>1. /\ m \in Seq(Table) /\ lev \in [Nat -> 0 .. 4] /\ Len(m) \in Nat /\ n \in Nat
      /\ \A s \in Nat : lev[s] # 0 => s \in 1 .. Len(m)
      /\ \A s \in Nat : lev[s] \in 0 .. 4
      /\ BOOT \in Nat /\ lev[BOOT] = 4
  BY DEF Levels
<1>2. lev[n] = 0 /\ n # BOOT
  BY <1>1
<1>3. lev2 \in [Nat -> 0 .. 4] /\ \A s \in Nat : lev2[s] = IF s = n THEN 4 ELSE lev[s]
  <2>1. 4 \in 0 .. 4
    OBVIOUS
  <2> QED BY <1>1, <2>1 DEF CreateLevels
<1>4. \A j \in Index : j # KERNEL => ~ m2[n][j].present
  BY EntryFacts DEF Created
<1> HIDE DEF n
<1>5. ASSUME NEW s \in Nat, lev[s] # 0 PROVE s # n /\ m2[s] = m[s]
  BY <1>1, <1>2, <1>5 DEF Created
<1>6. ASSUME NEW s \in Nat, NEW j \in Index, Links(m2, lev2, s, j)
      PROVE  \/ s = n /\ j = KERNEL
             \/ s # n /\ Links(m, lev, s, j) /\ m2[s][j] = m[s][j]
  <2>1. m2[s][j].present /\ lev2[s] >= 2
    BY <1>6 DEF Links
  <2>2. CASE s = n
    BY <1>4, <2>1, <2>2
  <2>3. CASE s # n
    <3>1. lev[s] >= 2
      BY <1>3, <2>1, <2>3
    <3>2. m2[s] = m[s]
      BY <1>1, <1>5, <3>1
    <3> QED BY <2>1, <2>3, <3>1, <3>2 DEF Links
  <2> QED BY <2>2, <2>3
<1> QED BY <1>1, <1>2, <1>3, <1>5, <1>6 DEF n

LEMMA BootLink ==
    ASSUME NEW m, NEW ds, NEW lev, Levels(m, ds, lev), Descends(m, lev), KernelShared(m, ds)
    PROVE  /\ BOOT \in Nat /\ lev[BOOT] = 4
           /\ Links(m, lev, BOOT, KERNEL) /\ m[BOOT][KERNEL].to = 2
           /\ 2 \in 1 .. Len(m) /\ lev[2] = 3
<1>1. \A d \in ds :
        /\ d \in Nat /\ lev[d] = 4 /\ Links(m, lev, d, KERNEL) /\ m[d][KERNEL].to = 2
        /\ 2 \in 1 .. Len(m) /\ lev[2] = 3
  <2> TAKE d \in ds
  <2>1. d \in Nat
    BY KernelLink
  <2>2. lev[d] = 4
    BY <2>1 DEF Levels
  <2>3. Links(m, lev, d, KERNEL)
    BY KernelLink
  <2>4. m[d][KERNEL].to = 2
    BY KernelLink
  <2>5. 2 \in 1 .. Len(m)
    BY KernelLink
  <2>6. lev[2] = 3
    BY <2>1, <2>2, <2>3, <2>4 DEF Descends, Links
  <2> QED BY <2>1, <2>2, <2>3, <2>4, <2>5, <2>6
<1>2. BOOT \in ds
  BY DEF Levels
<1> QED BY <1>1, <1>2

\* create_user_page_directory: the tables are as they were, and in the new
\* directory the processor finds the kernel and nothing else.
LEMMA CreateShaped ==
    ASSUME NEW m, NEW ds, NEW lev, NEW own, Shaped(m, ds, lev, own),
           NEW m2, Created(m, m2),
           NEW lev2, CreateLevels(m, lev, lev2), NEW own2, CreateOwners(m, own, own2)
    PROVE  /\ Shaped(m2, ds \cup {Len(m) + 1}, lev2, own2)
           /\ Grows(m, lev, own, m2, lev2, own2)
<1> DEFINE n == Len(m) + 1
           ds2 == ds \cup {n}
<1>0. /\ Levels(m, ds, lev) /\ Descends(m, lev) /\ KernelShared(m, ds)
      /\ OneParent(m, lev) /\ Owned(m, ds, lev, own)
  BY DEF Shaped
<1>1. /\ n \in Nat /\ lev[n] = 0 /\ n # BOOT /\ lev2 \in [Nat -> 0 .. 4]
      /\ \A s \in Nat : lev2[s] = IF s = n THEN 4 ELSE lev[s]
      /\ \A s \in Nat, j \in Index :
            Links(m2, lev2, s, j) =>
              \/ s = n /\ j = KERNEL
              \/ s # n /\ Links(m, lev, s, j) /\ m2[s][j] = m[s][j]
      /\ \A s \in Nat : lev[s] # 0 => s # n /\ m2[s] = m[s]
  BY <1>0, CreatedLinks
<1>2. /\ lev \in [Nat -> 0 .. 4] /\ Len(m) \in Nat /\ Len(m2) = n /\ n = Len(m) + 1
      /\ \A s \in Nat : lev[s] # 0 => s \in 1 .. Len(m)
      /\ \A s \in Nat : lev[s] \in 0 .. 4
      /\ ds \subseteq Nat /\ \A s \in Nat : s \in ds <=> lev[s] = 4
      /\ BOOT \in ds /\ m2 \in Seq(Table)
  BY <1>0 DEF Levels, Created
<1>3. /\ own \in [Nat -> BOOLEAN] /\ ~ own[2] /\ \A d \in ds : own[d] <=> d # BOOT
      /\ own2 \in [Nat -> BOOLEAN]
      /\ \A s \in Nat : own2[s] = IF s = n THEN TRUE ELSE own[s]
  BY <1>0, <1>2 DEF Owned, CreateOwners
<1>4. m2[n][KERNEL] = Leaf(2, FALSE)
  BY DEF Created
<1>5. m2[n][KERNEL].to = 2 /\ 2 \in 1 .. Len(m) /\ lev[2] = 3
  <2>1. Leaf(2, FALSE).to = 2
    BY EntryFacts
  <2>2. BOOT \in ds
    BY <1>2
  <2>3. 2 \in 1 .. Len(m) /\ lev[2] = 3
    BY <1>0, <2>2, BootLink
  <2> QED BY <1>4, <2>1, <2>3
<1> HIDE DEF n, ds2
<1>14. \A s \in 1 .. Len(m) : s \in Nat /\ s # n /\ lev2[s] = lev[s] /\ own2[s] = own[s]
  <2>1. \A s \in 1 .. Len(m) : s \in Nat /\ s # n
    BY <1>2
  <2> QED BY <2>1, <1>1, <1>3
<1>6. ASSUME NEW s \in Nat, NEW j \in Index, Links(m, lev, s, j)
      PROVE  /\ m[s][j].to \in Nat /\ m[s][j].to # n
             /\ s # n /\ lev2[s] = lev[s] /\ own2[s] = own[s]
             /\ lev2[m[s][j].to] = lev[m[s][j].to] /\ own2[m[s][j].to] = own[m[s][j].to]
             /\ lev[m[s][j].to] = lev[s] - 1
  <2>1. lev[s] >= 2 /\ m[s][j].present
    BY <1>6 DEF Links
  <2>2. m[s][j].to \in 1 .. Len(m) /\ s \in 1 .. Len(m) /\ lev[m[s][j].to] = lev[s] - 1
    BY <2>1, <1>0, StepDown
  <2> QED BY <1>14, <2>2
<1>7. 2 # n /\ lev2[2] = 3 /\ ~ own2[2] /\ lev2[n] = 4
  <2>1. 2 # n /\ 2 \in Nat
    BY <1>2, <1>5
  <2> QED BY <1>1, <1>3, <1>5, <2>1
<1>8. Levels(m2, ds2, lev2)
  <2>1. \A s \in Nat : lev2[s] # 0 => s \in 1 .. Len(m2)
    BY <1>1, <1>2
  <2>2. \A s \in Nat : s \in ds2 <=> lev2[s] = 4
    BY <1>1, <1>2 DEF ds2
  <2>3. ds2 \subseteq Nat /\ BOOT \in ds2
    BY <1>1, <1>2 DEF ds2
  <2> QED BY <1>1, <1>2, <2>1, <2>2, <2>3 DEF Levels
<1>9. Descends(m2, lev2)
  <2> SUFFICES ASSUME NEW s \in Nat, NEW j \in Index, Links(m2, lev2, s, j)
               PROVE  lev2[m2[s][j].to] = lev2[s] - 1
    BY DEF Descends
  <2>1. CASE s = n /\ j = KERNEL
    BY <1>5, <1>7, <2>1
  <2>2. CASE Links(m, lev, s, j) /\ m2[s][j] = m[s][j]
    BY <1>6, <2>2
  <2> QED BY <1>1, <2>1, <2>2
<1>10. KernelShared(m2, ds2)
  <2> SUFFICES ASSUME NEW d \in ds PROVE m2[d][KERNEL] = Leaf(2, FALSE)
    BY <1>4 DEF KernelShared, ds2
  <2>1. m[d][KERNEL] = Leaf(2, FALSE)
    BY <1>0 DEF KernelShared
  <2>2. m2[d] = m[d]
    BY <1>1, <1>2
  <2> QED BY <2>1, <2>2
<1>11. OneParent(m2, lev2)
  <2> SUFFICES ASSUME NEW s \in Nat, NEW r \in Nat, NEW j \in Index, NEW k \in Index,
                      Links(m2, lev2, s, j), Links(m2, lev2, r, k),
                      m2[s][j].to = m2[r][k].to
               PROVE  (s = r /\ j = k) \/ (lev2[s] = 4 /\ lev2[r] = 4 /\ j = KERNEL /\ k = KERNEL)
    BY DEF OneParent
  <2>0. ASSUME NEW x \in Nat, NEW y \in Index, Links(m, lev, x, y), m[x][y].to = 2
        PROVE  lev2[x] = 4 /\ y = KERNEL
    <3>1. /\ Links(m, lev, BOOT, KERNEL) /\ m[BOOT][KERNEL].to = 2 /\ BOOT \in Nat
          /\ lev[BOOT] = 4 /\ KERNEL \in Index
      <4>1. BOOT \in ds
        BY <1>2
      <4>2. /\ Links(m, lev, BOOT, KERNEL) /\ m[BOOT][KERNEL].to = 2 /\ BOOT \in Nat
            /\ lev[BOOT] = 4
        BY <1>0, <4>1, BootLink
      <4> QED BY <4>2, Radix
    <3>2. (x = BOOT /\ y = KERNEL) \/ (lev[x] = 4 /\ lev[BOOT] = 4 /\ y = KERNEL /\ KERNEL = KERNEL)
      BY <1>0, <2>0, <3>1 DEF OneParent
    <3>3. lev2[x] = lev[x]
      BY <1>6, <2>0
    <3> QED BY <3>1, <3>2, <3>3
  <2>1. CASE s = n /\ j = KERNEL
    <3>1. CASE r = n /\ k = KERNEL
      BY <2>1, <3>1
    <3>2. CASE Links(m, lev, r, k) /\ m2[r][k] = m[r][k]
      <4>1. lev2[r] = 4 /\ k = KERNEL
        BY <1>5, <2>0, <2>1, <3>2
      <4> QED BY <1>7, <2>1, <4>1
    <3> QED BY <1>1, <3>1, <3>2
  <2>2. CASE r = n /\ k = KERNEL
    <3>1. CASE s = n /\ j = KERNEL
      BY <2>2, <3>1
    <3>2. CASE Links(m, lev, s, j) /\ m2[s][j] = m[s][j]
      <4>1. lev2[s] = 4 /\ j = KERNEL
        BY <1>5, <2>0, <2>2, <3>2
      <4> QED BY <1>7, <2>2, <4>1
    <3> QED BY <1>1, <3>1, <3>2
  <2>3. CASE /\ Links(m, lev, s, j) /\ m2[s][j] = m[s][j]
             /\ Links(m, lev, r, k) /\ m2[r][k] = m[r][k]
    <3>1. m[s][j].to = m[r][k].to
      BY <2>3
    <3>2. (s = r /\ j = k) \/ (lev[s] = 4 /\ lev[r] = 4 /\ j = KERNEL /\ k = KERNEL)
      BY <1>0, <2>3, <3>1 DEF OneParent
    <3> QED BY <1>6, <2>3, <3>2
  <2> QED BY <1>1, <2>1, <2>2, <2>3
<1>12. Owned(m2, ds2, lev2, own2)
  <2>1. \A d \in ds2 : own2[d] <=> d # BOOT
    <3>1. \A d \in ds : d # n /\ d \in Nat
      BY <1>1, <1>2
    <3>2. own2[n] = TRUE
      BY <1>1, <1>3
    <3> QED BY <3>1, <3>2, <1>1, <1>3 DEF ds2
  <2>2. ASSUME NEW s \in Nat, NEW j \in Index, Links(m2, lev2, s, j),
               ~ (lev2[s] = 4 /\ j = KERNEL)
        PROVE  (m2[s][j].user <=> own2[s]) /\ (own2[m2[s][j].to] <=> own2[s])
    <3>1. Links(m, lev, s, j) /\ m2[s][j] = m[s][j]
      BY <1>1, <1>7, <2>2
    <3>2. ~ (lev[s] = 4 /\ j = KERNEL)
      BY <1>6, <2>2, <3>1
    <3>3. (m[s][j].user <=> own[s]) /\ (own[m[s][j].to] <=> own[s])
      BY <1>0, <3>1, <3>2 DEF Owned
    <3> QED BY <3>1, <3>3, <1>6
  <2> QED BY <1>3, <1>7, <2>1, <2>2 DEF Owned
<1>13. Grows(m, lev, own, m2, lev2, own2)
  BY <1>2, <1>14 DEF Grows
<1> QED BY <1>8, <1>9, <1>10, <1>11, <1>12, <1>13 DEF Shaped, n, ds2

LEMMA CreateEffect ==
    ASSUME NEW m, NEW ds, NEW lev, NEW own, Shaped(m, ds, lev, own),
           NEW m2, Created(m, m2)
    PROVE  /\ \E lev2, own2 :
                /\ Shaped(m2, ds \cup {Len(m) + 1}, lev2, own2)
                /\ Grows(m, lev, own, m2, lev2, own2)
           /\ SameWalks(m, ds, m2)
           /\ Len(m) + 1 \notin ds
           /\ \A w \in Addresses :
                Translate(m2, Len(m) + 1, w) =
                  IF PML4(w) = KERNEL THEN Translate(m, BOOT, w) ELSE Nowhere
<1> DEFINE n == Len(m) + 1
<1>0. Levels(m, ds, lev) /\ Descends(m, lev) /\ KernelShared(m, ds)
  BY DEF Shaped
<1>1. PICK lev2, own2 : CreateLevels(m, lev, lev2) /\ CreateOwners(m, own, own2)
  BY Zenon DEF CreateLevels, CreateOwners
<1>2. /\ Shaped(m2, ds \cup {n}, lev2, own2) /\ Grows(m, lev, own, m2, lev2, own2)
  BY <1>1, CreateShaped
<1>3. /\ n \in Nat /\ lev[n] = 0 /\ BOOT \in ds
      /\ \A s \in Nat : lev[s] # 0 => m2[s] = m[s]
      /\ \A s \in Nat : lev[s] \in 0 .. 4
  <2>1. n \in Nat /\ lev[n] = 0 /\ \A s \in Nat : lev[s] # 0 => m2[s] = m[s]
    BY <1>0, <1>1, CreatedLinks
  <2> QED BY <2>1, <1>0 DEF Levels
<1>4. m2[n][KERNEL] = Leaf(2, FALSE) /\ \A j \in Index : j # KERNEL => m2[n][j] = Cleared(0)
  BY DEF Created
<1>5. n \notin ds
  BY <1>0, <1>3 DEF Levels
<1> HIDE DEF n
<1>6. SameWalks(m, ds, m2)
  <2> SUFFICES ASSUME NEW e \in ds, NEW w \in Addresses
               PROVE  Translate(m2, e, w) = Translate(m, e, w)
    BY DEF SameWalks
  <2>1. \A s \in Nat, j \in Index : lev[s] >= 2 => m2[s][j] = m[s][j]
    BY <1>3
  <2>2. \/ Translate(m, e, w) = Nowhere /\ Translate(m2, e, w) = Nowhere
        \/ \E t \in Nat : /\ Reaches(m, lev, e, w, t) /\ lev[t] = 1
                          /\ m2[t][PTE(w)] = m[t][PTE(w)] =>
                               Translate(m2, e, w) = Translate(m, e, w)
    BY <1>0, <2>1, Unreached
  <2> QED BY <1>3, <2>2
<1>7. ASSUME NEW w \in Addresses, PML4(w) = KERNEL
      PROVE  Translate(m2, n, w) = Translate(m, BOOT, w)
  <2>1. KernelShared(m2, ds \cup {n}) /\ n \in ds \cup {n} /\ BOOT \in ds \cup {n}
    BY <1>2, <1>3 DEF Shaped
  <2>2. Translate(m2, n, w) = Translate(m2, BOOT, w)
    BY <1>7, <2>1, KernelSeenAlike
  <2> QED BY <1>3, <1>6, <2>2 DEF SameWalks
<1>8. ASSUME NEW w \in Addresses, PML4(w) # KERNEL
      PROVE  Translate(m2, n, w) = Nowhere
  <2>1. PML4(w) \in Index /\ Translate(m2, n, w) = Walk(m2, n, PML4(w), PDPT(w), PDE(w), PTE(w))
    BY TranslateIsWalk
  <2>2. ~ m2[n][PML4(w)].present
    BY <1>4, <1>8, <2>1, EntryFacts
  <2>3. PICK p, q, r : Trail(m2, n, PML4(w), PDPT(w), PDE(w), p, q, r)
    BY TrailExists
  <2> QED BY <2>1, <2>2, <2>3, WalkStops
<1> QED BY <1>2, <1>5, <1>6, <1>7, <1>8 DEF n

-----------------------------------------------------------------------------
\* What the user reaches.

\* A page that may be the user's: a frame of the pool that has been taken, or a
\* page that was placed and is no table.
Usable(m, lev, n, q) == q \in POOL .. (POOL + n - 1) \/ (q \in 1 .. Len(m) /\ lev[q] = 0)

UserTargets(m, ds, lev, n) ==
    \A d \in ds, v \in Pages :
        Translate(m, d, v).user => Usable(m, lev, n, Translate(m, d, v).to)

Separate(m, ds) ==
    \A d, e \in ds, v, w \in Pages :
        /\ Translate(m, d, v).user /\ Translate(m, e, w).user
        /\ Translate(m, d, v).to = Translate(m, e, w).to
        => d = e /\ v = w

Intact(m, ds) ==
    \A d \in ds, p \in Window : Translate(m, d, KVIRTUAL + p) = Leaf(p, FALSE)

Fine(m, ds, lev, own, n) ==
    /\ Shaped(m, ds, lev, own) /\ UserTargets(m, ds, lev, n)
    /\ Separate(m, ds) /\ Intact(m, ds)

\* Nothing the user reaches is page q.
Unused(m, ds, q) == \A d \in ds, v \in Pages : Translate(m, d, v).user => Translate(m, d, v).to # q

LEMMA UsableGrows ==
    ASSUME NEW m, NEW lev, NEW own, NEW m2, NEW lev2, NEW own2, NEW n \in Nat, NEW n2 \in Nat,
           Len(m) \in Nat, Len(m2) \in Nat,
           Grows(m, lev, own, m2, lev2, own2), n <= n2, NEW q, Usable(m, lev, n, q)
    PROVE  Usable(m2, lev2, n2, q)
<1>1. CASE q \in POOL .. (POOL + n - 1)
  <2>1. POOL \in Nat
    BY PageTablesAssumption
  <2> QED BY <1>1, <2>1 DEF Usable
<1>2. CASE q \in 1 .. Len(m) /\ lev[q] = 0
  BY <1>2 DEF Usable, Grows
<1> QED BY <1>1, <1>2 DEF Usable

\* Changing one page keeps all this, if the user gets there what is the user's
\* and what no one else has.
LEMMA ChangeKeeps ==
    ASSUME NEW m, NEW ds, NEW lev, NEW own, NEW n \in Nat, Fine(m, ds, lev, own, n),
           NEW d \in ds, NEW v \in Pages, NEW x,
           NEW m2, NEW lev2, NEW own2, NEW n2 \in Nat, n <= n2,
           Shaped(m2, ds, lev2, own2), Grows(m, lev, own, m2, lev2, own2),
           Changed(m, ds, d, v, x, m2),
           x.user => /\ PML4(v) # KERNEL /\ Usable(m2, lev2, n2, x.to)
                     /\ Unused(m, ds, x.to)
    PROVE  Fine(m2, ds, lev2, own2, n2)
<1>0. Len(m) \in Nat /\ Len(m2) \in Nat
  BY DEF Fine, Shaped, Levels
<1>1. \A e \in ds, w \in Pages :
        Translate(m2, e, w) =
          IF w = v /\ (e = d \/ PML4(v) = KERNEL) THEN x ELSE Translate(m, e, w)
  BY PageFacts DEF Changed
<1>2. UserTargets(m2, ds, lev2, n2)
  <2> SUFFICES ASSUME NEW e \in ds, NEW w \in Pages, Translate(m2, e, w).user
               PROVE  Usable(m2, lev2, n2, Translate(m2, e, w).to)
    BY DEF UserTargets
  <2>1. CASE w = v /\ (e = d \/ PML4(v) = KERNEL)
    BY <1>1, <2>1
  <2>2. CASE ~ (w = v /\ (e = d \/ PML4(v) = KERNEL))
    <3>1. Translate(m2, e, w) = Translate(m, e, w)
      BY <1>1, <2>2
    <3>2. Usable(m, lev, n, Translate(m, e, w).to)
      BY <3>1 DEF Fine, UserTargets
    <3> QED BY <1>0, <3>1, <3>2, UsableGrows
  <2> QED BY <2>1, <2>2
<1>3. Separate(m2, ds)
  <2> SUFFICES ASSUME NEW e \in ds, NEW f \in ds, NEW w \in Pages, NEW u \in Pages,
                      Translate(m2, e, w).user, Translate(m2, f, u).user,
                      Translate(m2, e, w).to = Translate(m2, f, u).to
               PROVE  e = f /\ w = u
    BY DEF Separate
  <2> DEFINE Is(g, y) == y = v /\ (g = d \/ PML4(v) = KERNEL)
  <2>1. ASSUME NEW g \in ds, NEW y \in Pages, ~ Is(g, y)
        PROVE  Translate(m2, g, y) = Translate(m, g, y)
    BY <1>1, <2>1
  <2>2. ASSUME NEW g \in ds, NEW y \in Pages, Is(g, y), Translate(m2, g, y).user
        PROVE  Translate(m2, g, y) = x /\ x.user /\ g = d /\ y = v /\ Unused(m, ds, x.to)
    BY <1>1, <2>2
  <2> HIDE DEF Is
  <2>3. CASE Is(e, w) /\ Is(f, u)
    BY <2>2, <2>3
  <2>4. CASE Is(e, w) /\ ~ Is(f, u)
    BY <2>1, <2>2, <2>4 DEF Unused
  <2>5. CASE ~ Is(e, w) /\ Is(f, u)
    BY <2>1, <2>2, <2>5 DEF Unused
  <2>6. CASE ~ Is(e, w) /\ ~ Is(f, u)
    BY <2>1, <2>6 DEF Fine, Separate
  <2> QED BY <2>3, <2>4, <2>5, <2>6
<1>4. Intact(m2, ds)
  <2> SUFFICES ASSUME NEW e \in ds, NEW p \in Window
               PROVE  Translate(m2, e, KVIRTUAL + p) = Leaf(p, FALSE)
    BY DEF Intact
  <2>1. KVIRTUAL + p \in Addresses /\ v # KVIRTUAL + p
    BY PageFacts
  <2>2. Translate(m2, e, KVIRTUAL + p) = Translate(m, e, KVIRTUAL + p)
    BY <2>1 DEF Changed
  <2> QED BY <2>2 DEF Fine, Intact
<1> QED BY <1>2, <1>3, <1>4 DEF Fine

\* A page more, or a directory more, keeps it too.
LEMMA SameKeeps ==
    ASSUME NEW m, NEW ds, NEW lev, NEW own, NEW n \in Nat, Fine(m, ds, lev, own, n),
           NEW m2, NEW lev2, NEW own2,
           Shaped(m2, ds, lev2, own2), Grows(m, lev, own, m2, lev2, own2), SameWalks(m, ds, m2)
    PROVE  Fine(m2, ds, lev2, own2, n)
<1>0. Len(m) \in Nat /\ Len(m2) \in Nat /\ n <= n
  BY DEF Fine, Shaped, Levels
<1>1. \A e \in ds, w \in Pages : Translate(m2, e, w) = Translate(m, e, w)
  BY PageFacts DEF SameWalks
<1>2. UserTargets(m2, ds, lev2, n)
  BY <1>0, <1>1, UsableGrows DEF Fine, UserTargets
<1>3. Separate(m2, ds)
  BY <1>1 DEF Fine, Separate
<1>4. Intact(m2, ds)
  <2> SUFFICES ASSUME NEW e \in ds, NEW p \in Window
               PROVE  Translate(m2, e, KVIRTUAL + p) = Leaf(p, FALSE)
    BY DEF Intact
  <2>1. Translate(m2, e, KVIRTUAL + p) = Translate(m, e, KVIRTUAL + p)
    BY PageFacts DEF SameWalks
  <2> QED BY <2>1 DEF Fine, Intact
<1> QED BY <1>2, <1>3, <1>4 DEF Fine

\* The kernel's pages are never for the user.
LEMMA KernelNotUser ==
    ASSUME NEW m, NEW ds, NEW lev, NEW own, Shaped(m, ds, lev, own), NEW d \in ds,
           NEW v \in Addresses, PML4(v) = KERNEL
    PROVE  ~ Translate(m, d, v).user
<1> DEFINE b == PDPT(v)
           c == PDE(v)
           i == PTE(v)
<1>1. Translate(m, d, v) = Walk(m, d, KERNEL, b, c, i)
  BY TranslateIsWalk
<1> HIDE DEF b, c, i
<1>2. PICK p, q, r : Trail(m, d, KERNEL, b, c, p, q, r)
  BY TrailExists
<1>3. ~ m[d][KERNEL].user
  BY KernelLink DEF Shaped
<1>4. CASE ~ (m[d][KERNEL].present /\ m[p][b].present /\ m[q][c].present /\ m[r][i].present)
  <2>1. Translate(m, d, v) = Nowhere
    BY <1>1, <1>2, <1>4, WalkStops
  <2> QED BY <2>1, EntryFacts DEF Nowhere
<1>5. CASE m[d][KERNEL].present /\ m[p][b].present /\ m[q][c].present /\ m[r][i].present
  <2>1. Translate(m, d, v) =
          Leaf(m[r][i].to, m[d][KERNEL].user /\ m[p][b].user /\ m[q][c].user /\ m[r][i].user)
    BY <1>1, <1>2, <1>5, WalkGoes
  <2>2. Translate(m, d, v) = Leaf(m[r][i].to, FALSE)
    BY <1>3, <2>1
  <2> QED BY <2>2 DEF Leaf
<1> QED BY <1>4, <1>5

LEMMA CreateKeeps ==
    ASSUME NEW m, NEW ds, NEW lev, NEW own, NEW n \in Nat, Fine(m, ds, lev, own, n),
           NEW m2, Created(m, m2)
    PROVE  \E lev2, own2 : /\ Fine(m2, ds \cup {Len(m) + 1}, lev2, own2, n)
                           /\ Grows(m, lev, own, m2, lev2, own2)
<1> DEFINE k == Len(m) + 1
           ds2 == ds \cup {k}
<1>0. Shaped(m, ds, lev, own) /\ BOOT \in ds /\ Len(m) \in Nat
  BY DEF Fine, Shaped, Levels
<1>1. PICK lev2, own2 :
         Shaped(m2, ds \cup {Len(m) + 1}, lev2, own2) /\ Grows(m, lev, own, m2, lev2, own2)
  BY <1>0, CreateEffect
<1>2. Shaped(m2, ds2, lev2, own2) /\ Len(m2) \in Nat
  BY <1>1 DEF Shaped, Levels
<1>3. /\ SameWalks(m, ds, m2) /\ k \notin ds
      /\ \A w \in Addresses :
           Translate(m2, k, w) = IF PML4(w) = KERNEL THEN Translate(m, BOOT, w) ELSE Nowhere
  BY <1>0, CreateEffect
<1> HIDE DEF k
<1>4. \A e \in ds, w \in Pages : Translate(m2, e, w) = Translate(m, e, w)
  BY <1>3, PageFacts DEF SameWalks
<1>5. \A w \in Pages : ~ Translate(m2, k, w).user
  <2> SUFFICES ASSUME NEW w \in Pages PROVE ~ Translate(m2, k, w).user
    OBVIOUS
  <2>1. w \in Addresses
    BY PageFacts
  <2>2. CASE PML4(w) = KERNEL
    <3>1. k \in ds2
      OBVIOUS
    <3> QED BY <1>2, <2>1, <2>2, <3>1, KernelNotUser
  <2>3. CASE PML4(w) # KERNEL
    <3>1. Translate(m2, k, w) = Nowhere
      BY <1>3, <2>1, <2>3
    <3> QED BY <3>1, EntryFacts DEF Nowhere
  <2> QED BY <2>2, <2>3
<1>6. \A e \in ds2, w \in Pages : Translate(m2, e, w).user =>
        e \in ds /\ Translate(m, e, w).user /\ Translate(m2, e, w) = Translate(m, e, w)
  BY <1>4, <1>5
<1>7. UserTargets(m2, ds2, lev2, n)
  <2> SUFFICES ASSUME NEW e \in ds2, NEW w \in Pages, Translate(m2, e, w).user
               PROVE  Usable(m2, lev2, n, Translate(m2, e, w).to)
    BY DEF UserTargets
  <2>1. e \in ds /\ Translate(m, e, w).user /\ Translate(m2, e, w) = Translate(m, e, w)
    BY <1>6
  <2>2. Usable(m, lev, n, Translate(m, e, w).to)
    BY <2>1 DEF Fine, UserTargets
  <2>3. n <= n
    OBVIOUS
  <2> QED BY <1>0, <1>1, <1>2, <2>1, <2>2, <2>3, UsableGrows
<1>8. Separate(m2, ds2)
  <2> SUFFICES ASSUME NEW e \in ds2, NEW f \in ds2, NEW w \in Pages, NEW u \in Pages,
                      Translate(m2, e, w).user, Translate(m2, f, u).user,
                      Translate(m2, e, w).to = Translate(m2, f, u).to
               PROVE  e = f /\ w = u
    BY DEF Separate
  <2>1. /\ e \in ds /\ Translate(m, e, w).user /\ Translate(m2, e, w) = Translate(m, e, w)
        /\ f \in ds /\ Translate(m, f, u).user /\ Translate(m2, f, u) = Translate(m, f, u)
    BY <1>6
  <2> QED BY <2>1 DEF Fine, Separate
<1>9. Intact(m2, ds2)
  <2> SUFFICES ASSUME NEW e \in ds2, NEW p \in Window
               PROVE  Translate(m2, e, KVIRTUAL + p) = Leaf(p, FALSE)
    BY DEF Intact
  <2>1. KVIRTUAL + p \in Addresses /\ PML4(KVIRTUAL + p) = KERNEL
    BY PageFacts
  <2>2. CASE e \in ds
    <3>1. Translate(m2, e, KVIRTUAL + p) = Translate(m, e, KVIRTUAL + p)
      BY <1>3, <2>1, <2>2 DEF SameWalks
    <3> QED BY <2>2, <3>1 DEF Fine, Intact
  <2>3. CASE e = k
    <3>1. Translate(m2, k, KVIRTUAL + p) = Translate(m, BOOT, KVIRTUAL + p)
      BY <1>3, <2>1
    <3> QED BY <1>0, <2>3, <3>1 DEF Fine, Intact
  <2> QED BY <2>2, <2>3
<1>10. Fine(m2, ds2, lev2, own2, n)
  BY <1>2, <1>7, <1>8, <1>9 DEF Fine
<1> QED BY <1>1, <1>10 DEF k

-----------------------------------------------------------------------------
\* The stack of a process, page by page.

LEMMA NatSetInduction ==
    ASSUME NEW S, 0 \in S, \A n \in Nat : n \in S => n + 1 \in S
    PROVE  \A n \in Nat : n \in S
<1> SUFFICES ASSUME Nat \ S # {} PROVE FALSE
  OBVIOUS
<1>1. PICK x \in Nat \ S : \A y \in Nat \ S : ~ (<<y, x>> \in OpToRel(<, Nat))
  BY WFMin, NatLessThanWellFounded, Zenon
<1>2. \A y \in Nat \ S : ~ (y < x)
  BY <1>1, Zenon DEF OpToRel
<1>3. x # 0 /\ x - 1 \in Nat
  <2>1. x # 0 /\ x \in Nat
    OBVIOUS
  <2> QED BY <2>1
<1>4. x - 1 \in S
  BY <1>2, <1>3
<1>5. (x - 1) + 1 \in S
  BY <1>3, <1>4
<1> QED BY <1>5

\* What is done for page i of the stack.
StackStep(dir, m, i) ==
    MapPage(Append(m, Zeroed), dir, StackPage(i), Len(Append(m, Zeroed)), TRUE)

\* f[i]: what memory holds when the first i pages of the stack are mapped.
Follows(f, dir, n) ==
    f = [i \in 0 .. n |-> IF i = 0 THEN mem ELSE StackStep(dir, f[i - 1], i - 1)]

LEMMA FollowsExists ==
    ASSUME NEW dir
    PROVE  \A n \in Nat : \E f : Follows(f, dir, n)
<1> DEFINE S == {n \in Nat : \E f : Follows(f, dir, n)}
<1>1. 0 \in S
  <2> DEFINE f == [i \in 0 .. 0 |-> mem]
  <2>1. f = [i \in 0 .. 0 |-> IF i = 0 THEN mem ELSE StackStep(dir, f[i - 1], i - 1)]
    OBVIOUS
  <2> HIDE DEF f
  <2>2. Follows(f, dir, 0)
    BY <2>1 DEF Follows
  <2> QED BY <2>2
<1>2. ASSUME NEW n \in Nat, n \in S PROVE n + 1 \in S
  <2>1. PICK g : Follows(g, dir, n)
    BY <1>2
  <2>2. /\ \A i \in 0 .. n : g[i] = IF i = 0 THEN mem ELSE StackStep(dir, g[i - 1], i - 1)
    BY <2>1 DEF Follows
  <2> DEFINE f == [i \in 0 .. (n + 1) |-> IF i = n + 1 THEN StackStep(dir, g[n], n) ELSE g[i]]
             h == [i \in 0 .. (n + 1) |-> IF i = 0 THEN mem ELSE StackStep(dir, f[i - 1], i - 1)]
  <2>3. ASSUME NEW i \in 0 .. (n + 1) PROVE f[i] = h[i]
    <3>1. CASE i = n + 1
      <4>1. f[i] = StackStep(dir, g[n], n) /\ i # 0 /\ i - 1 = n /\ n \in 0 .. (n + 1) /\ n # n + 1
        BY <3>1
      <4>2. f[n] = g[n]
        BY <4>1
      <4>3. h[i] = StackStep(dir, f[i - 1], i - 1)
        BY <4>1
      <4> HIDE DEF f, h
      <4> QED BY <4>1, <4>2, <4>3
    <3>2. CASE i # n + 1
      <4>1. i \in 0 .. n /\ f[i] = g[i]
        BY <3>2
      <4>2. CASE i = 0
        <5>1. h[i] = mem /\ g[i] = mem
          BY <2>2, <4>1, <4>2
        <5> QED BY <4>1, <5>1
      <4>3. CASE i # 0
        <5>1. i - 1 \in 0 .. (n + 1) /\ i - 1 # n + 1
          BY <4>1, <4>3
        <5>2. f[i - 1] = g[i - 1]
          BY <5>1
        <5>3. h[i] = StackStep(dir, f[i - 1], i - 1) /\ g[i] = StackStep(dir, g[i - 1], i - 1)
          BY <2>2, <4>1, <4>3
        <5> HIDE DEF f, h
        <5> QED BY <4>1, <5>2, <5>3
      <4> QED BY <4>2, <4>3
    <3> QED BY <3>1, <3>2
  <2>4. f = h
    <3>1. f = [i \in 0 .. (n + 1) |-> f[i]] /\ h = [i \in 0 .. (n + 1) |-> h[i]]
      OBVIOUS
    <3> HIDE DEF f, h
    <3> QED BY <2>3, <3>1
  <2>5. f = [i \in 0 .. (n + 1) |-> IF i = 0 THEN mem ELSE StackStep(dir, f[i - 1], i - 1)]
    BY <2>4
  <2> HIDE DEF f
  <2>6. Follows(f, dir, n + 1)
    BY <2>5 DEF Follows
  <2> QED BY <2>6
<1>3. \A n \in Nat : n \in S
  <2> HIDE DEF S
  <2> QED BY <1>1, <1>2, NatSetInduction
<1> QED BY <1>3

\* The function in StackMapped is defined by its equation.
LEMMA StackMappedIs ==
    ASSUME NEW dir
    PROVE  \E f : /\ StackMapped(dir) = f[StackPages] /\ f[0] = mem
                  /\ \A i \in 0 .. (StackPages - 1) : f[i + 1] = StackStep(dir, f[i], i)
<1> DEFINE F == CHOOSE f : f = [i \in 0 .. StackPages |->
                                  IF i = 0 THEN mem ELSE StackStep(dir, f[i - 1], i - 1)]
<1>1. StackMapped(dir) = F[StackPages]
  BY Zenon DEF StackMapped, StackStep
<1>2. \E f : Follows(f, dir, StackPages)
  BY FollowsExists, StackFacts
<1>3. F = [i \in 0 .. StackPages |-> IF i = 0 THEN mem ELSE StackStep(dir, F[i - 1], i - 1)]
  BY <1>2, Zenon DEF Follows
<1> HIDE DEF F
<1>4. \A i \in 0 .. StackPages : F[i] = IF i = 0 THEN mem ELSE StackStep(dir, F[i - 1], i - 1)
  BY <1>3
<1>5. F[0] = mem
  BY <1>4, StackFacts
<1>6. ASSUME NEW i \in 0 .. (StackPages - 1) PROVE F[i + 1] = StackStep(dir, F[i], i)
  <2>1. i + 1 \in 0 .. StackPages /\ i + 1 # 0 /\ (i + 1) - 1 = i
    BY StackFacts
  <2>2. F[i + 1] = StackStep(dir, F[(i + 1) - 1], (i + 1) - 1)
    BY <1>4, <2>1
  <2> QED BY <2>1, <2>2
<1> QED BY <1>1, <1>5, <1>6

FirstPages(i) == {StackPage(j) : j \in 0 .. (i - 1)}

\* m2 is m after the first i pages of the stack are mapped in directory d.
StackMade(m, ds, lev, own, n, d, i, m2, lev2, own2) ==
    /\ Shaped(m2, ds, lev2, own2) /\ Grows(m, lev, own, m2, lev2, own2)
    /\ Len(m2) <= MaxPages => Fine(m2, ds, lev2, own2, n)
    /\ \A w \in FirstPages(i) : Translate(m2, d, w).user
    /\ \A e \in ds, w \in Addresses :
          ~ (e = d /\ w \in FirstPages(i)) => Translate(m2, e, w) = Translate(m, e, w)

LEMMA StackStepKeeps ==
    ASSUME NEW m, NEW ds, NEW lev, NEW own, NEW n \in Nat, Len(m) \in Nat,
           NEW d \in ds, d # BOOT, NEW i \in 0 .. (StackPages - 1),
           NEW m1, NEW lev1, NEW own1, StackMade(m, ds, lev, own, n, d, i, m1, lev1, own1)
    PROVE  \E lev2, own2 :
             StackMade(m, ds, lev, own, n, d, i + 1, StackStep(d, m1, i), lev2, own2)
<1> DEFINE a == Append(m1, Zeroed)
           q == Len(a)
           v == StackPage(i)
           m2 == MapPage(a, d, v, q, TRUE)
<1>0. StackStep(d, m1, i) = m2
  BY DEF StackStep
<1>1. Shaped(m1, ds, lev1, own1) /\ Grows(m, lev, own, m1, lev1, own1)
  BY DEF StackMade
<1>2. /\ Shaped(a, ds, lev1, own1) /\ Grows(m1, lev1, own1, a, lev1, own1)
      /\ SameWalks(m1, ds, a) /\ q = Len(m1) + 1 /\ Len(m1) \in Nat /\ q \in Nat
      /\ lev1[q] = 0
  <2>1. /\ Shaped(a, ds, lev1, own1) /\ Grows(m1, lev1, own1, a, lev1, own1)
        /\ SameWalks(m1, ds, a) /\ q = Len(m1) + 1 /\ Len(m1) \in Nat
        /\ lev1[Len(m1) + 1] = 0
    BY <1>1, PlaceKeeps
  <2> QED BY <2>1
<1>3. v \in Pages /\ v \in Addresses /\ PML4(v) # KERNEL
  <2>1. v \in Stack
    BY DEF Stack
  <2> QED BY <2>1, PageFacts
<1> HIDE DEF a, v
<1>4. PICK lev2, own2 :
         /\ Shaped(m2, ds, lev2, own2) /\ Grows(a, lev1, own1, m2, lev2, own2)
         /\ Changed(a, ds, d, v, Leaf(q, TRUE), m2)
  <2>1. TRUE \in BOOLEAN /\ (TRUE <=> d # BOOT) /\ (TRUE => PML4(v) # KERNEL)
    BY <1>3
  <2> HIDE DEF q
  <2> QED BY <1>2, <1>3, <2>1, MapEffect
<1> HIDE DEF m2
<1>5. Len(m2) \in Nat /\ Len(a) \in Nat /\ Len(m1) <= q /\ q <= Len(m2)
  <2>1. Len(m2) \in Nat
    BY <1>4 DEF Shaped, Levels
  <2> QED BY <1>2, <1>4, <2>1 DEF Grows
<1>6. Grows(m, lev, own, m2, lev2, own2)
  <2>1. \A s \in 1 .. Len(m) :
           /\ s \in 1 .. Len(m1) /\ s \in 1 .. Len(a)
           /\ lev1[s] = lev[s] /\ own1[s] = own[s]
           /\ lev2[s] = lev1[s] /\ own2[s] = own1[s]
    BY <1>1, <1>4, <1>5, <1>2 DEF Grows
  <2>2. Len(m) <= Len(m2)
    BY <1>1, <1>2, <1>5 DEF Grows
  <2> QED BY <2>1, <2>2 DEF Grows
<1>7. Leaf(q, TRUE).user /\ Leaf(q, TRUE).to = q
  BY <1>2, EntryFacts
<1>8. ASSUME Len(m2) <= MaxPages PROVE Fine(m2, ds, lev2, own2, n)
  <2>0. MaxPages \in Nat /\ POOL \in Nat /\ MaxPages < POOL
    BY PageTablesAssumption
  <2>1. Fine(m1, ds, lev1, own1, n)
    <3>1. Len(m1) <= MaxPages
      BY <1>2, <1>5, <1>8, <2>0
    <3> QED BY <3>1 DEF StackMade
  <2>2. Fine(a, ds, lev1, own1, n)
    BY <1>2, <2>1, SameKeeps
  <2>3. Unused(a, ds, q)
    <3> SUFFICES ASSUME NEW e \in ds, NEW w \in Pages, Translate(a, e, w).user,
                        Translate(a, e, w).to = q
                 PROVE  FALSE
      BY DEF Unused
    <3>1. Translate(m1, e, w) = Translate(a, e, w)
      BY <1>2, PageFacts DEF SameWalks
    <3>2. Usable(m1, lev1, n, q)
      BY <2>1, <3>1 DEF Fine, UserTargets
    <3>3. q < POOL /\ ~ (q <= Len(m1))
      BY <1>2, <1>5, <1>8, <2>0
    <3> HIDE DEF q
    <3> QED BY <1>2, <2>0, <3>2, <3>3 DEF Usable
  <2>4. Usable(m2, lev2, n, q)
    <3>1. q \in 1 .. Len(m2) /\ q \in 1 .. Len(a)
      BY <1>2, <1>5
    <3>2. lev2[q] = 0
      BY <1>2, <1>4, <3>1 DEF Grows
    <3> QED BY <3>1, <3>2 DEF Usable
  <2>5. n <= n
    OBVIOUS
  <2> DEFINE x == Leaf(q, TRUE)
  <2>6. /\ Changed(a, ds, d, v, x, m2)
        /\ x.user => PML4(v) # KERNEL /\ Usable(m2, lev2, n, x.to) /\ Unused(a, ds, x.to)
    BY <1>3, <1>4, <1>7, <2>3, <2>4
  <2> HIDE DEF x, q
  <2> QED BY <1>3, <1>4, <2>2, <2>5, <2>6, ChangeKeeps
<1>9. FirstPages(i + 1) = FirstPages(i) \cup {v}
  <2>1. i \in Nat /\ (i + 1) - 1 = i
    BY StackFacts
  <2>2. \A j : j \in 0 .. i <=> j \in 0 .. (i - 1) \/ j = i
    BY <2>1
  <2>3. FirstPages(i + 1) = {StackPage(j) : j \in 0 .. i}
    BY <2>1 DEF FirstPages
  <2>4. \A w : w \in {StackPage(j) : j \in 0 .. i} <=> w \in FirstPages(i) \/ w = StackPage(i)
    BY <2>2, Zenon DEF FirstPages
  <2> QED BY <2>3, <2>4 DEF v
<1>10. v \notin FirstPages(i)
  <2> SUFFICES ASSUME NEW j \in 0 .. (i - 1), StackPage(i) = StackPage(j) PROVE FALSE
    BY DEF FirstPages, v
  <2>1. i \in Nat /\ j \in Nat /\ i # j
    BY StackFacts
  <2> QED BY <2>1, StackFacts
<1>11. \A e \in ds, w \in Addresses :
         Translate(m2, e, w) = IF w = v /\ e = d THEN Leaf(q, TRUE) ELSE Translate(m1, e, w)
  <2> HIDE DEF q
  <2> QED BY <1>2, <1>3, <1>4 DEF Changed, SameWalks
<1>12. \A w \in FirstPages(i + 1) : Translate(m2, d, w).user
  <2> SUFFICES ASSUME NEW w \in FirstPages(i + 1) PROVE Translate(m2, d, w).user
    OBVIOUS
  <2>1. CASE w = v
    <3>1. Translate(m2, d, w) = Leaf(q, TRUE)
      BY <1>3, <1>11, <2>1
    <3> QED BY <1>7, <3>1
  <2>2. CASE w # v
    <3>1. w \in FirstPages(i)
      BY <1>9, <2>2
    <3>2. w \in Addresses
      <4>1. PICK j \in 0 .. (i - 1) : w = StackPage(j)
        BY <3>1 DEF FirstPages
      <4>2. j \in 0 .. (StackPages - 1)
        BY StackFacts
      <4>3. w \in Stack
        BY <4>1, <4>2 DEF Stack
      <4> QED BY <4>3, PageFacts
    <3>3. Translate(m2, d, w) = Translate(m1, d, w)
      BY <1>11, <2>2, <3>2
    <3> QED BY <3>1, <3>3 DEF StackMade
  <2> QED BY <2>1, <2>2
<1>13. ASSUME NEW e \in ds, NEW w \in Addresses, ~ (e = d /\ w \in FirstPages(i + 1))
       PROVE  Translate(m2, e, w) = Translate(m, e, w)
  <2>1. Translate(m2, e, w) = Translate(m1, e, w)
    BY <1>9, <1>11, <1>13
  <2>2. ~ (e = d /\ w \in FirstPages(i))
    BY <1>9, <1>13
  <2> QED BY <2>1, <2>2 DEF StackMade
<1>14. StackMade(m, ds, lev, own, n, d, i + 1, m2, lev2, own2)
  BY <1>4, <1>6, <1>8, <1>12, <1>13 DEF StackMade
<1> QED BY <1>0, <1>14

LEMMA StackEffect ==
    ASSUME NEW lev, NEW own, NEW d \in dirs \ {BOOT}, taken \in Nat,
           Fine(mem, dirs, lev, own, taken)
    PROVE  \E lev2, own2 :
             StackMade(mem, dirs, lev, own, taken, d, StackPages, StackMapped(d), lev2, own2)
<1>1. PICK f : /\ StackMapped(d) = f[StackPages] /\ f[0] = mem
               /\ \A i \in 0 .. (StackPages - 1) : f[i + 1] = StackStep(d, f[i], i)
  BY StackMappedIs
<1> DEFINE P(i) == \E lev2, own2 :
                     StackMade(mem, dirs, lev, own, taken, d, i, f[i], lev2, own2)
           S == {i \in Nat : i <= StackPages => P(i)}
<1>2. Shaped(mem, dirs, lev, own) /\ Len(mem) \in Nat
  BY DEF Fine, Shaped, Levels
<1>3. P(0)
  <2>1. FirstPages(0) = {}
    BY DEF FirstPages
  <2>2. Grows(mem, lev, own, mem, lev, own)
    BY <1>2 DEF Grows
  <2>3. StackMade(mem, dirs, lev, own, taken, d, 0, mem, lev, own)
    BY <1>2, <2>1, <2>2 DEF StackMade
  <2> QED BY <1>1, <2>3
<1>4. ASSUME NEW i \in 0 .. (StackPages - 1), P(i) PROVE P(i + 1)
  <2>1. PICK lev1, own1 : StackMade(mem, dirs, lev, own, taken, d, i, f[i], lev1, own1)
    BY <1>4
  <2>2. \E lev2, own2 :
           StackMade(mem, dirs, lev, own, taken, d, i + 1, StackStep(d, f[i], i), lev2, own2)
    BY <1>2, <2>1, StackStepKeeps
  <2> QED BY <1>1, <2>2
<1> HIDE DEF P
<1>5. 0 \in S
  BY <1>3
<1>6. \A i \in Nat : i \in S => i + 1 \in S
  <2> SUFFICES ASSUME NEW i \in Nat, i \in S, i + 1 <= StackPages PROVE P(i + 1)
    OBVIOUS
  <2>1. i \in 0 .. (StackPages - 1) /\ i <= StackPages
    BY StackFacts
  <2> QED BY <1>4, <2>1
<1>7. StackPages \in S
  <2> HIDE DEF S
  <2> QED BY <1>5, <1>6, NatSetInduction, StackFacts
<1>8. P(StackPages)
  BY <1>7, StackFacts
<1> QED BY <1>1, <1>8 DEF P

-----------------------------------------------------------------------------
\* The tables of boot.S and map_kernel_memory.

BootLevels ==
    [t \in Nat |-> IF t = 1 THEN 4 ELSE IF t = 2 THEN 3 ELSE IF t = 3 THEN 2
                   ELSE IF t \in 4 .. (RADIX + 3) THEN 1 ELSE 0]
BootOwners == [t \in Nat |-> FALSE]

\* m is what boot.S leaves, entry by entry.
Booted(m) ==
    /\ m \in Seq(Table) /\ Len(m) = RADIX + 3
    /\ m[1][KERNEL] = Leaf(2, FALSE)
    /\ \A j \in Index : j # KERNEL => m[1][j] = Cleared(0)
    /\ m[2][RADIX - 2] = Leaf(3, FALSE)
    /\ \A j \in Index : j # RADIX - 2 => m[2][j] = Cleared(0)
    /\ \A j \in Index : m[3][j] = Leaf(4 + j, FALSE)
    /\ \A k \in Index, j \in Index : m[4 + k][j] = Leaf(k * RADIX + j, TRUE)

LEMMA BootTablesAre == Booted(BootTables)
<1> DEFINE pml4 == [Zeroed EXCEPT ![KERNEL] = Leaf(2, FALSE)]
           pdpt == [Zeroed EXCEPT ![RADIX - 2] = Leaf(3, FALSE)]
           pde  == [i \in Index |-> Leaf(4 + i, FALSE)]
           page(t) == [i \in Index |-> Leaf((t - 1) * RADIX + i, TRUE)]
           ptes == [t \in 1 .. RADIX |-> page(t)]
           top  == <<pml4, pdpt, pde>>
<1>0. RADIX \in Nat /\ RADIX > 2 /\ KERNEL \in Index /\ RADIX - 2 \in Index /\ Index \subseteq Nat
  BY Radix, Regions DEF Index
<1>1. /\ pml4 \in Table /\ pml4[KERNEL] = Leaf(2, FALSE)
      /\ \A j \in Index : j # KERNEL => pml4[j] = Cleared(0)
  <2>1. Leaf(2, FALSE) \in Entry
    BY EntryFacts
  <2> QED BY <1>0, <2>1, EntryFacts DEF Table
<1>2. /\ pdpt \in Table /\ pdpt[RADIX - 2] = Leaf(3, FALSE)
      /\ \A j \in Index : j # RADIX - 2 => pdpt[j] = Cleared(0)
  <2>1. Leaf(3, FALSE) \in Entry
    BY EntryFacts
  <2> QED BY <1>0, <2>1, EntryFacts DEF Table
<1>3. pde \in Table /\ \A j \in Index : pde[j] = Leaf(4 + j, FALSE)
  <2>1. \A j \in Index : Leaf(4 + j, FALSE) \in Entry
    <3> TAKE j \in Index
    <3>1. 4 + j \in Nat
      BY <1>0
    <3> QED BY <3>1, EntryFacts
  <2> QED BY <2>1 DEF Table
<1>4. ASSUME NEW t \in 1 .. RADIX
      PROVE  page(t) \in Table /\ \A j \in Index : page(t)[j] = Leaf((t - 1) * RADIX + j, TRUE)
  <2>1. (t - 1) * RADIX \in Nat
    <3>1. t - 1 \in Nat
      BY <1>0
    <3> QED BY <1>0, <3>1
  <2>2. \A j \in Index : Leaf((t - 1) * RADIX + j, TRUE) \in Entry
    <3> TAKE j \in Index
    <3>1. (t - 1) * RADIX + j \in Nat
      BY <1>0, <2>1
    <3> QED BY <3>1, EntryFacts
  <2> QED BY <2>2 DEF Table
<1>5. BootTables = top \o ptes
  BY Zenon DEF BootTables
<1> HIDE DEF pml4, pdpt, pde, page
<1>6. ptes \in Seq(Table) /\ Len(ptes) = RADIX /\ \A t \in 1 .. RADIX : ptes[t] = page(t)
  <2>1. ptes \in [1 .. RADIX -> Table] /\ DOMAIN ptes = 1 .. RADIX
    BY <1>4
  <2>2. ptes \in Seq(Table)
    BY <1>0, <2>1, SeqDef
  <2>3. Len(ptes) = RADIX
    BY <1>0, <2>1, <2>2, LenProperties
  <2> QED BY <2>2, <2>3
<1>7. /\ top \in Seq(Table) /\ Len(top) = 3
      /\ top[1] = pml4 /\ top[2] = pdpt /\ top[3] = pde
  BY <1>1, <1>2, <1>3
<1> HIDE DEF ptes, top
<1> DEFINE m == top \o ptes
<1>8. /\ m \in Seq(Table) /\ Len(m) = RADIX + 3
      /\ m[1] = pml4 /\ m[2] = pdpt /\ m[3] = pde
      /\ \A t \in 1 .. RADIX : m[3 + t] = page(t)
  <2>1. /\ m \in Seq(Table) /\ Len(m) = RADIX + 3
        /\ \A i \in 1 .. (3 + RADIX) : m[i] = IF i <= 3 THEN top[i] ELSE ptes[i - 3]
    <3>1. /\ m \in Seq(Table) /\ Len(m) = Len(top) + Len(ptes)
          /\ \A i \in 1 .. (Len(top) + Len(ptes)) :
                m[i] = IF i <= Len(top) THEN top[i] ELSE ptes[i - Len(top)]
      BY <1>6, <1>7, ConcatProperties
    <3>2. Len(top) = 3 /\ Len(ptes) = RADIX
      BY <1>6, <1>7
    <3> HIDE DEF m
    <3> QED BY <1>0, <3>1, <3>2
  <2>2. 1 \in 1 .. (3 + RADIX) /\ 2 \in 1 .. (3 + RADIX) /\ 3 \in 1 .. (3 + RADIX)
    BY <1>0
  <2>3. ASSUME NEW t \in 1 .. RADIX PROVE m[3 + t] = page(t)
    <3>1. 3 + t \in 1 .. (3 + RADIX) /\ ~ (3 + t <= 3) /\ (3 + t) - 3 = t
      BY <1>0
    <3>2. m[3 + t] = ptes[(3 + t) - 3]
      BY <2>1, <3>1
    <3> QED BY <1>6, <3>1, <3>2
  <2> HIDE DEF m
  <2> QED BY <1>7, <2>1, <2>2, <2>3
<1> HIDE DEF m
<1>9. ASSUME NEW k \in Index, NEW j \in Index PROVE m[4 + k][j] = Leaf(k * RADIX + j, TRUE)
  <2> DEFINE t == k + 1
  <2>1. t \in 1 .. RADIX /\ 3 + t = 4 + k /\ t - 1 = k
    BY Radix
  <2>2. m[3 + t] = page(t) /\ page(t)[j] = Leaf((t - 1) * RADIX + j, TRUE)
    BY <1>4, <1>8, <2>1
  <2> HIDE DEF t
  <2> QED BY <2>1, <2>2
<1>10. Booted(m)
  BY <1>1, <1>2, <1>3, <1>8, <1>9 DEF Booted
<1> QED BY <1>5, <1>10 DEF m

LEMMA BootLinks ==
    ASSUME NEW m, Booted(m)
    PROVE  /\ Levels(m, {BOOT}, BootLevels)
           /\ \A s \in Nat, j \in Index :
                Links(m, BootLevels, s, j) =>
                  \/ s = 1 /\ j = KERNEL /\ m[s][j] = Leaf(2, FALSE)
                  \/ s = 2 /\ j = RADIX - 2 /\ m[s][j] = Leaf(3, FALSE)
                  \/ s = 3 /\ m[s][j] = Leaf(4 + j, FALSE)
<1>0. RADIX \in Nat /\ RADIX > 2
  BY Radix
<1>1. Levels(m, {BOOT}, BootLevels)
  BY <1>0 DEF Levels, Booted, BootLevels, BOOT
<1>2. \A s \in Nat : BootLevels[s] >= 2 => s = 1 \/ s = 2 \/ s = 3
  BY <1>0 DEF BootLevels
<1>3. ASSUME NEW s \in Nat, NEW j \in Index, Links(m, BootLevels, s, j)
      PROVE  \/ s = 1 /\ j = KERNEL /\ m[s][j] = Leaf(2, FALSE)
             \/ s = 2 /\ j = RADIX - 2 /\ m[s][j] = Leaf(3, FALSE)
             \/ s = 3 /\ m[s][j] = Leaf(4 + j, FALSE)
  <2>1. (s = 1 \/ s = 2 \/ s = 3) /\ m[s][j].present
    BY <1>2, <1>3 DEF Links
  <2>2. ~ Cleared(0).present
    BY EntryFacts
  <2>3. CASE s = 1
    BY <2>1, <2>2, <2>3 DEF Booted
  <2>4. CASE s = 2
    BY <2>1, <2>2, <2>4 DEF Booted
  <2>5. CASE s = 3
    BY <2>1, <2>5 DEF Booted
  <2> QED BY <2>1, <2>3, <2>4, <2>5
<1> QED BY <1>1, <1>3

LEMMA BootShaped ==
    ASSUME NEW m, Booted(m)
    PROVE  Shaped(m, {BOOT}, BootLevels, BootOwners)
<1>0. RADIX \in Nat /\ RADIX > 2 /\ \A j \in Index : j \in Nat /\ j < RADIX
  BY Radix
<1>1. Levels(m, {BOOT}, BootLevels)
  BY BootLinks
<1>2. ASSUME NEW s \in Nat, NEW j \in Index, Links(m, BootLevels, s, j)
      PROVE  /\ m[s][j].user = FALSE /\ m[s][j].to \in Nat
             /\ \/ s = 1 /\ j = KERNEL /\ m[s][j].to = 2
                \/ s = 2 /\ j = RADIX - 2 /\ m[s][j].to = 3
                \/ s = 3 /\ m[s][j].to = 4 + j
  <2>1. \/ s = 1 /\ j = KERNEL /\ m[s][j] = Leaf(2, FALSE)
        \/ s = 2 /\ j = RADIX - 2 /\ m[s][j] = Leaf(3, FALSE)
        \/ s = 3 /\ m[s][j] = Leaf(4 + j, FALSE)
    BY <1>2, BootLinks
  <2>2. 4 + j \in Nat
    BY <1>0
  <2>3. \A q \in Nat : Leaf(q, FALSE).to = q /\ Leaf(q, FALSE).user = FALSE
    BY EntryFacts
  <2>7. /\ Leaf(2, FALSE).to = 2 /\ Leaf(2, FALSE).user = FALSE
        /\ Leaf(3, FALSE).to = 3 /\ Leaf(3, FALSE).user = FALSE
    BY <2>3
  <2>4. CASE s = 1 /\ j = KERNEL /\ m[s][j] = Leaf(2, FALSE)
    <3>1. m[s][j].to = 2 /\ m[s][j].user = FALSE
      BY <2>4, <2>7, Zenon
    <3>2. m[s][j].to \in Nat
      BY <3>1
    <3> QED BY <2>4, <3>1, <3>2, Zenon
  <2>5. CASE s = 2 /\ j = RADIX - 2 /\ m[s][j] = Leaf(3, FALSE)
    <3>1. m[s][j].to = 3 /\ m[s][j].user = FALSE
      BY <2>5, <2>7, Zenon
    <3>2. m[s][j].to \in Nat
      BY <3>1
    <3> QED BY <2>5, <3>1, <3>2, Zenon
  <2>6. CASE s = 3 /\ m[s][j] = Leaf(4 + j, FALSE)
    <3>1. m[s][j].to = 4 + j /\ m[s][j].user = FALSE
      BY <2>2, <2>3, <2>6
    <3> QED BY <2>2, <2>6, <3>1
  <2> QED BY <2>1, <2>4, <2>5, <2>6
<1>3. BootLevels[1] = 4 /\ BootLevels[2] = 3 /\ BootLevels[3] = 2
      /\ \A j \in Index : BootLevels[4 + j] = 1
  <2>1. BootLevels[1] = 4 /\ BootLevels[2] = 3 /\ BootLevels[3] = 2
    BY DEF BootLevels
  <2>2. ASSUME NEW j \in Index PROVE BootLevels[4 + j] = 1
    <3>1. 4 + j \in Nat /\ 4 + j \in 4 .. (RADIX + 3) /\ 4 + j # 1 /\ 4 + j # 2 /\ 4 + j # 3
      BY <1>0
    <3> QED BY <3>1 DEF BootLevels
  <2> QED BY <2>1, <2>2
<1>4. Descends(m, BootLevels)
  <2> SUFFICES ASSUME NEW s \in Nat, NEW j \in Index, Links(m, BootLevels, s, j)
               PROVE  BootLevels[m[s][j].to] = BootLevels[s] - 1
    BY DEF Descends
  <2>1. \/ s = 1 /\ j = KERNEL /\ m[s][j].to = 2
        \/ s = 2 /\ j = RADIX - 2 /\ m[s][j].to = 3
        \/ s = 3 /\ m[s][j].to = 4 + j
    BY <1>2
  <2> QED BY <1>3, <2>1
<1>5. KernelShared(m, {BOOT})
  BY DEF KernelShared, Booted, BOOT
<1>6. OneParent(m, BootLevels)
  <2> SUFFICES ASSUME NEW s \in Nat, NEW t \in Nat, NEW i \in Index, NEW j \in Index,
                      Links(m, BootLevels, s, i), Links(m, BootLevels, t, j),
                      m[s][i].to = m[t][j].to
               PROVE  s = t /\ i = j
    BY DEF OneParent
  <2>1. /\ \/ s = 1 /\ i = KERNEL /\ m[s][i].to = 2
           \/ s = 2 /\ i = RADIX - 2 /\ m[s][i].to = 3
           \/ s = 3 /\ m[s][i].to = 4 + i
        /\ \/ t = 1 /\ j = KERNEL /\ m[t][j].to = 2
           \/ t = 2 /\ j = RADIX - 2 /\ m[t][j].to = 3
           \/ t = 3 /\ m[t][j].to = 4 + j
    BY <1>2
  <2>2. i \in Nat /\ j \in Nat
    BY <1>0
  <2> QED BY <2>1, <2>2
<1>7. Owned(m, {BOOT}, BootLevels, BootOwners)
  <2>1. BootOwners \in [Nat -> BOOLEAN] /\ \A t \in Nat : BootOwners[t] = FALSE
    BY DEF BootOwners
  <2>2. \A d \in {BOOT} : BootOwners[d] <=> d # BOOT
    BY <2>1 DEF BOOT
  <2>3. ASSUME NEW s \in Nat, NEW j \in Index, Links(m, BootLevels, s, j)
        PROVE  /\ m[s][j].user <=> BootOwners[s]
               /\ BootOwners[m[s][j].to] <=> BootOwners[s]
    BY <1>2, <2>1, <2>3
  <2> QED BY <2>1, <2>2, <2>3 DEF Owned
<1> QED BY <1>1, <1>4, <1>5, <1>6, <1>7 DEF Shaped

\* The window is mapped one to one from the beginning, and the user has nothing.
LEMMA BootFine ==
    ASSUME NEW m, Booted(m)
    PROVE  Fine(m, {BOOT}, BootLevels, BootOwners, 0)
<1>1. Shaped(m, {BOOT}, BootLevels, BootOwners)
  BY BootShaped
<1>2. \A v \in Pages : ~ Translate(m, BOOT, v).user
  <2> SUFFICES ASSUME NEW v \in Pages PROVE ~ Translate(m, BOOT, v).user
    OBVIOUS
  <2>1. v \in Addresses
    BY PageFacts
  <2>2. CASE PML4(v) = KERNEL
    BY <1>1, <2>1, <2>2, KernelNotUser
  <2>3. CASE PML4(v) # KERNEL
    <3>1. /\ Translate(m, BOOT, v) = Walk(m, BOOT, PML4(v), PDPT(v), PDE(v), PTE(v))
          /\ PML4(v) \in Index
      BY <2>1, TranslateIsWalk
    <3>2. PICK p, q, r : Trail(m, BOOT, PML4(v), PDPT(v), PDE(v), p, q, r)
      BY TrailExists
    <3>3. m[BOOT][PML4(v)] = Cleared(0)
      BY <2>3, <3>1 DEF Booted, BOOT
    <3>4. ~ m[BOOT][PML4(v)].present
      BY <3>3, EntryFacts
    <3>5. Translate(m, BOOT, v) = Nowhere
      BY <3>1, <3>2, <3>4, WalkStops
    <3> QED BY <3>5, EntryFacts DEF Nowhere
  <2> QED BY <2>2, <2>3
<1>3. ASSUME NEW p \in Window PROVE Translate(m, BOOT, KVIRTUAL + p) = Leaf(p, FALSE)
  <2> DEFINE v == KVIRTUAL + p
             c == p \div RADIX
             i == p % RADIX
             t == 4 + c
  <2>1. /\ v \in Addresses /\ PML4(v) = KERNEL /\ PDPT(v) = RADIX - 2
        /\ PDE(v) = c /\ PTE(v) = i /\ c \in Index /\ i \in Index /\ p \in Nat
    BY WindowDigits, Composed
  <2>2. c * RADIX + i = p
    <3>1. Divides(p, RADIX, c, i)
      <4>1. p \in Nat /\ RADIX \in Nat /\ RADIX > 0
        BY <2>1, Radix
      <4> QED BY <4>1, DivMod
    <3>2. p = RADIX * c + i /\ RADIX * c = c * RADIX
      BY <3>1, Z3 DEF Divides
    <3> QED BY <3>2
  <2>3. Translate(m, BOOT, v) = Walk(m, BOOT, KERNEL, RADIX - 2, c, i)
    BY <2>1, TranslateIsWalk
  <2> HIDE DEF v, c, i
  <2>4. /\ m[BOOT][KERNEL] = Leaf(2, FALSE) /\ m[2][RADIX - 2] = Leaf(3, FALSE)
        /\ m[3][c] = Leaf(t, FALSE) /\ m[t][i] = Leaf(c * RADIX + i, TRUE)
    BY <2>1 DEF Booted, BOOT
  <2>5. t \in Nat
    BY <2>1, Radix
  <2> HIDE DEF t
  <2>6. /\ m[BOOT][KERNEL].present /\ m[BOOT][KERNEL].to = 2 /\ m[BOOT][KERNEL].user = FALSE
        /\ m[2][RADIX - 2].present /\ m[2][RADIX - 2].to = 3
        /\ m[3][c].present /\ m[3][c].to = t
        /\ m[t][i].present /\ m[t][i].to = p
    <3>1. \A q \in Nat, u \in BOOLEAN :
             Leaf(q, u).present /\ Leaf(q, u).to = q /\ Leaf(q, u).user = u
      BY EntryFacts
    <3>2. m[BOOT][KERNEL].present /\ m[BOOT][KERNEL].to = 2 /\ m[BOOT][KERNEL].user = FALSE
      <4>1. Leaf(2, FALSE).present /\ Leaf(2, FALSE).to = 2 /\ Leaf(2, FALSE).user = FALSE
        BY <3>1
      <4> QED BY <2>4, <4>1, Zenon
    <3>3. m[2][RADIX - 2].present /\ m[2][RADIX - 2].to = 3
      BY <2>4, <3>1
    <3>4. m[3][c].present /\ m[3][c].to = t
      BY <2>4, <2>5, <3>1
    <3>5. m[t][i].present /\ m[t][i].to = p
      <4>1. m[t][i] = Leaf(p, TRUE)
        BY <2>2, <2>4
      <4> QED BY <2>1, <3>1, <4>1
    <3> QED BY <3>2, <3>3, <3>4, <3>5
  <2>7. Trail(m, BOOT, KERNEL, RADIX - 2, c, 2, 3, t)
    BY <2>6 DEF Trail
  <2>8. Walk(m, BOOT, KERNEL, RADIX - 2, c, i) =
          Leaf(m[t][i].to,
               m[BOOT][KERNEL].user /\ m[2][RADIX - 2].user /\ m[3][c].user /\ m[t][i].user)
    BY <2>6, <2>7, WalkGoes
  <2>9. Walk(m, BOOT, KERNEL, RADIX - 2, c, i) = Leaf(p, FALSE)
    BY <2>6, <2>8
  <2> QED BY <2>3, <2>9 DEF v
<1>4. UserTargets(m, {BOOT}, BootLevels, 0) /\ Separate(m, {BOOT})
  BY <1>2 DEF UserTargets, Separate
<1>5. Intact(m, {BOOT})
  BY <1>3 DEF Intact
<1> QED BY <1>1, <1>4, <1>5 DEF Fine

-----------------------------------------------------------------------------
\* The invariant.

\* The tables have levels and owners, of which the code knows nothing: with them
\* what the processor finds can be told from single entries.
PTInv ==
    /\ Len(mem) <= MaxPages
    /\ taken \in 0 .. MaxFrames
    /\ \E lev, own : Fine(mem, dirs, lev, own, taken)

LEMMA InitInv == Init => PTInv
<1> SUFFICES ASSUME Init PROVE PTInv
  OBVIOUS
<1>1. Booted(mem) /\ dirs = {BOOT} /\ taken = 0
  BY BootTablesAre DEF Init
<1>2. Fine(mem, dirs, BootLevels, BootOwners, taken)
  BY <1>1, BootFine
<1>3. Len(mem) <= MaxPages
  <2>1. Len(mem) = RADIX + 3
    BY <1>1 DEF Booted
  <2>2. RADIX \in Nat /\ POOL \in Nat /\ MaxPages \in (RADIX + 3) .. (POOL - 1)
    BY PageTablesAssumption
  <2> QED BY <2>1, <2>2
<1>4. taken \in 0 .. MaxFrames
  BY <1>1, PageTablesAssumption
<1> QED BY <1>2, <1>3, <1>4 DEF PTInv

\* An entry put for the user is that of a page that nobody has.
LEMMA PutStep ==
    ASSUME PTInv, NEW d \in dirs, NEW v \in Pages, NEW u \in BOOLEAN, NEW y \in Entry,
           u <=> d # BOOT, u => PML4(v) # KERNEL,
           u => y = Leaf(POOL + taken, TRUE) /\ taken' = taken + 1,
           taken' \in 0 .. MaxFrames, taken <= taken',
           Becomes(PutPage(mem, d, v, y, u)), UNCHANGED dirs
    PROVE  PTInv' /\ Changed(mem, dirs, d, v, Seen(y, u), mem')
<1>1. PICK lev, own : Fine(mem, dirs, lev, own, taken)
  BY DEF PTInv
<1>2. v \in Addresses
  BY PageFacts
<1>3. mem' = PutPage(mem, d, v, y, u) /\ Len(mem') <= MaxPages
  BY DEF Becomes
<1>4. taken \in Nat /\ taken' \in Nat /\ Len(mem) \in Nat /\ Shaped(mem, dirs, lev, own)
  <2>1. taken \in Nat /\ taken' \in Nat
    BY PageTablesAssumption DEF PTInv
  <2> QED BY <1>1, <2>1 DEF Fine, Shaped, Levels
<1>5. PICK lev2, own2 :
         /\ Shaped(PutPage(mem, d, v, y, u), dirs, lev2, own2)
         /\ Grows(mem, lev, own, PutPage(mem, d, v, y, u), lev2, own2)
         /\ Changed(mem, dirs, d, v, Seen(y, u), PutPage(mem, d, v, y, u))
  BY <1>2, <1>4, PutEffect
<1>6. /\ Shaped(mem', dirs, lev2, own2) /\ Grows(mem, lev, own, mem', lev2, own2)
      /\ Changed(mem, dirs, d, v, Seen(y, u), mem')
  BY <1>3, <1>5
<1> DEFINE x == Seen(y, u)
           q == POOL + taken
<1>7. /\ ~ u => ~ x.user
      /\ u => x.to = q
  <2>1. q \in Nat
    BY <1>4, PageTablesAssumption
  <2>2. CASE ~ u
    BY <2>2, SeenFacts
  <2>3. CASE u
    <3>1. x = Leaf(q, TRUE)
      BY <2>1, <2>3, SeenFacts
    <3> QED BY <2>1, <2>3, <3>1, EntryFacts
  <2> QED BY <2>2, <2>3
<1>8. ASSUME u
      PROVE  PML4(v) # KERNEL /\ Usable(mem', lev2, taken', q) /\ Unused(mem, dirs, q)
  <2>1. taken' = taken + 1 /\ PML4(v) # KERNEL
    BY <1>8
  <2>2. POOL \in Nat /\ MaxPages \in Nat /\ MaxPages < POOL
    BY PageTablesAssumption
  <2>3. Usable(mem', lev2, taken', q)
    BY <1>4, <2>1, <2>2 DEF Usable
  <2>4. Unused(mem, dirs, q)
    <3> SUFFICES ASSUME NEW e \in dirs, NEW w \in Pages, Translate(mem, e, w).user,
                        Translate(mem, e, w).to = q
                 PROVE  FALSE
      BY DEF Unused
    <3>1. Usable(mem, lev, taken, q)
      BY <1>1 DEF Fine, UserTargets
    <3>2. Len(mem) <= MaxPages
      BY DEF PTInv
    <3> QED BY <1>4, <2>1, <2>2, <3>1, <3>2 DEF Usable
  <2> QED BY <2>1, <2>3, <2>4
<1>9. x.user => PML4(v) # KERNEL /\ Usable(mem', lev2, taken', x.to) /\ Unused(mem, dirs, x.to)
  BY <1>7, <1>8
<1> HIDE DEF x
<1>10. Fine(mem', dirs, lev2, own2, taken')
  <2>1. Changed(mem, dirs, d, v, x, mem')
    BY <1>6 DEF x
  <2> QED BY <1>1, <1>4, <1>6, <1>9, <2>1, ChangeKeeps
<1>11. Fine(mem', dirs', lev2, own2, taken')
  BY <1>10
<1>12. PTInv'
  BY <1>3, <1>11 DEF PTInv
<1> QED BY <1>6, <1>12

\* map, of a frame that nobody has.
LEMMA MapStep ==
    ASSUME PTInv, NEW d \in dirs, NEW v \in Pages, NEW u \in BOOLEAN,
           u <=> d # BOOT, u => PML4(v) # KERNEL,
           taken' = taken + 1, taken' \in 0 .. MaxFrames,
           Becomes(MapPage(mem, d, v, POOL + taken, u)), UNCHANGED dirs
    PROVE  PTInv' /\ Changed(mem, dirs, d, v, Leaf(POOL + taken, u), mem')
<1>1. taken \in Nat /\ POOL + taken \in Nat
  BY PageTablesAssumption DEF PTInv
<1>2. Leaf(POOL + taken, u) \in Entry
      /\ Seen(Leaf(POOL + taken, u), u) = Leaf(POOL + taken, u)
  BY <1>1, EntryFacts, SeenFacts
<1> DEFINE y == Leaf(POOL + taken, u)
<1>3. Becomes(PutPage(mem, d, v, y, u))
  BY DEF MapPage
<1>4. u => y = Leaf(POOL + taken, TRUE)
  OBVIOUS
<1> HIDE DEF y
<1>5. y \in Entry /\ Seen(y, u) = Leaf(POOL + taken, u)
  BY <1>2 DEF y
<1>6. taken <= taken'
  BY <1>1
<1>7. PTInv' /\ Changed(mem, dirs, d, v, Seen(y, u), mem')
  BY <1>3, <1>4, <1>5, <1>6, PutStep
<1> QED BY <1>5, <1>7

LEMMA PTInvFacts ==
    ASSUME PTInv
    PROVE  /\ BOOT \in dirs /\ taken \in Nat /\ POOL + taken \in Nat
           /\ dirs \subseteq 1 .. Len(mem) /\ mem \in Seq(Table)
<1>1. PICK lev, own : Fine(mem, dirs, lev, own, taken)
  BY DEF PTInv
<1>2. Levels(mem, dirs, lev)
  BY <1>1 DEF Fine, Shaped
<1>3. BOOT \in dirs /\ mem \in Seq(Table) /\ dirs \subseteq Nat
  BY <1>2 DEF Levels
<1>4. ASSUME NEW d \in dirs PROVE d \in 1 .. Len(mem)
  BY <1>2 DEF Levels
<1>5. taken \in Nat /\ POOL \in Nat /\ MaxFrames \in Nat
  BY PageTablesAssumption DEF PTInv
<1> QED BY <1>3, <1>4, <1>5

LEMMA KernelMapStep ==
    ASSUME PTInv, NEW v \in HeapPages, KernelMap(v)
    PROVE  /\ PTInv' /\ dirs' = dirs
           /\ Changed(mem, dirs, BOOT, v, Leaf(POOL + taken, FALSE), mem')
<1>1. BOOT \in dirs /\ v \in Pages /\ POOL + taken \in Nat /\ taken \in Nat
  BY PTInvFacts, PageFacts
<1>2. /\ taken' = taken + 1 /\ taken < MaxFrames /\ MaxFrames \in Nat /\ dirs' = dirs
      /\ Becomes(MapPage(mem, BOOT, v, POOL + taken, FALSE))
  BY PageTablesAssumption DEF KernelMap, TakeFrame
<1>3. taken' \in 0 .. MaxFrames /\ taken <= taken'
  BY <1>1, <1>2
<1>4. FALSE \in BOOLEAN /\ (FALSE <=> BOOT # BOOT)
  OBVIOUS
<1> QED BY <1>1, <1>2, <1>3, <1>4, MapStep

LEMMA UserMapStep ==
    ASSUME PTInv, NEW d \in dirs \ {BOOT}, NEW v \in UserPages, UserMap(d, v)
    PROVE  /\ PTInv' /\ dirs' = dirs
           /\ Changed(mem, dirs, d, v, Leaf(POOL + taken, TRUE), mem')
<1>1. d \in dirs /\ d # BOOT /\ v \in Pages /\ PML4(v) # KERNEL /\ POOL + taken \in Nat /\ taken \in Nat
  BY PTInvFacts, PageFacts
<1>2. /\ taken' = taken + 1 /\ taken < MaxFrames /\ MaxFrames \in Nat /\ dirs' = dirs
      /\ Becomes(MapPage(mem, d, v, POOL + taken, TRUE))
  BY PageTablesAssumption DEF UserMap, TakeFrame
<1>3. taken' \in 0 .. MaxFrames /\ taken <= taken'
  BY <1>1, <1>2
<1>4. TRUE \in BOOLEAN /\ (TRUE <=> d # BOOT)
  BY <1>1
<1> QED BY <1>1, <1>2, <1>3, <1>4, MapStep

LEMMA MapIOStep ==
    ASSUME PTInv, NEW a \in Devices, MapIO(a)
    PROVE  /\ PTInv' /\ dirs' = dirs
           /\ Changed(mem, dirs, BOOT, DevicePage(a), Seen(Raw(a + 3), FALSE), mem')
<1>1. BOOT \in dirs /\ DevicePage(a) \in Pages /\ a \in Nat /\ taken \in Nat
  BY PTInvFacts, PageFacts, PageTablesAssumption
<1>2. /\ taken' = taken /\ dirs' = dirs
      /\ Becomes(PutPage(mem, BOOT, DevicePage(a), Raw(a + 3), FALSE))
  BY DEF MapIO
<1>3. taken' \in 0 .. MaxFrames /\ taken <= taken'
  BY <1>1, <1>2 DEF PTInv
<1>4. FALSE \in BOOLEAN /\ (FALSE <=> BOOT # BOOT)
  OBVIOUS
<1> DEFINE v == DevicePage(a)
           y == Raw(a + 3)
<1>5. y \in Entry
  BY <1>1, RawFacts
<1> HIDE DEF v, y
<1>6. v \in Pages /\ Becomes(PutPage(mem, BOOT, v, y, FALSE))
  BY <1>1, <1>2 DEF v, y
<1>7. PTInv' /\ Changed(mem, dirs, BOOT, v, Seen(y, FALSE), mem')
  BY <1>1, <1>2, <1>3, <1>4, <1>5, <1>6, PutStep
<1> QED BY <1>2, <1>7 DEF v, y

\* The address of a page and 3 is the entry of this page.
LEMMA RawAligned ==
    ASSUME NEW a \in Nat, a % PAGE_SIZE = 0
    PROVE  Seen(Raw(a + 3), FALSE) = Leaf(a \div PAGE_SIZE, FALSE)
<1> DEFINE k == PAGE_SIZE
           c == a \div k
           m == k \div 8
<1>1. k \in Nat /\ k > 0 /\ k % 8 = 0
  BY PageTablesAssumption
<1>2. Divides(a, k, c, 0)
  BY <1>1, DivMod
<1>3. Divides(k, 8, m, 0)
  BY <1>1, DivMod
<1> HIDE DEF k, c, m
<1>4. c \in Nat /\ m \in Nat /\ a = k * c /\ k = 8 * m /\ m > 0
  BY <1>1, <1>2, <1>3 DEF Divides
<1>5. Divides(a + 3, k, c, 3)
  BY <1>1, <1>4 DEF Divides
<1>6. Divides(a + 3, 2, 4 * (m * c) + 1, 1)
  <2>1. m * c \in Nat /\ (8 * m) * c = 8 * (m * c)
    BY <1>4, Z3
  <2>2. a + 3 = 2 * (4 * (m * c) + 1) + 1
    BY <1>4, <2>1
  <2> QED BY <2>1, <2>2 DEF Divides
<1>7. (a + 3) \div k = c /\ (a + 3) % 2 = 1
  BY <1>5, <1>6, DivUnique
<1>8. Raw(a + 3).present /\ Raw(a + 3).to = c
  BY <1>7 DEF Raw, k
<1> QED BY <1>8 DEF Seen, c, k


LEMMA UnmapStep ==
    ASSUME PTInv, NEW d \in dirs, NEW v \in Pages, Unmap(d, v)
    PROVE  /\ PTInv' /\ dirs' = dirs
           /\ Changed(mem, dirs, d, v, Nowhere, mem')
<1>1. PICK lev, own : Fine(mem, dirs, lev, own, taken)
  BY DEF PTInv
<1>2. v \in Addresses /\ taken \in Nat /\ taken <= taken
  BY PageFacts, PTInvFacts
<1>3. mem' = UnmapPage(mem, d, v) /\ dirs' = dirs /\ taken' = taken
  BY DEF Unmap
<1>4. Shaped(mem, dirs, lev, own)
  BY <1>1 DEF Fine
<1>5. /\ Shaped(mem', dirs, lev, own) /\ Grows(mem, lev, own, mem', lev, own)
      /\ Changed(mem, dirs, d, v, Nowhere, mem') /\ Len(mem') = Len(mem)
  BY <1>2, <1>3, <1>4, UnmapEffect
<1>6. ~ Nowhere.user
  BY EntryFacts DEF Nowhere
<1>7. Fine(mem', dirs, lev, own, taken)
  BY <1>1, <1>2, <1>5, <1>6, ChangeKeeps
<1>8. PTInv'
  BY <1>3, <1>5, <1>7 DEF PTInv
<1> QED BY <1>3, <1>5, <1>8

LEMMA CreateStep ==
    ASSUME PTInv, CreateDirectory
    PROVE  /\ PTInv' /\ dirs' = dirs \cup {Len(mem) + 1} /\ Len(mem) + 1 \notin dirs
           /\ SameWalks(mem, dirs, mem')
           /\ \A w \in Addresses :
                Translate(mem', Len(mem) + 1, w) =
                  IF PML4(w) = KERNEL THEN Translate(mem, BOOT, w) ELSE Nowhere
<1>1. PICK lev, own : Fine(mem, dirs, lev, own, taken)
  BY DEF PTInv
<1>2. Shaped(mem, dirs, lev, own) /\ mem \in Seq(Table) /\ taken \in Nat
  BY <1>1, PTInvFacts DEF Fine
<1> DEFINE x == mem[BOOT][KERNEL]
<1>3. x = Leaf(2, FALSE) /\ x \in Entry
  <2>1. BOOT \in dirs
    BY PTInvFacts
  <2>2. x = Leaf(2, FALSE)
    BY <1>2, <2>1 DEF Shaped, KernelShared
  <2> QED BY <2>2, EntryFacts
<1>4. mem' = Append(mem, [Zeroed EXCEPT ![KERNEL] = x])
      /\ Len(mem') <= MaxPages /\ taken' = taken
  BY DEF CreateDirectory, Becomes, NewDirectory
<1> HIDE DEF x
<1>5. Created(mem, mem')
  BY <1>2, <1>3, <1>4, NewDirectoryIs
<1>6. dirs' = dirs \cup {Len(mem) + 1}
  BY <1>5 DEF CreateDirectory, PlacedPage, Created
<1>7. PICK lev2, own2 : Fine(mem', dirs \cup {Len(mem) + 1}, lev2, own2, taken)
  BY <1>1, <1>2, <1>5, CreateKeeps
<1>8. PTInv'
  <2>1. Fine(mem', dirs', lev2, own2, taken')
    BY <1>4, <1>6, <1>7
  <2>2. taken' \in 0 .. MaxFrames
    BY <1>4 DEF PTInv
  <2> QED BY <1>4, <2>1, <2>2 DEF PTInv
<1>9. /\ SameWalks(mem, dirs, mem') /\ Len(mem) + 1 \notin dirs
      /\ \A w \in Addresses :
           Translate(mem', Len(mem) + 1, w) =
             IF PML4(w) = KERNEL THEN Translate(mem, BOOT, w) ELSE Nowhere
  BY <1>2, <1>5, CreateEffect
<1> QED BY <1>6, <1>8, <1>9

LEMMA SetupStackStep ==
    ASSUME PTInv, NEW d \in dirs \ {BOOT}, SetupStack(d)
    PROVE  /\ PTInv' /\ dirs' = dirs
           /\ \A w \in Stack : Translate(mem', d, w).user
           /\ \A e \in dirs, w \in Addresses :
                ~ (e = d /\ w \in Stack) => Translate(mem', e, w) = Translate(mem, e, w)
<1>1. PICK lev, own : Fine(mem, dirs, lev, own, taken)
  BY DEF PTInv
<1>2. taken \in Nat /\ mem' = StackMapped(d) /\ Len(mem') <= MaxPages
      /\ dirs' = dirs /\ taken' = taken
  BY PTInvFacts DEF SetupStack, Becomes
<1>3. PICK lev2, own2 :
         StackMade(mem, dirs, lev, own, taken, d, StackPages, StackMapped(d), lev2, own2)
  BY <1>1, <1>2, StackEffect
<1>4. StackMade(mem, dirs, lev, own, taken, d, StackPages, mem', lev2, own2)
  BY <1>2, <1>3
<1>5. Fine(mem', dirs, lev2, own2, taken)
  BY <1>2, <1>4 DEF StackMade
<1>6. PTInv'
  BY <1>2, <1>5 DEF PTInv
<1>7. FirstPages(StackPages) = Stack
  BY DEF FirstPages, Stack
<1> QED BY <1>2, <1>4, <1>6, <1>7 DEF StackMade

LEMMA NextInv == PTInv /\ [Next]_vars => PTInv'
<1> SUFFICES ASSUME PTInv, [Next]_vars PROVE PTInv'
  OBVIOUS
<1>1. CASE \E v \in HeapPages : KernelMap(v)
  BY <1>1, KernelMapStep
<1>2. CASE \E v \in HeapPages : Unmap(BOOT, v)
  BY <1>2, UnmapStep, PTInvFacts, PageFacts
<1>3. CASE \E a \in Devices : MapIO(a)
  BY <1>3, MapIOStep
<1>4. CASE \E a \in Devices : Unmap(BOOT, DevicePage(a))
  BY <1>4, UnmapStep, PTInvFacts, PageFacts
<1>5. CASE CreateDirectory
  BY <1>5, CreateStep
<1>6. CASE \E d \in dirs \ {BOOT} : SetupStack(d)
  BY <1>6, SetupStackStep
<1>7. CASE \E d \in dirs \ {BOOT}, v \in UserPages : UserMap(d, v)
  BY <1>7, UserMapStep
<1>8. CASE \E d \in dirs \ {BOOT}, v \in UserPages : Unmap(d, v)
  BY <1>8, UnmapStep, PageFacts
<1>9. CASE UNCHANGED vars
  BY <1>9 DEF vars, PTInv
<1> QED BY <1>1, <1>2, <1>3, <1>4, <1>5, <1>6, <1>7, <1>8, <1>9 DEF Next

LEMMA Invariance == Spec => []PTInv
BY InitInv, NextInv, PTL DEF Spec

-----------------------------------------------------------------------------
\* The properties.

\* The pages that hold tables of the levels some to four.
Level(lev, k) == {t \in 1 .. Len(mem) : lev[t] = k}

LEMMA TargetsDescend ==
    ASSUME NEW lev, Levels(mem, dirs, lev), Descends(mem, lev),
           NEW k \in 2 .. 4, NEW tables, tables \subseteq Level(lev, k)
    PROVE  Targets(tables) \subseteq Level(lev, k - 1)
<1> SUFFICES ASSUME NEW s \in Slots(tables) PROVE mem[s[1]][s[2]].to \in Level(lev, k - 1)
  BY DEF Targets
<1>1. s[1] \in tables /\ s[1] \in Nat /\ s[2] \in Index /\ mem[s[1]][s[2]].present
  BY DEF Slots
<1>2. lev[s[1]] = k /\ k >= 2
  BY <1>1 DEF Level
<1>3. mem[s[1]][s[2]].to \in 1 .. Len(mem) /\ lev[mem[s[1]][s[2]].to] = k - 1
  BY <1>1, <1>2, StepDown
<1> QED BY <1>3 DEF Level

LEMMA TablesHaveLevels ==
    ASSUME NEW lev, Levels(mem, dirs, lev), Descends(mem, lev)
    PROVE  /\ dirs \subseteq Level(lev, 4) /\ PDPTs \subseteq Level(lev, 3)
           /\ PDEs \subseteq Level(lev, 2) /\ PTEs \subseteq Level(lev, 1)
<1>1. dirs \subseteq Level(lev, 4)
  BY DEF Levels, Level
<1>2. PDPTs \subseteq Level(lev, 3)
  BY <1>1, TargetsDescend DEF PDPTs
<1>3. PDEs \subseteq Level(lev, 2)
  BY <1>2, TargetsDescend DEF PDEs
<1>4. PTEs \subseteq Level(lev, 1)
  BY <1>3, TargetsDescend DEF PTEs
<1> QED BY <1>1, <1>2, <1>3, <1>4

\* The pages placed and their entries are of the right type, and a directory is
\* a page placed: what map, unmap, create_user_page_directory and
\* setup_user_memory_layout write are entries of tables that are there.
THEOREM TypeOKHolds == Spec => []TypeOK
<1>1. PTInv => TypeOK
  <2> SUFFICES ASSUME PTInv PROVE TypeOK
    OBVIOUS
  <2> QED BY PTInvFacts DEF PTInv, TypeOK, Table
<1> QED BY <1>1, Invariance, PTL

\* get_page (paging.cpp:61-121) builds trees: however maps, unmaps, stacks and
\* new directories are interleaved, a page serves as a table at one level only
\* and hangs from one entry only, the kernel's in each directory aside.
THEOREM TreeSoundHolds == Spec => []TreeSound
<1>1. PTInv => TreeSound
  <2> SUFFICES ASSUME PTInv PROVE TreeSound
    OBVIOUS
  <2>1. PICK lev, own : Fine(mem, dirs, lev, own, taken)
    BY DEF PTInv
  <2>2. /\ Levels(mem, dirs, lev) /\ Descends(mem, lev) /\ OneParent(mem, lev)
    BY <2>1 DEF Fine, Shaped
  <2>3. /\ dirs \subseteq Level(lev, 4) /\ PDPTs \subseteq Level(lev, 3)
        /\ PDEs \subseteq Level(lev, 2) /\ PTEs \subseteq Level(lev, 1)
    BY <2>2, TablesHaveLevels
  <2>4. Tables \subseteq 1 .. Len(mem)
    BY <2>3 DEF Tables, Level
  <2>5. /\ dirs \cap PDPTs = {} /\ (dirs \cup PDPTs) \cap PDEs = {}
        /\ (dirs \cup PDPTs \cup PDEs) \cap PTEs = {}
    BY <2>3 DEF Level
  <2>6. ASSUME NEW s \in Slots(dirs \cup PDPTs \cup PDEs),
               NEW t \in Slots(dirs \cup PDPTs \cup PDEs),
               mem[s[1]][s[2]].to = mem[t[1]][t[2]].to
        PROVE  s = t \/ (s[2] = KERNEL /\ {s[1], t[1]} \subseteq dirs)
    <3>1. ASSUME NEW x \in Slots(dirs \cup PDPTs \cup PDEs)
          PROVE  Links(mem, lev, x[1], x[2]) /\ x[1] \in Nat /\ x[2] \in Index /\ x = <<x[1], x[2]>>
      <4>1. /\ x[1] \in dirs \cup PDPTs \cup PDEs /\ x[1] \in Nat /\ x[2] \in Index
            /\ x = <<x[1], x[2]>> /\ mem[x[1]][x[2]].present
        BY DEF Slots
      <4>2. lev[x[1]] >= 2
        BY <2>3, <4>1 DEF Level
      <4> QED BY <4>1, <4>2 DEF Links
    <3>2. \/ s[1] = t[1] /\ s[2] = t[2]
          \/ lev[s[1]] = 4 /\ lev[t[1]] = 4 /\ s[2] = KERNEL /\ t[2] = KERNEL
      <4>1. /\ Links(mem, lev, s[1], s[2]) /\ Links(mem, lev, t[1], t[2])
            /\ s[1] \in Nat /\ t[1] \in Nat /\ s[2] \in Index /\ t[2] \in Index
        BY <3>1
      <4> QED BY <2>2, <2>6, <4>1, Zenon DEF OneParent
    <3>3. s[1] \in Nat /\ t[1] \in Nat /\ s = <<s[1], s[2]>> /\ t = <<t[1], t[2]>>
      BY <3>1
    <3>4. CASE s[1] = t[1] /\ s[2] = t[2]
      BY <3>3, <3>4, Zenon
    <3>5. CASE lev[s[1]] = 4 /\ lev[t[1]] = 4 /\ s[2] = KERNEL
      <4>1. s[1] \in dirs /\ t[1] \in dirs
        BY <2>2, <3>3, <3>5 DEF Levels
      <4> QED BY <3>5, <4>1
    <3> QED BY <3>2, <3>4, <3>5
  <2> QED BY <2>4, <2>5, <2>6 DEF TreeSound
<1> QED BY <1>1, Invariance, PTL

\* The window at KVIRTUAL_ADDRESS, through which ADDRESS (paging.cpp:14)
\* reaches every table, stays what map_kernel_memory made it, in every directory.
THEOREM WindowIntactHolds == Spec => []WindowIntact
<1>1. PTInv => WindowIntact
  BY DEF PTInv, Fine, Intact, WindowIntact
<1> QED BY <1>1, Invariance, PTL

\* No mapping that map, mapio and setup_user_memory_layout make lets the user of
\* a process reach a page table.
THEOREM TablesProtectedHolds == Spec => []TablesProtected
<1>1. PTInv => TablesProtected
  <2> SUFFICES ASSUME PTInv, NEW d \in dirs, NEW v \in Pages, UserReaches(d, v)
               PROVE  Translate(mem, d, v).to \notin Tables
    BY DEF TablesProtected
  <2>1. PICK lev, own : Fine(mem, dirs, lev, own, taken)
    BY DEF PTInv
  <2>2. Levels(mem, dirs, lev) /\ Descends(mem, lev)
    BY <2>1 DEF Fine, Shaped
  <2> DEFINE q == Translate(mem, d, v).to
  <2>3. Usable(mem, lev, taken, q)
    BY <2>1 DEF Fine, UserTargets, UserReaches
  <2> HIDE DEF q
  <2>4. \A t \in Tables : t \in 1 .. Len(mem) /\ lev[t] # 0
    BY <2>2, TablesHaveLevels DEF Tables, Level
  <2>5. Len(mem) <= MaxPages /\ MaxPages < POOL /\ MaxPages \in Nat /\ POOL \in Nat
        /\ Len(mem) \in Nat
    BY PageTablesAssumption, PTInvFacts DEF PTInv
  <2>6. ASSUME q \in Tables PROVE FALSE
    BY <2>3, <2>4, <2>5, <2>6 DEF Usable
  <2> QED BY <2>6 DEF q
<1> QED BY <1>1, Invariance, PTL

\* Two processes never reach the same page, and one process reaches a page at
\* one address: what create_user_page_directory is for (paging.cpp:212-247).
THEOREM IsolatedHolds == Spec => []Isolated
<1>1. PTInv => Isolated
  <2> DEFINE reached == {s \in dirs \X Pages : UserReaches(s[1], s[2])}
  <2> SUFFICES ASSUME PTInv, NEW s \in reached, NEW t \in reached,
                      Translate(mem, s[1], s[2]).to = Translate(mem, t[1], t[2]).to
               PROVE  s = t
    BY DEF Isolated
  <2>1. Separate(mem, dirs)
    BY DEF PTInv, Fine
  <2>2. /\ s[1] \in dirs /\ s[2] \in Pages /\ Translate(mem, s[1], s[2]).user /\ s = <<s[1], s[2]>>
        /\ t[1] \in dirs /\ t[2] \in Pages /\ Translate(mem, t[1], t[2]).user /\ t = <<t[1], t[2]>>
    BY DEF UserReaches
  <2>3. s[1] = t[1] /\ s[2] = t[2]
    BY <2>1, <2>2 DEF Separate
  <2> QED BY <2>2, <2>3
<1> QED BY <1>1, Invariance, PTL

\* When map, mapio, unmap and setup_user_memory_layout return, a walk of the
\* tables finds what they were asked to put there, whatever tables were missing
\* on the way and whoever made the others: registers for which mapio got the
\* start of a page, and the stack up to the page of its top.
THEOREM TakesEffectHolds == Spec => TakesEffect
<1> DEFINE Effect ==
      /\ \A v \in HeapPages :
            KernelMap(v) => Translate(mem', BOOT, v) = Leaf(POOL + taken, FALSE)
      /\ \A a \in Devices :
            MapIO(a) /\ a % PAGE_SIZE = 0 =>
               Translate(mem', BOOT, DevicePage(a)) = Leaf(a \div PAGE_SIZE, FALSE)
      /\ \A dir \in dirs \ {BOOT}, v \in UserPages :
            UserMap(dir, v) => Translate(mem', dir, v) = Leaf(POOL + taken, TRUE)
      /\ \A dir \in dirs, v \in Pages :
            Unmap(dir, v) => Translate(mem', dir, v) = Nowhere
      /\ \A dir \in dirs \ {BOOT} :
            SetupStack(dir) => \A a \in (STACK_TOP - STACK_SIZE) .. (STACK_TOP - 1) :
               a \div PAGE_SIZE < STACK_TOP \div PAGE_SIZE =>
                  Translate(mem', dir, a \div PAGE_SIZE).user
<1>1. PTInv => Effect
  <2> SUFFICES ASSUME PTInv PROVE Effect
    OBVIOUS
  <2>1. BOOT \in dirs
    BY PTInvFacts
  <2>2. ASSUME NEW v \in HeapPages, KernelMap(v)
        PROVE  Translate(mem', BOOT, v) = Leaf(POOL + taken, FALSE)
    <3>1. Changed(mem, dirs, BOOT, v, Leaf(POOL + taken, FALSE), mem') /\ v \in Addresses
      BY <2>2, KernelMapStep, PageFacts
    <3> QED BY <2>1, <3>1 DEF Changed
  <2>3. ASSUME NEW a \in Devices, MapIO(a), a % PAGE_SIZE = 0
        PROVE  Translate(mem', BOOT, DevicePage(a)) = Leaf(a \div PAGE_SIZE, FALSE)
    <3>1. /\ Changed(mem, dirs, BOOT, DevicePage(a), Seen(Raw(a + 3), FALSE), mem')
          /\ DevicePage(a) \in Addresses
      BY <2>3, MapIOStep, PageFacts
    <3>2. Seen(Raw(a + 3), FALSE) = Leaf(a \div PAGE_SIZE, FALSE)
      BY <2>3, RawAligned, PageTablesAssumption
    <3> QED BY <2>1, <3>1, <3>2 DEF Changed
  <2>4. ASSUME NEW d \in dirs \ {BOOT}, NEW v \in UserPages, UserMap(d, v)
        PROVE  Translate(mem', d, v) = Leaf(POOL + taken, TRUE)
    <3>1. Changed(mem, dirs, d, v, Leaf(POOL + taken, TRUE), mem') /\ v \in Addresses
      BY <2>4, UserMapStep, PageFacts
    <3> QED BY <3>1 DEF Changed
  <2>5. ASSUME NEW d \in dirs, NEW v \in Pages, Unmap(d, v)
        PROVE  Translate(mem', d, v) = Nowhere
    <3>1. Changed(mem, dirs, d, v, Nowhere, mem') /\ v \in Addresses
      BY <2>5, UnmapStep, PageFacts
    <3> QED BY <3>1 DEF Changed
  <2>6. ASSUME NEW d \in dirs \ {BOOT}, SetupStack(d),
               NEW a \in (STACK_TOP - STACK_SIZE) .. (STACK_TOP - 1),
               a \div PAGE_SIZE < STACK_TOP \div PAGE_SIZE
        PROVE  Translate(mem', d, a \div PAGE_SIZE).user
    <3>1. a \div PAGE_SIZE \in Stack
      BY <2>6, StackBytes
    <3> QED BY <2>6, <3>1, SetupStackStep
  <2> QED BY <2>2, <2>3, <2>4, <2>5, <2>6
<1>2. PTInv => [Effect]_vars
  BY <1>1
<1> HIDE DEF Effect
<1>3. Spec => [][Effect]_vars
  BY <1>2, Invariance, PTL
<1> QED BY <1>3 DEF TakesEffect, Effect

-----------------------------------------------------------------------------
\* The tables do what PageMap promises.

\* What the directories map.
Maps(m, ds) == [dir \in ds |-> [v \in Pages |-> Translate(m, dir, v)]]

LEMMA MapsAt ==
    ASSUME NEW m, NEW ds
    PROVE  /\ DOMAIN Maps(m, ds) = ds
           /\ \A d \in ds, v \in Pages : Maps(m, ds)[d][v] = Translate(m, d, v)
BY DEF Maps

LEMMA MapIs == Map!PMNext <=>
    \/ \E d \in DOMAIN Maps(mem', dirs') :
          /\ d \notin DOMAIN Maps(mem, dirs)
          /\ Maps(mem', dirs') =
               [e \in DOMAIN Maps(mem, dirs) \cup {d} |->
                  IF e # d THEN Maps(mem, dirs)[e]
                  ELSE [v \in Pages |-> IF v \in KernelPages THEN Maps(mem, dirs)[BOOT][v]
                                        ELSE Nowhere]]
    \/ \E d \in DOMAIN Maps(mem, dirs),
          some \in {{v} : v \in Pages} \cup {{StackPage(i) : i \in 0 .. (StackPages - 1)}} :
          /\ DOMAIN Maps(mem', dirs') = DOMAIN Maps(mem, dirs)
          /\ \A e \in DOMAIN Maps(mem, dirs), v \in Pages :
                Maps(mem', dirs')[e][v] =
                  IF v \in some /\ (e = d \/ v \in KernelPages) THEN Maps(mem', dirs')[d][v]
                  ELSE Maps(mem, dirs)[e][v]
BY DEF Map!PMNext, Map!Create, Map!Change, Maps

\* Changing one page is a step of PageMap that changes this page.
LEMMA OneChange ==
    ASSUME NEW d \in dirs, NEW v \in Pages, NEW x, dirs' = dirs,
           Changed(mem, dirs, d, v, x, mem')
    PROVE  Map!PMNext
<1> DEFINE some == {v}
<1>1. \A w : w \in some <=> w = v
  OBVIOUS
<1>2. some \in {{w} : w \in Pages}
  OBVIOUS
<1> HIDE DEF some
<1>3. \A e \in dirs, w \in Addresses :
        Translate(mem', e, w) = IF w = v /\ (e = d \/ PML4(v) = KERNEL) THEN x
                                ELSE Translate(mem, e, w)
  BY DEF Changed
<1>4. ASSUME NEW e \in dirs, NEW w \in Pages
      PROVE  Maps(mem', dirs)[e][w] =
               IF w \in some /\ (e = d \/ w \in KernelPages) THEN Maps(mem', dirs)[d][w]
               ELSE Maps(mem, dirs)[e][w]
  <2>1. w \in Addresses /\ (w \in KernelPages <=> PML4(w) = KERNEL)
    BY PageFacts
  <2>2. /\ Maps(mem', dirs)[e][w] = Translate(mem', e, w)
        /\ Maps(mem', dirs)[d][w] = Translate(mem', d, w)
        /\ Maps(mem, dirs)[e][w] = Translate(mem, e, w)
    BY MapsAt
  <2>3. CASE w = v /\ (e = d \/ PML4(v) = KERNEL)
    <3>1. Translate(mem', e, w) = x
      BY <1>3, <2>1, <2>3
    <3>2. Translate(mem', d, w) = x
      BY <1>3, <2>1, <2>3
    <3>3. w \in some /\ (e = d \/ w \in KernelPages)
      BY <1>1, <2>1, <2>3
    <3> QED BY <2>2, <3>1, <3>2, <3>3
  <2>4. CASE ~ (w = v /\ (e = d \/ PML4(v) = KERNEL))
    <3>1. Translate(mem', e, w) = Translate(mem, e, w)
      BY <1>3, <2>1, <2>4
    <3>2. ~ (w \in some /\ (e = d \/ w \in KernelPages))
      BY <1>1, <2>1, <2>4
    <3> QED BY <2>2, <3>1, <3>2
  <2> QED BY <2>3, <2>4
<1>5. DOMAIN Maps(mem', dirs') = dirs /\ DOMAIN Maps(mem, dirs) = dirs
  BY MapsAt
<1> QED BY <1>2, <1>4, <1>5, MapIs

LEMMA StackChange ==
    ASSUME NEW d \in dirs, dirs' = dirs,
           \A e \in dirs, w \in Addresses :
              ~ (e = d /\ w \in Stack) => Translate(mem', e, w) = Translate(mem, e, w)
    PROVE  Map!PMNext
<1>1. ASSUME NEW e \in dirs, NEW w \in Pages
      PROVE  Maps(mem', dirs)[e][w] = IF w \in Stack /\ (e = d \/ w \in KernelPages)
                                        THEN Maps(mem', dirs)[d][w] ELSE Maps(mem, dirs)[e][w]
  <2>1. w \in Addresses /\ (w \in KernelPages <=> PML4(w) = KERNEL)
        /\ (w \in Stack => PML4(w) # KERNEL)
    BY PageFacts
  <2>2. /\ Maps(mem', dirs)[e][w] = Translate(mem', e, w)
        /\ Maps(mem', dirs)[d][w] = Translate(mem', d, w)
        /\ Maps(mem, dirs)[e][w] = Translate(mem, e, w)
    BY MapsAt
  <2>3. CASE w \in Stack /\ e = d
    BY <2>2, <2>3
  <2>4. CASE ~ (w \in Stack /\ e = d)
    <3>1. Translate(mem', e, w) = Translate(mem, e, w)
      BY <2>1, <2>4
    <3>2. ~ (w \in Stack /\ (e = d \/ w \in KernelPages))
      BY <2>1, <2>4
    <3> QED BY <2>2, <3>1, <3>2
  <2> QED BY <2>3, <2>4
<1>2. DOMAIN Maps(mem', dirs') = dirs /\ DOMAIN Maps(mem, dirs) = dirs
  BY MapsAt
<1> DEFINE Together == {{v} : v \in Pages} \cup {{StackPage(i) : i \in 0 .. (StackPages - 1)}}
<1>3. Stack \in Together
  BY DEF Stack
<1> HIDE DEF Together
<1>4. \E f \in DOMAIN Maps(mem, dirs), some \in Together :
        /\ DOMAIN Maps(mem', dirs') = DOMAIN Maps(mem, dirs)
        /\ \A e \in DOMAIN Maps(mem, dirs), v \in Pages :
              Maps(mem', dirs')[e][v] =
                IF v \in some /\ (e = f \/ v \in KernelPages) THEN Maps(mem', dirs')[f][v]
                ELSE Maps(mem, dirs)[e][v]
  BY <1>1, <1>2, <1>3
<1> QED BY <1>4, MapIs DEF Together

LEMMA CreateChange ==
    ASSUME PTInv, CreateDirectory
    PROVE  Map!PMNext
<1> DEFINE n == Len(mem) + 1
           new == [w \in Pages |-> IF w \in KernelPages THEN Maps(mem, dirs)[BOOT][w] ELSE Nowhere]
<1>1. /\ dirs' = dirs \cup {n} /\ n \notin dirs /\ SameWalks(mem, dirs, mem')
      /\ \A w \in Addresses :
           Translate(mem', n, w) = IF PML4(w) = KERNEL THEN Translate(mem, BOOT, w) ELSE Nowhere
  BY CreateStep
<1>2. BOOT \in dirs
  BY PTInvFacts
<1> HIDE DEF n
<1>3. DOMAIN Maps(mem', dirs') = dirs \cup {n} /\ DOMAIN Maps(mem, dirs) = dirs
  BY <1>1, MapsAt
<1>4. ASSUME NEW e \in dirs PROVE Maps(mem', dirs')[e] = Maps(mem, dirs)[e]
  <2>1. \A w \in Pages : Translate(mem', e, w) = Translate(mem, e, w)
    BY <1>1, PageFacts DEF SameWalks
  <2>2. e \in dirs'
    BY <1>1
  <2> QED BY <2>1, <2>2 DEF Maps
<1>5. Maps(mem', dirs')[n] = new
  <2>1. ASSUME NEW w \in Pages
        PROVE  Translate(mem', n, w) =
                 IF w \in KernelPages THEN Maps(mem, dirs)[BOOT][w] ELSE Nowhere
    <3>1. w \in Addresses /\ (w \in KernelPages <=> PML4(w) = KERNEL)
      BY PageFacts
    <3>2. Maps(mem, dirs)[BOOT][w] = Translate(mem, BOOT, w)
      BY <1>2, MapsAt
    <3> QED BY <1>1, <3>1, <3>2
  <2>2. Maps(mem', dirs')[n] = [w \in Pages |-> Translate(mem', n, w)]
    BY <1>1 DEF Maps
  <2> QED BY <2>1, <2>2
<1> HIDE DEF new
<1>6. Maps(mem', dirs') = [e \in dirs \cup {n} |-> IF e # n THEN Maps(mem, dirs)[e] ELSE new]
  <2>1. Maps(mem', dirs') = [e \in dirs \cup {n} |-> Maps(mem', dirs')[e]]
    BY <1>1 DEF Maps
  <2>2. \A e \in dirs \cup {n} :
          Maps(mem', dirs')[e] = IF e # n THEN Maps(mem, dirs)[e] ELSE new
    BY <1>4, <1>5
  <2> QED BY <2>1, <2>2
<1>7. n \in DOMAIN Maps(mem', dirs') /\ n \notin DOMAIN Maps(mem, dirs)
  BY <1>1, <1>3
<1> QED BY <1>3, <1>6, <1>7, MapIs DEF new

\* With all their levels the tables promise no more and no less than PageMap: an
\* operation changes the pages it is asked to change, in the directory it is
\* asked to change, and no other directory sees it, the kernel's pages aside.
THEOREM ImplementsPageMap == Spec => Implements
<1>1. Init => Map!PMInit
  <2> SUFFICES ASSUME Init PROVE Map!PMInit
    OBVIOUS
  <2>1. mem = BootTables /\ dirs = {BOOT}
    BY DEF Init
  <2> QED BY <2>1, Zenon DEF Map!PMInit
<1>2. PTInv /\ [Next]_vars =>
        [Map!PMNext]_[dir \in dirs |-> [v \in Pages |-> Translate(mem, dir, v)]]
  <2> SUFFICES ASSUME PTInv, [Next]_vars
               PROVE  \/ Map!PMNext
                      \/ Maps(mem', dirs') = Maps(mem, dirs)
    BY DEF Maps
  <2>1. CASE \E v \in HeapPages : KernelMap(v)
    BY <2>1, KernelMapStep, OneChange, PTInvFacts, PageFacts
  <2>2. CASE \E v \in HeapPages : Unmap(BOOT, v)
    BY <2>2, UnmapStep, OneChange, PTInvFacts, PageFacts
  <2>3. CASE \E a \in Devices : MapIO(a)
    BY <2>3, MapIOStep, OneChange, PTInvFacts, PageFacts
  <2>4. CASE \E a \in Devices : Unmap(BOOT, DevicePage(a))
    BY <2>4, UnmapStep, OneChange, PTInvFacts, PageFacts
  <2>5. CASE CreateDirectory
    BY <2>5, CreateChange
  <2>6. CASE \E d \in dirs \ {BOOT} : SetupStack(d)
    BY <2>6, SetupStackStep, StackChange
  <2>7. CASE \E d \in dirs \ {BOOT}, v \in UserPages : UserMap(d, v)
    BY <2>7, UserMapStep, OneChange, PageFacts
  <2>8. CASE \E d \in dirs \ {BOOT}, v \in UserPages : Unmap(d, v)
    BY <2>8, UnmapStep, OneChange, PageFacts
  <2>9. CASE UNCHANGED vars
    BY <2>9 DEF vars
  <2> QED BY <2>1, <2>2, <2>3, <2>4, <2>5, <2>6, <2>7, <2>8, <2>9 DEF Next
<1> QED BY <1>1, <1>2, Invariance, PTL DEF Spec, Implements, Map!PMSpec

=============================================================================
