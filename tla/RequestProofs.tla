------------------------------ MODULE RequestProofs ------------------------------
(*******************************************************************************)
(* Proofs about Wire and Request, for any operations, keys and lengths.        *)
(*                                                                             *)
(* First the wire format, by induction over the fields of an operation and     *)
(* over the bytes of a padding.  Then the exchange: its invariant says that    *)
(* the packet under way is NewPacket of what was asked or answered, and that   *)
(* the answer is one that the server may give to what it has read.             *)
(*******************************************************************************)
EXTENDS Request, WellFoundedInduction, TLAPS

(* Induction over the natural numbers, for a set.                              *)
LEMMA SetInduction ==
    ASSUME NEW S, 0 \in S, \A n \in Nat : n \in S => n + 1 \in S
    PROVE  Nat \subseteq S
<1> DEFINE T == Nat \ S
<1> SUFFICES ASSUME T # {} PROVE FALSE
    OBVIOUS
<1>1. T \subseteq Nat
    OBVIOUS
<1>2. PICK x \in T : \A y \in T : ~ (<<y, x>> \in OpToRel(<, Nat))
  <2> HIDE DEF T
  <2> QED
    BY <1>1, WFMin, NatLessThanWellFounded, Zenon
<1>3. \A y \in T : ~ (y < x)
    BY <1>1, <1>2 DEF OpToRel
<1>4. x # 0 /\ x - 1 \in Nat
    OBVIOUS
<1>5. x - 1 \in S
    BY <1>3, <1>4
<1> QED
    BY <1>4, <1>5

(* A function over 0 .. N can be defined step by step: from its first value, and *)
(* from each value to the next one.                                            *)
Iterates(f, N, V, b, G) ==
    /\ f \in [0 .. N -> V] /\ f[0] = b
    /\ \A n \in 1 .. N : f[n] \in V /\ f[n - 1] \in V /\ f[n] = G[n][f[n - 1]]

LEMMA Recursion ==
    ASSUME NEW N \in Nat, NEW V, NEW b \in V, NEW G \in [1 .. N -> [V -> V]]
    PROVE  \E f : Iterates(f, N, V, b, G)
<1> DEFINE P(m, f) == /\ f \in [0 .. m -> V] /\ f[0] = b
                      /\ \A n \in 1 .. m : f[n] = G[n][f[n - 1]]
           S == {m \in Nat : m <= N => \E f : P(m, f)}
<1>1. 0 \in S
  <2>1. P(0, [i \in 0 .. 0 |-> b])
    OBVIOUS
  <2> QED
    BY <2>1
<1>2. ASSUME NEW m \in Nat, m \in S PROVE m + 1 \in S
  <2> SUFFICES ASSUME m + 1 <= N PROVE \E f : P(m + 1, f)
    OBVIOUS
  <2>1. PICK f : P(m, f)
    BY <1>2
  <2> DEFINE x == G[m + 1][f[m]]
             g == [i \in 0 .. m + 1 |-> IF i = m + 1 THEN x ELSE f[i]]
  <2>2. x \in V
    BY <2>1
  <2>3. g \in [0 .. m + 1 -> V] /\ g[0] = b
    BY <2>1, <2>2
  <2>4. ASSUME NEW n \in 1 .. m + 1 PROVE g[n] = G[n][g[n - 1]]
    <3>1. CASE n = m + 1
      BY <3>1
    <3>2. CASE n # m + 1
      <4>1. n \in 1 .. m /\ n \in 0 .. m + 1 /\ n - 1 \in 0 .. m + 1 /\ n - 1 # m + 1
        BY <3>2
      <4>2. g[n] = f[n] /\ g[n - 1] = f[n - 1]
        BY <4>1, <3>2
      <4> QED
        BY <4>1, <4>2, <2>1
    <3> QED
      BY <3>1, <3>2
  <2>5. P(m + 1, g)
    BY <2>3, <2>4
  <2> QED
    BY <2>5
<1> HIDE DEF S
<1>3. N \in S
    BY <1>1, <1>2, SetInduction
<1>4. PICK f : P(N, f)
    BY <1>3 DEF S
<1>5. Iterates(f, N, V, b, G)
  <2>1. ASSUME NEW n \in 1 .. N PROVE n - 1 \in 0 .. N /\ n \in 0 .. N
    OBVIOUS
  <2> QED
    BY <1>4, <2>1 DEF Iterates
<1> QED
    BY <1>5

(* Induction over an interval.                                                 *)
LEMMA IntervalInduction ==
    ASSUME NEW N \in Nat, NEW S, 0 \in S, \A n \in 1 .. N : n - 1 \in S => n \in S
    PROVE  0 .. N \subseteq S
<1> DEFINE T == {n \in Nat : n <= N => n \in S}
<1>1. 0 \in T
    OBVIOUS
<1>2. ASSUME NEW n \in Nat, n \in T PROVE n + 1 \in T
  <2> SUFFICES ASSUME n + 1 <= N PROVE n + 1 \in S
    OBVIOUS
  <2>1. n + 1 \in 1 .. N /\ (n + 1) - 1 = n /\ n \in S
    BY <1>2
  <2> QED
    BY <2>1
<1> HIDE DEF T
<1>3. Nat \subseteq T
    BY <1>1, <1>2, SetInduction
<1> QED
    BY <1>3 DEF T

(* What the first value satisfies and each step keeps, every value satisfies.  *)
LEMMA EveryValue ==
    ASSUME NEW N \in Nat, NEW V, NEW r, r[0] \in V,
           \A n \in 1 .. N : r[n - 1] \in V => r[n] \in V
    PROVE  \A n \in 0 .. N : r[n] \in V
<1> DEFINE T == {n \in 0 .. N : r[n] \in V}
<1>1. 0 \in T
    OBVIOUS
<1>2. ASSUME NEW n \in 1 .. N, n - 1 \in T PROVE n \in T
    BY <1>2
<1> HIDE DEF T
<1>3. 0 .. N \subseteq T
    BY <1>1, <1>2, IntervalInduction
<1> QED
    BY <1>3 DEF T
--------------------------------------------------------------------------------
(* The lengths                                                                 *)

(* The sum over a list of items, step by step.                                 *)
LEMMA SizesFacts ==
    ASSUME NEW S, \A x \in S : x.len \in Nat, NEW items \in Seq(S)
    PROVE  /\ Sizes(items) \in [0 .. Len(items) -> Nat]
           /\ Sizes(items)[0] = 0
           /\ \A i \in 1 .. Len(items) : Sizes(items)[i] = Sizes(items)[i - 1] + 3 + items[i].len
<1> DEFINE N == Len(items)
           G == [n \in 1 .. N |-> [v \in Nat |-> v + 3 + items[n].len]]
           E(f) == f = [i \in 0 .. N |-> IF i = 0 THEN 0 ELSE f[i - 1] + 3 + items[i].len]
<1>1. N \in Nat /\ \A i \in 1 .. N : items[i] \in S
    OBVIOUS
<1>2. \A i \in 1 .. N : items[i].len \in Nat
    BY <1>1
<1>3. G \in [1 .. N -> [Nat -> Nat]]
    BY <1>2
<1> HIDE DEF N
<1>4. PICK f : Iterates(f, N, Nat, 0, G)
  <2> HIDE DEF G
  <2> QED
    BY <1>1, <1>3, Recursion, 0 \in Nat, Zenon
<1>5. /\ f \in [0 .. N -> Nat] /\ f[0] = 0
      /\ \A n \in 1 .. N : f[n] = f[n - 1] + 3 + items[n].len
    BY <1>4 DEF Iterates
<1>6. E(f)
    BY <1>1, <1>5
<1>7. E(Sizes(items))
    BY <1>6, Zenon DEF Sizes, N
<1> DEFINE r == Sizes(items)
<1> HIDE DEF r
<1>8. r = [i \in 0 .. N |-> IF i = 0 THEN 0 ELSE r[i - 1] + 3 + items[i].len]
    BY <1>7 DEF r
<1>9. r[0] = 0 /\ \A i \in 1 .. N : r[i] = r[i - 1] + 3 + items[i].len
    BY <1>1, <1>8
<1>10. \A n \in 0 .. N : r[n] \in Nat
  <2>1. r[0] \in Nat /\ N \in Nat
    BY <1>1, <1>9
  <2>2. ASSUME NEW n \in 1 .. N, r[n - 1] \in Nat PROVE r[n] \in Nat
    <3>1. r[n] = r[n - 1] + 3 + items[n].len /\ items[n].len \in Nat
      BY <1>2, <1>9
    <3> QED
      BY <2>2, <3>1
  <2> QED
    BY <2>1, <2>2, EveryValue, Zenon
<1> QED
    BY <1>1, <1>8, <1>9, <1>10 DEF r, N

(* One item more.                                                              *)
LEMMA SizeOfAppend ==
    ASSUME NEW S, \A x \in S : x.len \in Nat, NEW items \in Seq(S), NEW e \in S
    PROVE  /\ Size(items) \in Nat
           /\ Size(Append(items, e)) = Size(items) + 3 + e.len
<1> DEFINE more == Append(items, e)
           N == Len(items)
           r == Sizes(items)
           t == Sizes(more)
<1>1. /\ more \in Seq(S) /\ Len(more) = N + 1 /\ N \in Nat
      /\ more[N + 1] = e /\ \A i \in 1 .. N : more[i] = items[i]
    OBVIOUS
<1>2. /\ r \in [0 .. N -> Nat] /\ r[0] = 0
      /\ \A i \in 1 .. N : r[i] = r[i - 1] + 3 + items[i].len
    BY SizesFacts
<1> HIDE DEF more
<1>3. /\ t[0] = 0
      /\ \A i \in 1 .. Len(more) : t[i] = t[i - 1] + 3 + more[i].len
    BY <1>1, SizesFacts
<1> HIDE DEF N, r, t
<1> DEFINE T == {n \in 0 .. N : t[n] = r[n]}
<1>4. 0 \in T
    BY <1>1, <1>2, <1>3
<1>5. ASSUME NEW n \in 1 .. N, n - 1 \in T PROVE n \in T
  <2>1. n \in 0 .. N /\ n \in 1 .. Len(more) /\ t[n - 1] = r[n - 1] /\ more[n] = items[n]
    BY <1>1, <1>5
  <2>2. t[n] = t[n - 1] + 3 + more[n].len /\ r[n] = r[n - 1] + 3 + items[n].len
    BY <1>2, <1>3, <2>1
  <2> QED
    BY <2>1, <2>2
<1> HIDE DEF T
<1>6. 0 .. N \subseteq T
    BY <1>1, <1>4, <1>5, IntervalInduction
<1>7. t[N] = r[N] /\ N \in 0 .. N /\ N + 1 \in 1 .. Len(more) /\ (N + 1) - 1 = N
    BY <1>1, <1>6 DEF T
<1>8. t[N + 1] = r[N] + 3 + e.len /\ r[N] \in Nat
    BY <1>1, <1>2, <1>3, <1>7
<1> QED
    BY <1>1, <1>8 DEF Size, r, t, more, N

LEMMA SizeOfNothing == Size(<<>>) = 0
<1>1. <<>> \in Seq({}) /\ Len(<<>>) = 0
    OBVIOUS
<1>2. Sizes(<<>>)[0] = 0
    BY <1>1, SizesFacts
<1> QED
    BY <1>1, <1>2 DEF Size
--------------------------------------------------------------------------------
(* The length that Bytes computes is that of what MarshalBinary writes         *)

(* The order of the fields, as far as the proofs use it.                       *)
LEMMA FieldsFacts ==
    /\ Len(Fields) \in Nat
    /\ \A n \in 1 .. Len(Fields) : Fields[n] \in Range(Fields) /\ Fields[n] # TagPadding
    /\ \A f \in Range(Fields) : \E n \in 1 .. Len(Fields) : f = Fields[n]
    /\ \A m, n \in 1 .. Len(Fields) : Fields[m] = Fields[n] => m = n
<1>1. Len(Fields) = 11 /\ DOMAIN Fields = 1 .. 11
    BY DEF Fields
<1>2. \A m, n \in 1 .. 11 : Fields[m] = Fields[n] => m = n
    BY DEF Fields
<1>3. \A n \in 1 .. 11 : Fields[n] # TagPadding
    BY DEF Fields, TagPadding
<1> QED
    BY <1>1, <1>2, <1>3 DEF Range

LEMMA AddLenSum ==
    ASSUME NEW s \in Nat, NEW l \in Nat
    PROVE  AddLen(IF s <= MaxUint16 THEN s ELSE Panic, tlvLen(l))
             = IF s + 3 + l <= MaxUint16 THEN s + 3 + l ELSE Panic
<1>1. CASE s > MaxUint16 \/ l > MaxUint16 - 3
    BY <1>1, WireAssumption DEF AddLen, tlvLen, MaxUint16
<1>2. CASE s <= MaxUint16 /\ l <= MaxUint16 - 3
  <2>1. tlvLen(l) = 3 + l /\ tlvLen(l) # Panic /\ s # Panic
    BY <1>2, WireAssumption DEF tlvLen, MaxUint16
  <2>2. AddLen(s, 3 + l) = IF (3 + l + s) % 65536 < s THEN Panic ELSE (3 + l + s) % 65536
    BY <2>1 DEF AddLen, MaxUint16
  <2>3. 3 + l + s < 65536 => (3 + l + s) % 65536 = 3 + l + s
    OBVIOUS
  <2>4. 3 + l + s >= 65536 => (3 + l + s) % 65536 = 3 + l + s - 65536
    BY <1>2 DEF MaxUint16
  <2> QED
    BY <1>2, <2>1, <2>2, <2>3, <2>4 DEF MaxUint16
<1> QED
    BY <1>1, <1>2 DEF MaxUint16

(* What is written for a field that is present.                                *)
LEMMA EncodedFacts ==
    ASSUME NEW o, IsOperation(o), NEW f \in Range(Fields), Present(o, f)
    PROVE  /\ Encoded(o, f).len \in Nat
           /\ FieldLen(o, f) = Encoded(o, f).len
           /\ Item(f, Encoded(o, f)).len = Encoded(o, f).len
<1>1. IsField(f, o[f])
    BY DEF IsOperation
<1>2. CASE f \in IPFields
  <2>1. o[f] # Nil
    BY <1>2 DEF Present, IPFields, SliceFields
  <2>2. IsBlob(o[f]) /\ o[f].len \in (IF o[f].val = "IPv4" THEN {4, 16} ELSE {16})
    BY <1>1, <1>2, <2>1 DEF IsField, IPFields
  <2> QED
    BY <1>2, <2>2, WireAssumption DEF FieldLen, Encoded, To4, Blob, Item
<1>3. CASE f \notin IPFields
  <2>1. IsBlob(o[f])
    BY <1>1, <1>3 DEF IsField, Present, IPFields, SliceFields
  <2> QED
    BY <1>3, <2>1 DEF FieldLen, Encoded, Item, IsBlob
<1> QED
    BY <1>2, <1>3

(* The items that are written for an operation, in any order.                  *)
ItemsOf(o) == {Item(f, Encoded(o, f)) : f \in {g \in Range(Fields) : Present(o, g)}}

LEMMA ItemsFacts ==
    ASSUME NEW o, IsOperation(o)
    PROVE  /\ \A x \in ItemsOf(o) : x.len \in Nat
           /\ \A n \in 1 .. Len(Fields) :
                 Present(o, Fields[n]) => Item(Fields[n], Encoded(o, Fields[n])) \in ItemsOf(o)
    BY FieldsFacts, EncodedFacts DEF ItemsOf

(* The items of MarshalBinary, step by step.                                   *)
LEMMA WrittenFacts ==
    ASSUME NEW o, IsOperation(o)
    PROVE  /\ Written(o)[0] = <<>>
           /\ \A n \in 0 .. Len(Fields) : Written(o)[n] \in Seq(ItemsOf(o))
           /\ \A n \in 1 .. Len(Fields) :
                 Written(o)[n] =
                    IF Present(o, Fields[n])
                    THEN Append(Written(o)[n - 1], Item(Fields[n], Encoded(o, Fields[n])))
                    ELSE Written(o)[n - 1]
<1> DEFINE N == Len(Fields)
           V == Seq(ItemsOf(o))
           H(v, n) == IF Present(o, Fields[n])
                      THEN Append(v, Item(Fields[n], Encoded(o, Fields[n])))
                      ELSE v
           G == [n \in 1 .. N |-> [v \in V |-> H(v, n)]]
           E(f) == f = [n \in 0 .. N |-> IF n = 0 THEN <<>> ELSE H(f[n - 1], n)]
<1>1. N \in Nat /\ <<>> \in V
    BY FieldsFacts
<1>2. \A n \in 1 .. N, v \in V : H(v, n) \in V
    BY ItemsFacts
<1> HIDE DEF N, H, V
<1>3. G \in [1 .. N -> [V -> V]]
    BY <1>2
<1>4. PICK f : Iterates(f, N, V, <<>>, G)
  <2> HIDE DEF G
  <2> QED
    BY <1>1, <1>3, Recursion, Zenon
<1>5. f \in [0 .. N -> V] /\ f[0] = <<>> /\ \A n \in 1 .. N : f[n] = H(f[n - 1], n)
    BY <1>4 DEF Iterates
<1>6. E(f)
    BY <1>1, <1>5
<1>7. E(Written(o))
    BY <1>6, Zenon DEF Written, N, H
<1> DEFINE r == Written(o)
<1> HIDE DEF r
<1>8. r = [n \in 0 .. N |-> IF n = 0 THEN <<>> ELSE H(r[n - 1], n)]
    BY <1>7 DEF r
<1>9. r[0] = <<>> /\ \A n \in 1 .. N : r[n] = H(r[n - 1], n)
    BY <1>1, <1>8
<1>10. \A n \in 0 .. N : r[n] \in V
  <2>1. ASSUME NEW n \in 1 .. N, r[n - 1] \in V PROVE r[n] \in V
    BY <1>2, <1>9, <2>1
  <2> QED
    BY <1>1, <1>9, <2>1, EveryValue, Zenon
<1> QED
    BY <1>9, <1>10 DEF r, N, V, H

(* The sum of Bytes, step by step.                                             *)
LEMMA FieldLensFacts ==
    ASSUME NEW o, IsOperation(o)
    PROVE  /\ FieldLens(o)[0] = 0
           /\ \A n \in 1 .. Len(Fields) :
                 FieldLens(o)[n] =
                    IF Present(o, Fields[n])
                    THEN AddLen(FieldLens(o)[n - 1], tlvLen(FieldLen(o, Fields[n])))
                    ELSE FieldLens(o)[n - 1]
<1> DEFINE N == Len(Fields)
           V == Nat \cup {Panic}
           H(v, n) == IF Present(o, Fields[n]) THEN AddLen(v, tlvLen(FieldLen(o, Fields[n])))
                      ELSE v
           G == [n \in 1 .. N |-> [v \in V |-> H(v, n)]]
           E(f) == f = [n \in 0 .. N |-> IF n = 0 THEN 0 ELSE H(f[n - 1], n)]
<1>1. N \in Nat /\ 0 \in V
    BY FieldsFacts
<1>2. ASSUME NEW n \in 1 .. N, NEW v \in V PROVE H(v, n) \in V
  <2>1. CASE Present(o, Fields[n])
    <3>1. tlvLen(FieldLen(o, Fields[n])) \in V
      BY <2>1, FieldsFacts, EncodedFacts DEF tlvLen, MaxUint16
    <3> QED
      BY <2>1, <3>1 DEF AddLen, MaxUint16
  <2> QED
    BY <2>1
<1> HIDE DEF N, H, V
<1>3. G \in [1 .. N -> [V -> V]]
    BY <1>2
<1>4. PICK f : Iterates(f, N, V, 0, G)
  <2> HIDE DEF G
  <2> QED
    BY <1>1, <1>3, Recursion, Zenon
<1>5. f \in [0 .. N -> V] /\ f[0] = 0 /\ \A n \in 1 .. N : f[n] = H(f[n - 1], n)
    BY <1>4 DEF Iterates
<1>6. E(f)
    BY <1>1, <1>5
<1>7. E(FieldLens(o))
    BY <1>6, Zenon DEF FieldLens, N, H
<1> DEFINE r == FieldLens(o)
<1> HIDE DEF r
<1>8. r = [n \in 0 .. N |-> IF n = 0 THEN 0 ELSE H(r[n - 1], n)]
    BY <1>7 DEF r
<1>9. r[0] = 0 /\ \A n \in 1 .. N : r[n] = H(r[n - 1], n)
    BY <1>1, <1>8
<1> QED
    BY <1>9 DEF r, N, H

(* After every field the sum is the number of bytes that are written, or a     *)
(* panic if that is more than fits in a packet.                                *)
LEMMA LengthsAgree ==
    ASSUME NEW o, IsOperation(o), NEW n \in 0 .. Len(Fields)
    PROVE  /\ Size(Written(o)[n]) \in Nat
           /\ FieldLens(o)[n] = IF Size(Written(o)[n]) <= MaxUint16 THEN Size(Written(o)[n])
                                ELSE Panic
<1> DEFINE w == Written(o)
           l == FieldLens(o)
           N == Len(Fields)
           T == {m \in 0 .. N : l[m] = IF Size(w[m]) <= MaxUint16 THEN Size(w[m]) ELSE Panic}
           J(m) == Item(Fields[m], Encoded(o, Fields[m]))
<1>1. N \in Nat
    BY FieldsFacts
<1>2. /\ w[0] = <<>> /\ \A m \in 0 .. N : w[m] \in Seq(ItemsOf(o))
      /\ \A m \in 1 .. N : w[m] = IF Present(o, Fields[m]) THEN Append(w[m - 1], J(m)) ELSE w[m - 1]
    BY WrittenFacts
<1>3. /\ l[0] = 0
      /\ \A m \in 1 .. N : l[m] = IF Present(o, Fields[m])
                                  THEN AddLen(l[m - 1], tlvLen(FieldLen(o, Fields[m])))
                                  ELSE l[m - 1]
    BY FieldLensFacts
<1> HIDE DEF w, l
<1>4. 0 \in T
    BY <1>1, <1>2, <1>3, SizeOfNothing DEF MaxUint16
<1>5. ASSUME NEW m \in 1 .. N, m - 1 \in T PROVE m \in T
  <2>1. CASE ~Present(o, Fields[m])
    BY <1>2, <1>3, <1>5, <2>1
  <2>2. CASE Present(o, Fields[m])
    <3> DEFINE s == w[m - 1]
               x == FieldLen(o, Fields[m])
    <3>1. s \in Seq(ItemsOf(o)) /\ J(m) \in ItemsOf(o) /\ J(m).len = x /\ x \in Nat
      <4>1. m - 1 \in 0 .. N /\ Fields[m] \in Range(Fields)
        BY <1>1, FieldsFacts
      <4>2. s \in Seq(ItemsOf(o))
        BY <1>2, <4>1
      <4>3. J(m) \in ItemsOf(o)
        BY <2>2, ItemsFacts
      <4>4. J(m).len = x /\ x \in Nat
        BY <2>2, <4>1, EncodedFacts
      <4> QED
        BY <4>2, <4>3, <4>4
    <3>2. l[m - 1] = IF Size(s) <= MaxUint16 THEN Size(s) ELSE Panic
      BY <1>5
    <3>3. w[m] = Append(s, J(m)) /\ l[m] = AddLen(l[m - 1], tlvLen(x))
      BY <1>2, <1>3, <2>2
    <3> HIDE DEF J, x, s
    <3>4. Size(s) \in Nat /\ Size(w[m]) = Size(s) + 3 + x
      BY <3>1, <3>3, ItemsFacts, SizeOfAppend
    <3>5. l[m] = IF Size(s) + 3 + x <= MaxUint16 THEN Size(s) + 3 + x ELSE Panic
      <4>1. AddLen(IF Size(s) <= MaxUint16 THEN Size(s) ELSE Panic, tlvLen(x))
              = IF Size(s) + 3 + x <= MaxUint16 THEN Size(s) + 3 + x ELSE Panic
        BY <3>1, <3>4, AddLenSum, Zenon
      <4> QED
        BY <3>2, <3>3, <4>1, Zenon
    <3> QED
      BY <3>4, <3>5
  <2> QED
    BY <2>1, <2>2
<1> HIDE DEF T
<1>6. 0 .. N \subseteq T
    BY <1>1, <1>4, <1>5, IntervalInduction
<1>7. l[n] = IF Size(w[n]) <= MaxUint16 THEN Size(w[n]) ELSE Panic
    BY <1>6 DEF T
<1>8. Size(w[n]) \in Nat
  <2>1. w[n] \in Seq(ItemsOf(o)) /\ \A x \in ItemsOf(o) : x.len \in Nat
    BY <1>2, ItemsFacts
  <2> QED
    BY <2>1, SizesFacts DEF Size
<1> QED
    BY <1>7, <1>8 DEF w, l

(* Bytes gives the length of what MarshalBinary writes, padding included, and  *)
(* panics if and only if it does not fit in the 16 bits of the header.         *)
THEOREM BytesAgree ==
    ASSUME NEW o, IsOperation(o)
    PROVE  /\ Size(Marshal(o)) \in Nat
           /\ Bytes(o) = IF Size(Marshal(o)) <= MaxUint16 THEN Size(Marshal(o)) ELSE Panic
<1> DEFINE items == Written(o)[Len(Fields)]
           n == Size(items)
           pad == Item(TagPadding, Blob(PaddingLen(n), Nil))
           S == ItemsOf(o) \cup {pad}
<1>1. /\ n \in Nat /\ items \in Seq(ItemsOf(o))
      /\ FieldLens(o)[Len(Fields)] = IF n <= MaxUint16 THEN n ELSE Panic
    BY LengthsAgree, WrittenFacts, FieldsFacts
<1>2. CASE n + headerSize < paddedLength
  <2>1. PaddingLen(n) \in Nat /\ pad.len = PaddingLen(n)
    BY <1>1 DEF PaddingLen, Item, Blob, paddedLength, headerSize
  <2>2. Marshal(o) = Append(items, pad)
    BY <1>2 DEF Marshal
  <2>3. Bytes(o) = AddLen(n, tlvLen(PaddingLen(n))) /\ n <= MaxUint16
    BY <1>1, <1>2, WireAssumption DEF Bytes, MaxUint16, headerSize, paddedLength
  <2>4. \A x \in S : x.len \in Nat
    BY <2>1, ItemsFacts
  <2>5. items \in Seq(S) /\ pad \in S
    BY <1>1
  <2> HIDE DEF items, pad, S
  <2>6. Size(Append(items, pad)) = n + 3 + pad.len
    BY <2>4, <2>5, SizeOfAppend
  <2>7. AddLen(n, tlvLen(PaddingLen(n))) =
            IF n + 3 + PaddingLen(n) <= MaxUint16 THEN n + 3 + PaddingLen(n) ELSE Panic
    BY <1>1, <2>1, <2>3, AddLenSum
  <2> HIDE DEF n
  <2> QED
    BY <1>1, <2>1, <2>2, <2>3, <2>6, <2>7
<1>3. CASE ~(n + headerSize < paddedLength)
  <2>1. Marshal(o) = items
    BY <1>3 DEF Marshal
  <2>2. Bytes(o) = FieldLens(o)[Len(Fields)]
    BY <1>1, <1>3 DEF Bytes
  <2> QED
    BY <1>1, <2>1, <2>2
<1> QED
    BY <1>2, <1>3
--------------------------------------------------------------------------------
(* What is written is read back                                                *)

FieldItem(o, n) == Item(Fields[n], Encoded(o, Fields[n]))

(* s is the list of the items of the first n fields that are present.          *)
Wrote(o, n, s) ==
    /\ \A i \in DOMAIN s : \E m \in 1 .. n : Present(o, Fields[m]) /\ s[i] = FieldItem(o, m)
    /\ \A m \in 1 .. n : Present(o, Fields[m]) => \E i \in DOMAIN s : s[i] = FieldItem(o, m)
    /\ \A i, j \in DOMAIN s : s[i].tag = s[j].tag => i = j

LEMMA WroteStep ==
    ASSUME NEW o, NEW n \in 1 .. Len(Fields), NEW S, NEW s \in Seq(S), Wrote(o, n - 1, s),
           Present(o, Fields[n])
    PROVE  Wrote(o, n, Append(s, FieldItem(o, n)))
<1> DEFINE t == Append(s, FieldItem(o, n))
           k == Len(s) + 1
<1>1. /\ DOMAIN t = 1 .. k /\ DOMAIN s = 1 .. k - 1 /\ k \in Nat \ {0}
      /\ t[k] = FieldItem(o, n) /\ \A i \in DOMAIN s : t[i] = s[i]
    OBVIOUS
<1> HIDE DEF t, k
<1>2. \A m \in 1 .. Len(Fields) : FieldItem(o, m).tag = Fields[m]
    BY DEF FieldItem, Item
<1>3. /\ n \in Nat /\ \A m \in 1 .. n : m \in 1 .. Len(Fields) /\ (m \in 1 .. n - 1 \/ m = n)
      /\ \A m \in 1 .. n - 1 : m \in 1 .. n /\ m # n
      /\ \A i \in DOMAIN t : i \in DOMAIN s \/ i = k
      /\ k \in DOMAIN t /\ \A i \in DOMAIN s : i \in DOMAIN t
    BY <1>1, FieldsFacts
<1>4. ASSUME NEW i \in DOMAIN t
      PROVE  \E m \in 1 .. n : Present(o, Fields[m]) /\ t[i] = FieldItem(o, m)
    BY <1>1, <1>3, <1>4 DEF Wrote
<1>5. ASSUME NEW m \in 1 .. n, Present(o, Fields[m])
      PROVE  \E i \in DOMAIN t : t[i] = FieldItem(o, m)
    BY <1>1, <1>3, <1>5 DEF Wrote
<1>6. \A i \in DOMAIN s : t[i].tag # t[k].tag
  <2> TAKE i \in DOMAIN s
  <2>1. PICK m \in 1 .. n - 1 : s[i] = FieldItem(o, m)
    BY DEF Wrote
  <2>2. m \in 1 .. Len(Fields) /\ m # n
    BY <1>3
  <2> QED
    BY <1>1, <1>2, <2>1, <2>2, FieldsFacts
<1>7. ASSUME NEW i \in DOMAIN t, NEW j \in DOMAIN t, t[i].tag = t[j].tag
      PROVE  i = j
    BY <1>1, <1>3, <1>6, <1>7 DEF Wrote
<1> QED
    BY <1>4, <1>5, <1>7 DEF Wrote, t

LEMMA WroteAll ==
    ASSUME NEW o, IsOperation(o)
    PROVE  Wrote(o, Len(Fields), Written(o)[Len(Fields)])
<1> DEFINE N == Len(Fields)
           w == Written(o)
           T == {n \in 0 .. N : Wrote(o, n, w[n])}
<1>1. N \in Nat
    BY FieldsFacts
<1>2. /\ w[0] = <<>> /\ \A n \in 0 .. N : w[n] \in Seq(ItemsOf(o))
      /\ \A n \in 1 .. N : w[n] = IF Present(o, Fields[n]) THEN Append(w[n - 1], FieldItem(o, n))
                                  ELSE w[n - 1]
    BY WrittenFacts DEF FieldItem
<1> HIDE DEF w
<1>3. 0 \in T
  <2>1. DOMAIN w[0] = {}
    BY <1>2
  <2> QED
    BY <1>1, <2>1 DEF Wrote
<1>4. ASSUME NEW n \in 1 .. N, n - 1 \in T PROVE n \in T
  <2>1. Wrote(o, n - 1, w[n - 1]) /\ n \in 0 .. N /\ w[n - 1] \in Seq(ItemsOf(o))
    BY <1>1, <1>2, <1>4
  <2>2. CASE Present(o, Fields[n])
    BY <1>2, <2>1, <2>2, WroteStep
  <2>3. CASE ~Present(o, Fields[n])
    <3>1. w[n] = w[n - 1] /\ \A m \in 1 .. n : m \in 1 .. n - 1 \/ m = n
      BY <1>2, <2>3
    <3>2. \A m \in 1 .. n - 1 : m \in 1 .. n
      OBVIOUS
    <3> DEFINE v == w[n - 1]
    <3> HIDE DEF v
    <3>3. Wrote(o, n - 1, v)
      BY <2>1 DEF v
    <3>4. Wrote(o, n, v)
      BY <2>3, <3>1, <3>2, <3>3, Zenon DEF Wrote
    <3> QED
      BY <2>1, <3>1, <3>4 DEF v
  <2> QED
    BY <2>2, <2>3
<1> HIDE DEF T
<1>5. 0 .. N \subseteq T
    BY <1>1, <1>3, <1>4, IntervalInduction
<1> QED
    BY <1>1, <1>5 DEF T, w

(* The items of MarshalBinary: one for each field that is present, and perhaps *)
(* the padding.                                                                *)
LEMMA MarshalFacts ==
    ASSUME NEW o, IsOperation(o)
    PROVE  /\ \A i \in DOMAIN Marshal(o) :
                 \/ \E f \in Range(Fields) :
                       Present(o, f) /\ Marshal(o)[i] = Item(f, Encoded(o, f))
                 \/ Marshal(o)[i].tag = TagPadding
           /\ \A f \in Range(Fields) : Present(o, f) =>
                 \E i \in DOMAIN Marshal(o) : Marshal(o)[i] = Item(f, Encoded(o, f))
           /\ \A i, j \in DOMAIN Marshal(o) : Marshal(o)[i].tag = Marshal(o)[j].tag => i = j
<1> DEFINE N == Len(Fields)
           s == Written(o)[N]
           pad == Item(TagPadding, Blob(PaddingLen(Size(s)), Nil))
<1>1. Wrote(o, N, s) /\ s \in Seq(ItemsOf(o)) /\ N \in Nat
  <2>1. N \in Nat /\ N \in 0 .. N
    BY FieldsFacts
  <2>2. s \in Seq(ItemsOf(o))
    BY <2>1, WrittenFacts
  <2> QED
    BY <2>1, <2>2, WroteAll
<1>2. Marshal(o) = s \/ Marshal(o) = Append(s, pad)
    BY DEF Marshal
<1>3. pad.tag = TagPadding
    BY DEF Item
<1> HIDE DEF s, pad
<1>4. \A i \in DOMAIN s : \E f \in Range(Fields) : Present(o, f) /\ s[i] = Item(f, Encoded(o, f))
    BY <1>1, FieldsFacts DEF Wrote, FieldItem, N
<1>5. \A f \in Range(Fields) : Present(o, f) => \E i \in DOMAIN s : s[i] = Item(f, Encoded(o, f))
    BY <1>1, FieldsFacts DEF Wrote, FieldItem, N
<1>6. \A i, j \in DOMAIN s : s[i].tag = s[j].tag => i = j
    BY <1>1 DEF Wrote
<1>7. CASE Marshal(o) = s
    BY <1>4, <1>5, <1>6, <1>7
<1>8. CASE Marshal(o) = Append(s, pad)
  <2> DEFINE t == Append(s, pad)
             k == Len(s) + 1
  <2>1. /\ t[k] = pad /\ k \in DOMAIN t
        /\ \A i \in DOMAIN s : i \in DOMAIN t /\ t[i] = s[i]
        /\ \A i \in DOMAIN t : i \in DOMAIN s \/ i = k
    BY <1>1
  <2> HIDE DEF t, k
  <2>2. ASSUME NEW i \in DOMAIN s PROVE t[i].tag # TagPadding
    <3>1. PICK f \in Range(Fields) : s[i] = Item(f, Encoded(o, f))
      BY <1>4
    <3>2. s[i].tag = f /\ f # TagPadding
      BY <3>1, FieldsFacts DEF Item
    <3> QED
      BY <2>1, <3>2
  <2>3. \A i \in DOMAIN t :
            \/ \E f \in Range(Fields) : Present(o, f) /\ t[i] = Item(f, Encoded(o, f))
            \/ t[i].tag = TagPadding
    BY <1>3, <1>4, <2>1
  <2>4. \A f \in Range(Fields) : Present(o, f) => \E i \in DOMAIN t : t[i] = Item(f, Encoded(o, f))
    BY <1>5, <2>1
  <2>5. \A i, j \in DOMAIN t : t[i].tag = t[j].tag => i = j
    BY <1>3, <1>6, <2>1, <2>2
  <2> QED
    BY <1>8, <2>3, <2>4, <2>5 DEF t
<1> QED
    BY <1>2, <1>7, <1>8

(* What UnmarshalBinary makes of the item of a field.                          *)
LEMMA FieldReadBack ==
    ASSUME NEW o, IsOperation(o), NEW f \in Range(Fields)
    PROVE  /\ ~Present(o, f) => o[f] = Zero[f]
           /\ Present(o, f) =>
                 LET e == Encoded(o, f) IN
                 /\ ~Malformed(Item(f, e)) /\ ~Ignored(Item(f, e))
                 /\ \/ Blob(e.len, e.val) = o[f]
                    \/ /\ f \in IPFields /\ Blob(e.len, e.val) # Nil /\ o[f] # Nil
                       /\ e.val = "IPv4" /\ o[f].val = "IPv4"
<1>1. IsField(f, o[f])
    BY DEF IsOperation
<1>2. ASSUME ~Present(o, f) PROVE o[f] = Zero[f]
  <2>1. f # "Opcode"
    BY <1>2 DEF Present
  <2>2. CASE f \in {"SKI", "Digest"}
    <3>1. o[f].val = Nil
      BY <1>2, <2>2 DEF Present
    <3>2. o[f] = Blob(o[f].len, o[f].val) /\ o[f].len = IF f = "SKI" THEN 20 ELSE 32
      BY <1>1, <2>2 DEF IsField, IsBlob
    <3>3. Zero[f] = Blob(IF f = "SKI" THEN 20 ELSE 32, Nil)
      BY <2>2 DEF Zero
    <3> QED
      BY <3>1, <3>2, <3>3
  <2>3. CASE f \in IPFields \cup {"JaegerSpan"}
    BY <1>2, <2>3 DEF Present, Zero, IPFields
  <2>4. CASE f \in SliceFields
    <3>1. ~(o[f].len > 0)
      BY <1>2, <2>4 DEF Present
    <3>2. o[f].len \in Nat /\ (o[f].len = 0 => o[f] = Empty)
      BY <1>1, <2>4 DEF IsField, IPFields, SliceFields, IsBlob
    <3>3. Zero[f] = Empty
      BY <2>4 DEF Zero, SliceFields
    <3> QED
      BY <3>1, <3>2, <3>3
  <2>5. f \in {"Opcode", "SKI", "Digest", "JaegerSpan"} \cup IPFields \cup SliceFields
    BY DEF Range, Fields, IPFields, SliceFields
  <2> QED
    BY <2>1, <2>2, <2>3, <2>4, <2>5
<1> DEFINE e == Encoded(o, f)
<1>3. ASSUME Present(o, f)
      PROVE  ~Malformed(Item(f, e)) /\ ~Ignored(Item(f, e))
  <2>1. CASE f \in IPFields
    <3>1. o[f] # Nil
      BY <1>3, <2>1 DEF Present, IPFields, SliceFields
    <3>2. e.len \in {4, 16}
      BY <1>1, <2>1, <3>1 DEF IsField, IPFields, Encoded, To4, Blob
    <3> QED
      BY <2>1, <3>2 DEF Malformed, Ignored, Item, IPFields
  <2>2. CASE f \notin IPFields
    BY <1>1, <2>2 DEF Malformed, Ignored, Item, Encoded, IsField
  <2> QED
    BY <2>1, <2>2
<1>4. ASSUME Present(o, f)
      PROVE  \/ Blob(e.len, e.val) = o[f]
             \/ /\ f \in IPFields /\ Blob(e.len, e.val) # Nil /\ o[f] # Nil
                /\ e.val = "IPv4" /\ o[f].val = "IPv4"
  <2>1. CASE f \in IPFields /\ o[f].val = "IPv4"
    <3>1. o[f] # Nil /\ e = Blob(4, "IPv4")
      BY <1>4, <2>1, WireAssumption DEF Present, IPFields, SliceFields, Encoded, To4
    <3> QED
      BY <2>1, <3>1, WireAssumption DEF Blob
  <2>2. CASE ~(f \in IPFields /\ o[f].val = "IPv4")
    <3>1. e = o[f]
      BY <2>2 DEF Encoded, To4
    <3>2. IsBlob(o[f])
      BY <1>1, <1>4 DEF IsField, Present, IPFields, SliceFields
    <3> QED
      BY <3>1, <3>2 DEF IsBlob
  <2> QED
    BY <2>1, <2>2
<1> QED
    BY <1>2, <1>3, <1>4

(* What UnmarshalBinary reads from what MarshalBinary has written is the same  *)
(* operation, and it is not refused.                                           *)
THEOREM RoundTrip ==
    ASSUME NEW o, IsOperation(o)
    PROVE  ~Refused(Marshal(o)) /\ SameOperation(Unmarshal(Marshal(o)), o)
<1> DEFINE s == Marshal(o)
<1>1. \A i \in DOMAIN s : \/ \E f \in Range(Fields) : Present(o, f) /\ s[i] = Item(f, Encoded(o, f))
                          \/ s[i].tag = TagPadding
    BY MarshalFacts
<1>2. \A f \in Range(Fields) : Present(o, f) => \E i \in DOMAIN s : s[i] = Item(f, Encoded(o, f))
    BY MarshalFacts
<1>3. \A i, j \in DOMAIN s : s[i].tag = s[j].tag => i = j
    BY MarshalFacts
<1> HIDE DEF s
<1>4. \A i \in DOMAIN s : ~Malformed(s[i])
  <2> TAKE i \in DOMAIN s
  <2>1. CASE s[i].tag = TagPadding
    BY <2>1 DEF Malformed, TagPadding, IPFields
  <2>2. CASE s[i].tag # TagPadding
    BY <1>1, <2>2, FieldReadBack
  <2> QED
    BY <2>1, <2>2
<1>5. ~Refused(s)
    BY <1>3, <1>4 DEF Refused
<1> DEFINE u == Unmarshal(s)
<1>6. ASSUME NEW f \in Range(Fields), Present(o, f)
      PROVE  u[f] = Blob(Encoded(o, f).len, Encoded(o, f).val)
  <2> DEFINE e == Encoded(o, f)
             c == CHOOSE i \in DOMAIN s : s[i].tag = f
  <2>1. PICK i \in DOMAIN s : s[i] = Item(f, e)
    BY <1>2, <1>6
  <2>2. s[i].tag = f /\ s[i].len = e.len /\ s[i].val = e.val /\ ~Ignored(s[i])
    <3>1. ~Ignored(Item(f, e))
      BY <1>6, FieldReadBack
    <3>2. Item(f, e).tag = f /\ Item(f, e).len = e.len /\ Item(f, e).val = e.val
      BY DEF Item
    <3> QED
      BY <2>1, <3>1, <3>2
  <2>3. c \in DOMAIN s /\ s[c].tag = f
    BY <2>2, Zenon
  <2>4. c = i
    BY <1>3, <2>2, <2>3
  <2>5. u[f] = Blob(s[c].len, s[c].val)
    BY <2>2 DEF Unmarshal
  <2> QED
    BY <2>2, <2>4, <2>5
<1>7. ASSUME NEW f \in Range(Fields), ~Present(o, f)
      PROVE  u[f] = Zero[f]
  <2>1. \A i \in DOMAIN s : s[i].tag # f
    <3> TAKE i \in DOMAIN s
    <3>1. CASE s[i].tag = TagPadding
      BY <3>1, FieldsFacts
    <3>2. CASE s[i].tag # TagPadding
      <4>1. PICK g \in Range(Fields) : Present(o, g) /\ s[i] = Item(g, Encoded(o, g))
        BY <1>1, <3>2
      <4> QED
        BY <1>7, <4>1 DEF Item
    <3> QED
      BY <3>1, <3>2
  <2> QED
    BY <2>1 DEF Unmarshal
<1>8. ASSUME NEW f \in Range(Fields)
      PROVE  \/ u[f] = o[f]
             \/ /\ f \in IPFields /\ u[f] # Nil /\ o[f] # Nil
                /\ u[f].val = "IPv4" /\ o[f].val = "IPv4"
  <2>1. CASE Present(o, f)
    <3> DEFINE e == Encoded(o, f)
    <3>1. \/ Blob(e.len, e.val) = o[f]
          \/ /\ f \in IPFields /\ Blob(e.len, e.val) # Nil /\ o[f] # Nil
             /\ e.val = "IPv4" /\ o[f].val = "IPv4"
      BY <2>1, FieldReadBack
    <3>2. u[f] = Blob(e.len, e.val)
      BY <1>6, <2>1
    <3>3. Blob(e.len, e.val).val = e.val
      BY DEF Blob
    <3> HIDE DEF u, e
    <3> QED
      BY <3>1, <3>2, <3>3
  <2>2. CASE ~Present(o, f)
    BY <1>7, <2>2, FieldReadBack
  <2> QED
    BY <2>1, <2>2
<1> QED
    BY <1>5, <1>8 DEF SameOperation, s
--------------------------------------------------------------------------------
(* The padding of PKCS #1 v1.5                                                 *)

ScanTurn(v, em, n) ==
    [lookingForIndex |-> IF em[n + 2] = 0 THEN 0 ELSE v.lookingForIndex,
     index |-> IF v.lookingForIndex = 1 /\ em[n + 2] = 0 THEN n + 1 ELSE v.index]

(* The loop of parsePKCS1v15, turn by turn.                                    *)
LEMMA ScanFacts ==
    ASSUME NEW em, Len(em) \in Nat, Len(em) >= 2
    PROVE  /\ Scan(em)[0] = [lookingForIndex |-> 1, index |-> 0]
           /\ \A n \in 1 .. Len(em) - 2 : Scan(em)[n] = ScanTurn(Scan(em)[n - 1], em, n)
<1> DEFINE N == Len(em) - 2
           V == [lookingForIndex : {0, 1}, index : Nat]
           b == [lookingForIndex |-> 1, index |-> 0]
           G == [n \in 1 .. N |-> [v \in V |-> ScanTurn(v, em, n)]]
           E(f) == f = [n \in 0 .. N |-> IF n = 0 THEN b ELSE ScanTurn(f[n - 1], em, n)]
<1>1. N \in Nat /\ b \in V
    OBVIOUS
<1>2. \A n \in 1 .. N, v \in V : ScanTurn(v, em, n) \in V
    BY <1>1 DEF ScanTurn
<1> HIDE DEF N, V, b
<1>3. G \in [1 .. N -> [V -> V]]
    BY <1>2
<1>4. PICK f : Iterates(f, N, V, b, G)
  <2> HIDE DEF G
  <2> QED
    BY <1>1, <1>3, Recursion, Zenon
<1>5. f \in [0 .. N -> V] /\ f[0] = b /\ \A n \in 1 .. N : f[n] = ScanTurn(f[n - 1], em, n)
    BY <1>4 DEF Iterates
<1>6. E(f)
    BY <1>1, <1>5
<1>7. E(Scan(em))
    BY <1>6, Zenon DEF Scan, ScanTurn, N, b
<1> DEFINE r == Scan(em)
<1> HIDE DEF r
<1>8. r = [n \in 0 .. N |-> IF n = 0 THEN b ELSE ScanTurn(r[n - 1], em, n)]
    BY <1>7 DEF r
<1>9. r[0] = b /\ \A n \in 1 .. N : r[n] = ScanTurn(r[n - 1], em, n)
    BY <1>1, <1>8
<1> QED
    BY <1>9 DEF r, N, b

(* The loop has found the first zero behind the two bytes in front, or there   *)
(* is none.                                                                    *)
FirstZero(v, em, n) ==
    \/ v.lookingForIndex = 1 /\ \A j \in 3 .. n : em[j] # 0
    \/ /\ v.lookingForIndex = 0 /\ v.index + 1 \in 3 .. n /\ em[v.index + 1] = 0
       /\ v.index \in Nat /\ \A j \in 3 .. v.index : em[j] # 0

LEMMA ScanFinds ==
    ASSUME NEW em, Len(em) \in Nat, Len(em) >= 2
    PROVE  FirstZero(Scan(em)[Len(em) - 2], em, Len(em))
<1> DEFINE N == Len(em) - 2
           s == Scan(em)
           T == {n \in 0 .. N : FirstZero(s[n], em, n + 2)}
<1>1. N \in Nat
    OBVIOUS
<1>2. /\ s[0] = [lookingForIndex |-> 1, index |-> 0]
      /\ \A n \in 1 .. N : s[n] = ScanTurn(s[n - 1], em, n)
    BY ScanFacts
<1> HIDE DEF s
<1>3. 0 \in T
    BY <1>1, <1>2 DEF FirstZero
<1>4. ASSUME NEW n \in 1 .. N, n - 1 \in T PROVE n \in T
  <2> DEFINE v == s[n - 1]
  <2>1. FirstZero(v, em, n + 1) /\ n \in 0 .. N
    BY <1>1, <1>4
  <2>2. s[n] = ScanTurn(v, em, n)
    BY <1>2
  <2> HIDE DEF v
  <2>3. FirstZero(ScanTurn(v, em, n), em, n + 2)
    <3>1. \A j \in 3 .. n + 2 : j \in 3 .. n + 1 \/ j = n + 2
      OBVIOUS
    <3>2. CASE v.lookingForIndex = 1 /\ em[n + 2] = 0
      BY <2>1, <3>2 DEF FirstZero, ScanTurn
    <3>3. CASE v.lookingForIndex = 1 /\ em[n + 2] # 0
      BY <2>1, <3>1, <3>3 DEF FirstZero, ScanTurn
    <3>4. CASE v.lookingForIndex # 1
      BY <2>1, <3>4 DEF FirstZero, ScanTurn
    <3> QED
      BY <3>2, <3>3, <3>4
  <2> QED
    BY <2>1, <2>2, <2>3
<1> HIDE DEF T
<1>5. 0 .. N \subseteq T
    BY <1>1, <1>3, <1>4, IntervalInduction
<1>6. FirstZero(s[N], em, N + 2) /\ N + 2 = Len(em)
    BY <1>1, <1>5 DEF T
<1> QED
    BY <1>6 DEF s

(* parsePKCS1v15 accepts exactly the paddings of that form, and gives the      *)
(* index where they end.                                                       *)
THEOREM ParseFindsPadding ==
    ASSUME NEW em, Len(em) \in Nat, Len(em) >= 2
    PROVE  LET p == parsePKCS1v15(em) IN
           /\ p.valid \in BOOLEAN
           /\ p.valid => p.index \in 3 .. Len(em) /\ Padded(em, p.index)
           /\ \A i \in 3 .. Len(em) : Padded(em, i) => p.valid /\ p.index = i
<1> DEFINE s == Scan(em)[Len(em) - 2]
           p == parsePKCS1v15(em)
           valid == em[1] = 0 /\ em[2] = 2 /\ s.lookingForIndex = 0 /\ 10 <= s.index
<1>1. FirstZero(s, em, Len(em))
    BY ScanFinds
<1>2. p = [valid |-> valid, index |-> IF valid THEN s.index + 1 ELSE 0]
    BY DEF parsePKCS1v15
<1> HIDE DEF s, p
<1>3. ASSUME valid
      PROVE  p.index = s.index + 1 /\ p.index \in 3 .. Len(em) /\ Padded(em, p.index)
  <2>1. p.index = s.index + 1
    BY <1>2, <1>3
  <2>2. /\ s.index + 1 \in 3 .. Len(em) /\ em[s.index + 1] = 0 /\ s.index \in Nat
        /\ \A j \in 3 .. s.index : em[j] # 0
    BY <1>1, <1>3 DEF FirstZero
  <2>3. (s.index + 1) - 1 = s.index
    BY <2>2
  <2> QED
    BY <1>3, <2>1, <2>2, <2>3 DEF Padded
<1>4. ASSUME NEW i \in 3 .. Len(em), Padded(em, i)
      PROVE  valid /\ i = s.index + 1
  <2>1. s.lookingForIndex = 0
    BY <1>1, <1>4 DEF FirstZero, Padded
  <2>2. /\ s.index + 1 \in 3 .. Len(em) /\ em[s.index + 1] = 0 /\ s.index \in Nat
        /\ \A j \in 3 .. s.index : em[j] # 0
    BY <1>1, <2>1 DEF FirstZero
  <2>3. i = s.index + 1
    <3>1. ~(i <= s.index)
      BY <1>4, <2>2 DEF Padded
    <3>2. ~(s.index + 1 <= i - 1)
      BY <1>4, <2>2 DEF Padded
    <3> QED
      BY <2>2, <3>1, <3>2
  <2> QED
    BY <1>4, <2>1, <2>2, <2>3 DEF Padded
<1>5. p.valid = valid /\ valid \in BOOLEAN
    BY <1>2
<1> HIDE DEF valid
<1> QED
    BY <1>2, <1>3, <1>4, <1>5 DEF p
--------------------------------------------------------------------------------
(* The inductive invariant                                                     *)

(* A call that has been sent.                                                  *)
Sent(c) ==
    /\ c.fn \in {"DoOperation", "Ping", "Sign", "Decrypt"} /\ IsOperation(c.op)
    /\ c.fn = "Sign" =>
          /\ c.opts \in Opts /\ c.len \in Nat /\ signOpFromSignerOpts(c.key, c.opts) # OpError
          /\ c.op = execute(c.key, signOpFromSignerOpts(c.key, c.opts), c.len)
    /\ c.fn = "Decrypt" =>
          /\ c.strip \in {"no", "yes", "session"}
          /\ c.op = execute(c.key, Opcode("RSADecrypt"), 256)

(* What the worker that is chosen may answer.                                  *)
Answers == IF limited THEN limitedDo(req) ELSE keylessDo(req)

(* The packet under way holds an operation, and has room for it.               *)
Carries(o) == wire = NewPacket(o) /\ Bytes(o) # Panic

(* The server has read what was asked, and the response is one of its answers. *)
Read == SameOperation(req, asked.op)
Answered == Read /\ resp \in Answers /\ IsOperation(resp)

Inv ==
    /\ pc \in {"idle", "request", "panic", "do", "respond", "serverPanic", "response", "done"}
    /\ pc = "idle" => asked = Nil
    /\ pc \notin {"idle", "done"} => Sent(asked)
    /\ pc \notin {"request", "response"} => wire = Nil
    /\ pc \in {"idle", "request", "panic", "do"} => resp = Nil
    /\ pc = "panic" => Bytes(asked.op) = Panic
    /\ pc = "request" => Carries(asked.op)
    /\ pc = "do" => Read
    /\ pc \in {"respond", "serverPanic", "response"} => Answered
    /\ pc = "response" => Carries(resp)
    /\ pc = "done" =>
          \/ resp = Nil /\ result = <<"error", "refused">>
          \/ Sent(asked) /\ Answered /\ (asked.fn # "DoOperation" => result \in Results(resp))
--------------------------------------------------------------------------------
(* The operations of client and server                                         *)

LEMMA ZeroFacts ==
    /\ DOMAIN Zero = Range(Fields) /\ IsOperation(Zero)
    /\ {"Opcode", "Payload", "SKI", "ClientIP", "SNI"} \subseteq Range(Fields)
<1>1. DOMAIN Zero = Range(Fields)
    BY DEF Zero
<1>2. {"Opcode", "Payload", "SKI", "ClientIP", "SNI"} \subseteq Range(Fields)
  <2>1. /\ Fields[1] = "Opcode" /\ Fields[2] = "Payload" /\ Fields[4] = "SKI"
        /\ Fields[6] = "ClientIP" /\ Fields[8] = "SNI" /\ {1, 2, 4, 6, 8} \subseteq DOMAIN Fields
    BY DEF Fields
  <2> QED
    BY <2>1 DEF Range
<1>3. ASSUME NEW f \in Range(Fields) PROVE IsField(f, Zero[f])
  <2>1. CASE f \in {"ClientIP", "ServerIP", "JaegerSpan"}
    BY <2>1 DEF Zero, IsField, IPFields, SliceFields
  <2>2. CASE f \in {"Opcode", "SKI", "Digest"}
    BY <2>2 DEF Zero, IsField, IPFields, SliceFields, IsBlob, Blob
  <2>3. CASE f \in SliceFields
    <3>1. Zero[f] = Empty /\ IsBlob(Empty)
      BY <2>3 DEF Zero, SliceFields, Empty, IsBlob, Blob
    <3> QED
      BY <2>3, <3>1 DEF IsField, IPFields, SliceFields
  <2>4. f \in {"Opcode", "SKI", "Digest", "JaegerSpan"} \cup IPFields \cup SliceFields
    BY DEF Range, Fields, IPFields, SliceFields
  <2> QED
    BY <2>1, <2>2, <2>3, <2>4 DEF IPFields
<1> QED
    BY <1>1, <1>2, <1>3 DEF IsOperation

LEMMA OperationFacts ==
    ASSUME NEW op, NEW b, IsField("Payload", b)
    PROVE  LET o == Operation(op, b) IN
           /\ IsOperation(o) /\ DOMAIN o = Range(Fields)
           /\ o["Opcode"].val = op /\ o["Payload"] = b
<1> DEFINE o == Operation(op, b)
<1>1. /\ DOMAIN o = Range(Fields) /\ o["Opcode"] = Blob(1, op) /\ o["Payload"] = b
      /\ \A f \in Range(Fields) : f \notin {"Opcode", "Payload"} => o[f] = Zero[f]
    BY ZeroFacts DEF Operation
<1>2. IsField("Opcode", Blob(1, op)) /\ Blob(1, op).val = op
    BY DEF IsField, IsBlob, Blob, IPFields, SliceFields
<1> HIDE DEF o
<1>3. \A f \in Range(Fields) : IsField(f, o[f])
    BY <1>1, <1>2, ZeroFacts DEF IsOperation
<1> QED
    BY <1>1, <1>2, <1>3 DEF o, IsOperation

(* A payload of any length.                                                    *)
LEMMA PayloadFacts ==
    ASSUME NEW n \in Nat, NEW v
    PROVE  /\ IsField("Payload", IF n = 0 THEN Empty ELSE Blob(n, v))
           /\ n # 0 => IsField("Payload", Blob(n, v))
           /\ Blob(n, v).len = n /\ Blob(n, v).val = v
    BY DEF IsField, IsBlob, Blob, Empty, IPFields, SliceFields

IsRequest(o, k, op) == IsOperation(o) /\ o["Opcode"].val = op /\ o["SKI"].val = k

LEMMA ExecuteFacts ==
    ASSUME NEW k, NEW op, NEW n \in Nat
    PROVE  IsRequest(execute(k, op, n), k, op)
<1> DEFINE b == IF n = 0 THEN Empty ELSE Blob(n, <<"msg">>)
           p == Operation(op, b)
           o == execute(k, op, n)
<1>1. /\ IsOperation(p) /\ DOMAIN p = Range(Fields)
      /\ p["Opcode"].val = op /\ p["Payload"] = b
  <2>1. IsField("Payload", b)
    BY PayloadFacts
  <2> QED
    BY <2>1, OperationFacts
<1>2. o = [p EXCEPT !["SKI"] = Blob(20, k), !["ClientIP"] = Blob(16, "IPv4"),
                    !["SNI"] = Blob(11, "sni")]
    BY DEF execute
<1> HIDE DEF p, o
<1>3. /\ o["SKI"] = Blob(20, k) /\ o["ClientIP"] = Blob(16, "IPv4") /\ o["SNI"] = Blob(11, "sni")
      /\ \A f \in Range(Fields) : f \notin {"SKI", "ClientIP", "SNI"} => o[f] = p[f]
    BY <1>1, <1>2, ZeroFacts
<1>4. /\ IsField("SKI", Blob(20, k)) /\ IsField("ClientIP", Blob(16, "IPv4"))
      /\ IsField("SNI", Blob(11, "sni")) /\ Blob(20, k).val = k
  <2>1. IsField("SKI", Blob(20, k)) /\ Blob(20, k).val = k
    BY DEF IsField, IsBlob, Blob, IPFields, SliceFields
  <2>2. IsField("ClientIP", Blob(16, "IPv4"))
    BY DEF IsField, IsBlob, Blob, IPFields, SliceFields
  <2>3. IsField("SNI", Blob(11, "sni"))
    BY DEF IsField, IsBlob, Blob, IPFields, SliceFields
  <2> QED
    BY <2>1, <2>2, <2>3
<1>5. \A f \in Range(Fields) : IsField(f, o[f])
    BY <1>1, <1>3, <1>4 DEF IsOperation
<1> QED
    BY <1>1, <1>3, <1>4, <1>5, ZeroFacts DEF o, IsOperation, IsRequest

(* The same operation has the same opcode, payload and key.                    *)
LEMMA SameFields ==
    ASSUME NEW o, NEW p, SameOperation(o, p)
    PROVE  o["Opcode"] = p["Opcode"] /\ o["Payload"] = p["Payload"] /\ o["SKI"] = p["SKI"]
    BY ZeroFacts DEF SameOperation, IPFields

LEMMA ErrorFacts ==
    ASSUME NEW code
    PROVE  LET o == Error(code) IN
           /\ IsOperation(o) /\ o["Opcode"].val = OpError
           /\ o["Payload"].len = 1 /\ o["Payload"].val = <<"code", code>>
<1>1. /\ IsField("Payload", Blob(1, <<"code", code>>))
      /\ Blob(1, <<"code", code>>).len = 1 /\ Blob(1, <<"code", code>>).val = <<"code", code>>
    BY PayloadFacts
<1> QED
    BY <1>1, OperationFacts DEF Error

IsResponse(o, n, v) ==
    /\ IsOperation(o) /\ o["Opcode"].val = Opcode("Response")
    /\ o["Payload"].len = n /\ o["Payload"].val = v

LEMMA RespondFacts ==
    ASSUME NEW n \in Nat, NEW v
    PROVE  /\ IsOperation(Respond(IF n = 0 THEN Empty ELSE Blob(n, v)))
           /\ n # 0 => IsResponse(Respond(Blob(n, v)), n, v)
<1>1. IsOperation(Respond(IF n = 0 THEN Empty ELSE Blob(n, v)))
    BY PayloadFacts, OperationFacts DEF Respond
<1>2. ASSUME n # 0 PROVE IsResponse(Respond(Blob(n, v)), n, v)
  <2>1. IsField("Payload", Blob(n, v)) /\ Blob(n, v).len = n /\ Blob(n, v).val = v
    BY <1>2, PayloadFacts
  <2> QED
    BY <2>1, OperationFacts DEF Respond, IsResponse
<1> QED
    BY <1>1, <1>2

(* Whatever the server answers, it can be written.                             *)
LEMMA AnswerIsOperation ==
    ASSUME IsField("Payload", req["Payload"]), NEW r \in limitedDo(req) \cup keylessDo(req)
    PROVE  IsOperation(r)
<1>1. \A code : IsOperation(Error(code))
    BY ErrorFacts
<1>2. \A n \in Nat : \A v : IsOperation(Respond(IF n = 0 THEN Empty ELSE Blob(n, v)))
    BY RespondFacts
<1>3. \A n \in Nat \ {0} : \A v : IsOperation(Respond(Blob(n, v)))
    BY RespondFacts DEF IsResponse
<1>4. HandlerSizes \subseteq Nat
    BY RequestAssumption
<1>5. IsOperation(Pong(req["Payload"]))
    BY OperationFacts DEF Pong
<1>6. \A x \in Handled : IsOperation(x)
    BY <1>1, <1>2, <1>4 DEF Handled
<1>7. ASSUME NEW methods, NEW x \in ServeRequest(req, methods) PROVE IsOperation(x)
    BY <1>1, <1>2, <1>4, <1>7 DEF ServeRequest
<1>8. ASSUME NEW k, NEW h, NEW pss, NEW x \in SignWith(k, h, pss) PROVE IsOperation(x)
    BY <1>1, <1>3, <1>8 DEF SignWith
<1>9. ASSUME NEW k, NEW x \in RSADecrypt(k) PROVE IsOperation(x)
  <2>1. \A m \in Decrypted(k) : Len(m) \in Nat
    <3>1. \A em \in EMs : em \in Seq(0 .. 255)
      BY RequestAssumption
    <3>2. ASSUME NEW em \in EMs, NEW m \in Unpadded(em) PROVE Len(m) \in Nat
      <4>1. PICK i \in 3 .. Len(em) : m = SubSeq(em, i + 1, Len(em))
        BY <3>2 DEF Unpadded
      <4>2. em \in Seq(0 .. 255) /\ Len(em) \in Nat
        BY <3>1
      <4>3. Len(SubSeq(em, i + 1, Len(em))) \in Nat
        BY <4>2
      <4> QED
        BY <4>1, <4>3
    <3> QED
      BY <3>1, <3>2 DEF Decrypted
  <2>2. CASE x = Error("ErrCrypto")
    BY <1>1, <2>2
  <2>3. CASE x # Error("ErrCrypto")
    <3>1. PICK m \in Decrypted(k) :
             x = Respond(IF Len(m) = 0 THEN Empty ELSE Blob(Len(m), <<"plain", m>>))
      BY <1>9, <2>3 DEF RSADecrypt
    <3> QED
      BY <1>2, <2>1, <3>1
  <2> QED
    BY <2>2, <2>3
<1>10. ASSUME NEW k, NEW x \in Ed25519Sign(k) PROVE IsOperation(x)
  <2>1. CASE x \in SignWith(k, "none", FALSE)
    BY <1>8, <2>1
  <2>2. CASE x \in {Respond(Blob(64, sig)) : sig \in KeySign(k, "none", FALSE)}
    <3>1. PICK sig : x = Respond(Blob(64, sig))
      BY <2>2, Zenon
    <3> QED
      BY <1>3, <3>1
  <2> QED
    BY <1>10, <2>1, <2>2 DEF Ed25519Sign
<1>11. ASSUME NEW x \in WithKey(req) PROVE IsOperation(x)
    BY <1>1, <1>8, <1>9, <1>10, <1>11 DEF WithKey, HashSign
<1>12. CASE r \in limitedDo(req)
    BY <1>1, <1>5, <1>7, <1>12 DEF limitedDo
<1>13. CASE r \in keylessDo(req)
    BY <1>1, <1>5, <1>6, <1>7, <1>11, <1>13 DEF keylessDo
<1> QED
    BY <1>12, <1>13

(* A packet with room for an operation is read, and is read as that operation. *)
LEMMA PacketFacts ==
    ASSUME NEW o, IsOperation(o), NEW p, p = NewPacket(o), Bytes(o) # Panic
    PROVE  /\ ~ReadError(p) /\ SameOperation(ReadFrom(p), o)
           /\ p.Length = Size(p.items) /\ Size(Marshal(o)) <= MaxUint16
<1>1. p.Length = Bytes(o) /\ p.items = Marshal(o)
    BY DEF NewPacket
<1>2. Bytes(o) = Size(Marshal(o)) /\ Size(Marshal(o)) <= MaxUint16
    BY BytesAgree, WireAssumption DEF MaxUint16
<1> QED
    BY <1>1, <1>2, RoundTrip DEF ReadError, ReadFrom
--------------------------------------------------------------------------------
(* The steps                                                                   *)

LEMMA AnswersFrame ==
    ASSUME UNCHANGED <<limited, server, keys, req>>
    PROVE  Answers' = Answers
<1>1. WithKey(req)' = WithKey(req)
    BY DEF WithKey, Get
<1>2. keylessDo(req)' = keylessDo(req)
    BY <1>1 DEF keylessDo
<1>3. limitedDo(req)' = limitedDo(req)
    BY DEF limitedDo
<1> QED
    BY <1>2, <1>3 DEF Answers

LEMMA ResultsFrame ==
    ASSUME UNCHANGED asked, NEW o
    PROVE  Results(o)' = Results(o)
    BY DEF Results, Ponged

LEMMA AnsweredFrame ==
    ASSUME UNCHANGED <<limited, server, keys, req, asked, resp>>
    PROVE  Answered' = Answered
    BY AnswersFrame DEF Answered, Read

LEMMA InitInv == Init => Inv
    BY DEF Init, Inv

LEMMA SendInv ==
    ASSUME Inv, pc = "idle", NEW c, Sent(c), Send(c, c.op)
    PROVE  Inv'
    BY DEF Inv, Send, Carries

LEMMA RefuseInv ==
    ASSUME Inv, pc = "idle", NEW c, Refuse(c)
    PROVE  Inv'
    BY DEF Inv, Refuse

LEMMA AddInv ==
    ASSUME Inv, NEW k, Add(k)
    PROVE  Inv'
    BY DEF Inv, Add, config, Carries, Read

LEMMA StutterInv ==
    ASSUME Inv, UNCHANGED vars
    PROVE  Inv'
<1>1. Answered' = Answered /\ Results(resp)' = Results(resp)
    BY AnsweredFrame, ResultsFrame DEF vars, Results, Ponged
<1>2. Inv' = Inv
    BY <1>1 DEF Inv, vars, Carries, Read
<1> QED
    BY <1>2

LEMMA GetJobInv ==
    ASSUME Inv, GetJob
    PROVE  Inv'
<1>1. Sent(asked) /\ Carries(asked.op) /\ resp = Nil
    BY DEF Inv, GetJob
<1>2. ~ReadError(wire) /\ SameOperation(ReadFrom(wire), asked.op)
    BY <1>1, PacketFacts DEF Carries, Sent
<1>3. /\ pc' = "do" /\ req' = ReadFrom(wire) /\ wire' = Nil
      /\ UNCHANGED <<limited, server, keys, asked, resp, result>>
    BY <1>2 DEF GetJob, config
<1>4. Read'
    BY <1>2, <1>3 DEF Read
<1> QED
    BY <1>1, <1>3, <1>4 DEF Inv

LEMMA DoInv ==
    ASSUME Inv, Do
    PROVE  Inv'
<1>1. Sent(asked) /\ Read /\ wire = Nil
    BY DEF Inv, Do
<1>2. /\ pc' = "respond" /\ resp' \in Answers
      /\ UNCHANGED <<limited, server, keys, asked, wire, req, result>>
  <2>1. SelectPool(req) = "Limited" <=> limited
    BY DEF SelectPool, defaultPoolSelector
  <2> QED
    BY <2>1 DEF Do, config, Answers
<1>3. IsOperation(resp')
  <2>1. IsField("Payload", req["Payload"])
    <3>1. req["Payload"] = asked.op["Payload"]
      BY <1>1, SameFields DEF Read
    <3>2. IsField("Payload", asked.op["Payload"])
      BY <1>1, ZeroFacts DEF Sent, IsOperation
    <3> QED
      BY <3>1, <3>2
  <2> QED
    BY <1>2, <2>1, AnswerIsOperation DEF Answers
<1>4. Answered'
    BY <1>1, <1>2, <1>3, AnswersFrame DEF Answered, Read
<1> QED
    BY <1>1, <1>2, <1>4 DEF Inv

LEMMA SubmitResultInv ==
    ASSUME Inv, SubmitResult
    PROVE  Inv'
<1>1. Sent(asked) /\ Answered /\ wire = Nil
    BY DEF Inv, SubmitResult
<1>2. UNCHANGED <<limited, server, keys, asked, req, resp, result>>
    BY DEF SubmitResult, config
<1>3. Answered'
    BY <1>1, <1>2, AnsweredFrame
<1>4. \/ pc' = "serverPanic" /\ wire' = Nil
      \/ pc' = "response" /\ Carries(resp)'
    BY <1>1, <1>2 DEF SubmitResult, Carries
<1> QED
    BY <1>1, <1>2, <1>3, <1>4 DEF Inv

(* The client makes of the response what it would make of the one that was     *)
(* sent.                                                                       *)
LEMMA ResultsSame ==
    ASSUME NEW o, NEW p, SameOperation(o, p), asked.fn # "DoOperation"
    PROVE  Results(o) = Results(p)
<1>1. o["Opcode"] = p["Opcode"] /\ o["Payload"] = p["Payload"]
    BY SameFields
<1>2. Executed(o) = Executed(p) /\ Ponged(o) = Ponged(p)
    BY <1>1 DEF Executed, Ponged, GetError
<1> QED
    BY <1>2 DEF Results

LEMMA ReceiveInv ==
    ASSUME Inv, Receive
    PROVE  Inv'
<1>1. Sent(asked) /\ Answered /\ Carries(resp)
    BY DEF Inv, Receive
<1>2. ~ReadError(wire) /\ SameOperation(ReadFrom(wire), resp)
    BY <1>1, PacketFacts DEF Carries, Answered
<1>3. /\ pc' = "done" /\ wire' = Nil /\ result' \in Results(ReadFrom(wire))
      /\ UNCHANGED <<limited, server, keys, asked, req, resp>>
    BY <1>2 DEF Receive, config
<1>4. Answered'
    BY <1>1, <1>3, AnsweredFrame
<1>5. ASSUME asked.fn # "DoOperation" PROVE result' \in Results(resp)'
  <2>1. result' \in Results(resp)
    BY <1>2, <1>3, <1>5, ResultsSame
  <2>2. Results(resp)' = Results(resp)
    BY <1>3 DEF Results, Ponged
  <2> QED
    BY <2>1, <2>2
<1> QED
    BY <1>1, <1>3, <1>4, <1>5 DEF Inv

LEMMA DoOperationInv ==
    ASSUME Inv, DoOperation
    PROVE  Inv'
<1>1. PICK o \in Operations : Send([fn |-> "DoOperation", op |-> o], o)
    BY DEF DoOperation
<1> DEFINE c == [fn |-> "DoOperation", op |-> o]
<1>2. Sent(c) /\ c.op = o
    BY RequestAssumption DEF Sent
<1> HIDE DEF c
<1> QED
    BY <1>1, <1>2, SendInv DEF DoOperation, c

LEMMA PingInv ==
    ASSUME Inv, Ping
    PROVE  Inv'
<1> DEFINE o(n) == Operation(Opcode("Ping"), IF n = 0 THEN Empty ELSE Blob(n, <<"msg">>))
<1>1. PICK n \in MsgSizes : Send([fn |-> "Ping", op |-> o(n)], o(n))
    BY DEF Ping
<1> DEFINE c == [fn |-> "Ping", op |-> o(n)]
<1>2. IsOperation(o(n))
    BY RequestAssumption, PayloadFacts, OperationFacts
<1> HIDE DEF o
<1>3. Sent(c) /\ c.op = o(n)
    BY <1>2 DEF Sent
<1> HIDE DEF c
<1> QED
    BY <1>1, <1>3, SendInv DEF Ping, c

LEMMA SignInv ==
    ASSUME Inv, Sign
    PROVE  Inv'
<1> DEFINE op(k, opts) == signOpFromSignerOpts(k, opts)
           C(k, opts, n) == [fn |-> "Sign", op |-> execute(k, op(k, opts), n), key |-> k,
                             opts |-> opts, len |-> n]
<1>1. PICK k \in Key, opts \in Opts, n \in MsgSizes :
          \/ Refuse(C(k, opts, n))
          \/ op(k, opts) # OpError /\ Send(C(k, opts, n), execute(k, op(k, opts), n))
    BY DEF Sign
<1> DEFINE c == C(k, opts, n)
<1>2. IsOperation(execute(k, op(k, opts), n))
    BY RequestAssumption, ExecuteFacts DEF IsRequest
<1>3. /\ c.fn = "Sign" /\ c.op = execute(k, op(k, opts), n) /\ c.key = k
      /\ c.opts = opts /\ c.len = n
    OBVIOUS
<1> HIDE DEF c
<1>4. op(k, opts) # OpError => Sent(c)
    BY <1>2, <1>3, RequestAssumption DEF Sent
<1>5. pc = "idle"
    BY DEF Sign
<1> QED
    BY <1>1, <1>3, <1>4, <1>5, SendInv, RefuseInv DEF c

LEMMA DecryptInv ==
    ASSUME Inv, Decrypt
    PROVE  Inv'
<1> DEFINE o(k) == execute(k, Opcode("RSADecrypt"), 256)
           C(k, strip) == [fn |-> "Decrypt", op |-> o(k), key |-> k, strip |-> strip]
<1>1. PICK k \in Key, strip \in {"no", "yes", "session", "invalid"} :
          IF strip = "invalid" THEN Refuse(C(k, strip)) ELSE Send(C(k, strip), o(k))
    BY DEF Decrypt
<1> DEFINE c == C(k, strip)
<1>2. IsOperation(o(k))
    BY ExecuteFacts DEF IsRequest
<1>3. c.fn = "Decrypt" /\ c.op = o(k) /\ c.key = k /\ c.strip = strip
    OBVIOUS
<1> HIDE DEF c
<1>4. strip # "invalid" => Sent(c)
    BY <1>2, <1>3 DEF Sent
<1>5. pc = "idle"
    BY DEF Decrypt
<1> QED
    BY <1>1, <1>3, <1>4, <1>5, SendInv, RefuseInv DEF c

(* At every step from DoOperation to the result of the call, the packet under  *)
(* way is that of the operation that was asked or answered, the server has     *)
(* read what was asked, and its answer is one that the worker may give to it.  *)
THEOREM RequestInvariant == Spec => []Inv
<1>1. Inv /\ [Next]_vars => Inv'
  <2> SUFFICES ASSUME Inv, [Next]_vars PROVE Inv'
    OBVIOUS
  <2>1. CASE \E k \in Key : Add(k)
    BY <2>1, AddInv
  <2>2. CASE DoOperation
    BY <2>2, DoOperationInv
  <2>3. CASE Ping
    BY <2>3, PingInv
  <2>4. CASE Sign
    BY <2>4, SignInv
  <2>5. CASE Decrypt
    BY <2>5, DecryptInv
  <2>6. CASE GetJob
    BY <2>6, GetJobInv
  <2>7. CASE Do
    BY <2>7, DoInv
  <2>8. CASE SubmitResult
    BY <2>8, SubmitResultInv
  <2>9. CASE Receive
    BY <2>9, ReceiveInv
  <2>10. CASE UNCHANGED vars
    BY <2>10, StutterInv
  <2> QED
    BY <2>1, <2>2, <2>3, <2>4, <2>5, <2>6, <2>7, <2>8, <2>9, <2>10 DEF Next
<1> QED
    BY <1>1, InitInv, PTL DEF Spec
--------------------------------------------------------------------------------
(* The header of every packet announces the bytes that follow, and NewPacket   *)
(* panics for exactly the operations that do not fit, for operations of any    *)
(* contents and lengths.                                                       *)
THEOREM HeaderAlwaysAgrees == Spec => []HeaderAgrees
<1>1. Inv => HeaderAgrees
  <2> SUFFICES ASSUME Inv PROVE HeaderAgrees
    OBVIOUS
  <2>1. ASSUME wire # Nil PROVE wire.Length = Size(wire.items)
    <3>1. CASE pc = "request"
      BY <3>1, PacketFacts DEF Inv, Sent, Carries
    <3>2. CASE pc = "response"
      BY <3>2, PacketFacts DEF Inv, Answered, Carries
    <3> QED
      BY <2>1, <3>1, <3>2 DEF Inv
  <2>2. ASSUME pc = "panic" PROVE Size(Marshal(asked.op)) > MaxUint16
    <3>1. IsOperation(asked.op) /\ Bytes(asked.op) = Panic
      BY <2>2 DEF Inv, Sent
    <3> QED
      BY <3>1, BytesAgree, WireAssumption DEF MaxUint16
  <2>3. ASSUME pc = "request" PROVE Size(Marshal(asked.op)) <= MaxUint16
    BY <2>3, PacketFacts DEF Inv, Sent, Carries
  <2> QED
    BY <2>1, <2>2, <2>3 DEF HeaderAgrees
<1> QED
    BY <1>1, RequestInvariant, PTL

(* The operation that GetJob reads is the one that the client was asked for.   *)
THEOREM RequestAlwaysArrives == Spec => []RequestArrives
<1>1. Inv => RequestArrives
    BY DEF Inv, Read, RequestArrives
<1> QED
    BY <1>1, RequestInvariant, PTL

(* A limited connection is answered by OpPing and the methods registered for   *)
(* it, or with an error, whatever the opcode and the key.                      *)
THEOREM LimitedNeverUsesKey == Spec => []LimitedUsesNoKey
<1>1. Inv => LimitedUsesNoKey
  <2> SUFFICES ASSUME Inv, pc \in {"respond", "response", "done"}, limited, resp # Nil
               PROVE  \/ resp["Opcode"].val = OpError
                      \/ req["Opcode"].val[1] = "Ping"
                      \/ /\ req["Opcode"].val[1] = "RPC"
                         /\ req["Payload"].val \in {<<"call", m>> : m \in server.limitedDispatcher}
    BY DEF LimitedUsesNoKey
  <2>1. resp \in limitedDo(req)
    BY DEF Inv, Answered, Answers
  <2>2. \A code : Error(code)["Opcode"].val = OpError
    BY ErrorFacts
  <2> QED
    BY <2>1, <2>2 DEF limitedDo, ServeRequest
<1> QED
    BY <1>1, RequestInvariant, PTL


LEMMA ConvertFacts ==
    ASSUME NEW k, NEW hash, NEW pss, NEW form
    PROVE  convert1363ToAsn1(Signature(k, hash, pss, form)) = Signature(k, hash, pss, "ASN.1")
    BY DEF convert1363ToAsn1, Signature

(* What a key of any store signs: with the hash and padding that it is told,   *)
(* but for the keys of KMS that only know RSASSA-PSS.                          *)
LEMMA KeySignFacts ==
    ASSUME NEW k, NEW hash, NEW pss \in BOOLEAN, pss => Public(k) = "rsa", Public(k) # "none",
           NEW sig \in KeySign(k, hash, pss)
    PROVE  sig = Signature(k, hash, IF Store(k) = "google" /\ Type(k)[1] = "PSS" THEN ~pss ELSE pss,
                           Form(k))
<1>1. CASE Store(k) = "azure"
  <2>1. sig \in azureSign(k, hash, pss)
    BY <1>1 DEF KeySign
  <2>2. ~pss /\ determineSigAlg(k, hash, pss) # "unsupported"
    BY <2>1 DEF azureSign, determineSigAlg
  <2>3. CASE keyType(k) = "RSA"
    <3>1. Form(k) = "bytes" /\ determineSigAlg(k, hash, pss) = "RS"
      BY <1>1, <2>2, <2>3 DEF Form, Public, determineSigAlg
    <3>2. sig \in VaultSign(k, hash, "RS")
      BY <2>1, <2>2, <2>3, <3>1 DEF azureSign
    <3>3. sig = Signature(k, hash, FALSE, "bytes")
      BY <3>2 DEF VaultSign
    <3> QED
      BY <1>1, <2>2, <3>1, <3>3
  <2>4. CASE keyType(k) = "EC"
    <3>1. Form(k) = "ASN.1" /\ determineSigAlg(k, hash, pss) = "ES"
      BY <1>1, <2>2, <2>4 DEF Form, Public, determineSigAlg
    <3>2. sig \in {convert1363ToAsn1(x) : x \in VaultSign(k, hash, "ES")}
      BY <2>1, <2>2, <2>4, <3>1 DEF azureSign
    <3>3. VaultSign(k, hash, "ES") = {Signature(k, hash, FALSE, "IEEE 1363")}
      BY DEF VaultSign
    <3>4. sig = convert1363ToAsn1(Signature(k, hash, FALSE, "IEEE 1363"))
      BY <3>2, <3>3
    <3>5. sig = Signature(k, hash, FALSE, "ASN.1")
      BY <3>4, ConvertFacts
    <3> QED
      BY <1>1, <2>2, <3>1, <3>5
  <2>5. keyType(k) \in {"RSA", "EC"}
    BY <1>1 DEF Public
  <2> QED
    BY <2>3, <2>4, <2>5
<1>2. CASE Store(k) = "google"
  <2>1. ~pss /\ sig \in AsymmetricSign(k, hash)
    BY <1>2 DEF KeySign, googleSign
  <2>2. sig = Signature(k, hash, Type(k)[1] = "PSS", Form(k))
    BY <2>1 DEF AsymmetricSign
  <2> QED
    BY <1>2, <2>1, <2>2
<1>3. CASE Store(k) \notin {"azure", "google"}
  <2>1. sig \in localSign(k, hash, pss)
    BY <1>3 DEF KeySign
  <2>2. sig = Signature(k, hash, pss /\ Public(k) = "rsa", Form(k))
    BY <2>1 DEF localSign
  <2>3. (pss /\ Public(k) = "rsa") = pss
    OBVIOUS
  <2> QED
    BY <1>3, <2>2, <2>3
<1> QED
    BY <1>1, <1>2, <1>3

(* What the client makes of the responses of a server that was asked to sign.  *)
LEMMA SignWithFacts ==
    ASSUME NEW k, NEW hash, NEW pss, NEW r \in SignWith(k, hash, pss)
    PROVE  \/ Executed(r)[1] = "error"
           \/ Executed(r) \in KeySign(k, hash, pss)
<1>1. CASE r = Error("ErrCrypto")
    BY <1>1, ErrorFacts DEF Executed, GetError
<1>2. CASE r # Error("ErrCrypto")
  <2>1. PICK sig \in KeySign(k, hash, pss) : r = Respond(Blob(64, sig))
    BY <1>2, Zenon DEF SignWith
  <2>2. Executed(r) = sig
    <3>1. /\ r["Opcode"].val = Opcode("Response") /\ r["Payload"].len = 64
          /\ r["Payload"].val = sig
      <4>1. IsResponse(r, 64, sig)
        BY <2>1, RespondFacts
      <4> QED
        BY <4>1 DEF IsResponse
    <3>2. Opcode("Response") # OpError
      BY DEF OpError, Opcode
    <3> QED
      BY <3>1, <3>2 DEF Executed
  <2> QED
    BY <2>1, <2>2
<1> QED
    BY <1>1, <1>2


(* The opcodes that the client chooses.                                        *)
LEMMA SignOpFacts ==
    ASSUME NEW k, NEW opts, opts.pss \in BOOLEAN, signOpFromSignerOpts(k, opts) # OpError
    PROVE  LET op == signOpFromSignerOpts(k, opts) IN
           \/ /\ Public(k) = "ed25519" /\ ~opts.pss
              /\ op[1] = "Ed25519Sign"
           \/ /\ Public(k) \in {"rsa", "ecdsa"} /\ (opts.pss => Public(k) = "rsa")
              /\ op[1] \in {"RSASign", "RSAPSSSign", "ECDSASign"} /\ op[2] = opts.hash
              /\ op[1] = "RSAPSSSign" <=> opts.pss
<1> DEFINE op == signOpFromSignerOpts(k, opts)
<1>1. CASE opts.pss
  <2>1. Public(k) = "rsa" /\ op = <<"RSAPSSSign", opts.hash>>
    BY <1>1 DEF signOpFromSignerOpts
  <2> QED
    BY <1>1, <2>1
<1>2. CASE ~opts.pss
  <2>1. \/ Public(k) = "rsa" /\ op = <<"RSASign", opts.hash>>
        \/ Public(k) = "ecdsa" /\ op = <<"ECDSASign", opts.hash>>
        \/ Public(k) = "ed25519" /\ op = <<"Ed25519Sign", "none">>
    BY <1>2 DEF signOpFromSignerOpts, Opcode
  <2> QED
    BY <1>2, <2>1
<1> QED
    BY <1>1, <1>2

(* What the call of Sign makes of an answer to it.                             *)
LEMMA SignAnswer ==
    ASSUME Sent(asked), Answered, asked.fn = "Sign"
    PROVE  \/ Executed(resp)[1] = "error"
           \/ LET k == asked.key
                  hash == IF Public(k) = "ed25519" THEN "none" ELSE asked.opts.hash
                  pss == IF Store(k) = "google" /\ Type(k)[1] = "PSS"
                         THEN ~asked.opts.pss
                         ELSE asked.opts.pss
              IN  Executed(resp) = Signature(k, hash, pss, Form(k))
<1> DEFINE k == asked.key
           opts == asked.opts
           op == signOpFromSignerOpts(k, opts)
           hash == IF Public(k) = "ed25519" THEN "none" ELSE opts.hash
<1>1. /\ opts.pss \in BOOLEAN /\ op # OpError
      /\ asked.op = execute(k, op, asked.len) /\ asked.len \in Nat
    BY RequestAssumption DEF Sent
<1>2. req["Opcode"].val = op /\ req["SKI"].val = k
  <2>1. /\ asked.op["Opcode"].val = op /\ asked.op["SKI"].val = k
    <3> HIDE DEF k, op
    <3>1. IsRequest(asked.op, k, op)
      BY <1>1, ExecuteFacts, Zenon
    <3> QED
      BY <3>1 DEF IsRequest
  <2> QED
    BY <2>1, SameFields DEF Answered, Read
<1>3. \A code : Executed(Error(code))[1] = "error"
    BY ErrorFacts DEF Executed, GetError
<1> HIDE DEF k, opts, op
<1>4. op[1] \in {"RSASign", "RSAPSSSign", "ECDSASign", "Ed25519Sign"}
    BY <1>1, SignOpFacts DEF op
<1>5. CASE limited
  <2>1. resp = Error("ErrBadOpcode")
    BY <1>2, <1>4, <1>5 DEF Answered, Answers, limitedDo
  <2> QED
    BY <1>3, <2>1
<1>6. CASE ~limited
  <2>1. resp \in WithKey(req)
    BY <1>2, <1>4, <1>6 DEF Answered, Answers, keylessDo
  <2>2. CASE Get(req) \in {"error", "nil"}
    BY <1>3, <2>1, <2>2 DEF WithKey
  <2>3. CASE Get(req) \notin {"error", "nil"}
    <3>1. /\ op[1] = "Ed25519Sign" => resp \in Ed25519Sign(k)
          /\ op[1] # "Ed25519Sign" => resp \in SignWith(k, op[2], op[1] = "RSAPSSSign")
      BY <1>2, <1>4, <2>1, <2>3 DEF WithKey, HashSign
    <3>2. resp \in SignWith(k, hash, opts.pss)
      <4>1. CASE op[1] = "Ed25519Sign"
        <5>1. hash = "none" /\ opts.pss = FALSE
          BY <1>1, <4>1, SignOpFacts DEF op
        <5>2. resp \in SignWith(k, "none", FALSE)
          BY <3>1, <4>1 DEF Ed25519Sign, SignWith
        <5> QED
          BY <5>1, <5>2
      <4>2. CASE op[1] # "Ed25519Sign"
        <5>1. hash = op[2] /\ (op[1] = "RSAPSSSign") = opts.pss
          BY <1>1, <4>2, SignOpFacts DEF op
        <5> QED
          BY <3>1, <4>2, <5>1
      <4> QED
        BY <4>1, <4>2
    <3>3. Public(k) # "none" /\ (opts.pss => Public(k) = "rsa")
      BY <1>1, SignOpFacts DEF op
    <3>4. CASE Executed(resp)[1] = "error"
      BY <3>4
    <3>5. CASE Executed(resp) \in KeySign(k, hash, opts.pss)
      BY <1>1, <3>3, <3>5, KeySignFacts DEF k, opts
    <3> QED
      BY <3>2, <3>4, <3>5, SignWithFacts
  <2> QED
    BY <2>2, <2>3
<1> QED
    BY <1>5, <1>6

(* Whatever keys, options and server: Sign returns an error, or a signature by *)
(* the key with the hash and padding that were asked for; PSS keys of KMS, and *)
(* keys of Ed25519 that are asked to sign a hash, are left out.                *)
THEOREM AlwaysSignedAsAsked == Spec => []SignedAsAsked
<1>1. Inv => SignedAsAsked
  <2> SUFFICES ASSUME Inv, pc = "done", asked.fn = "Sign" PROVE SignedAsAsked
    BY DEF SignedAsAsked
  <2>1. CASE result = <<"error", "refused">>
    BY <2>1 DEF SignedAsAsked
  <2>2. CASE Sent(asked) /\ Answered /\ result \in Results(resp)
    <3>1. result = Executed(resp)
      BY <2>2 DEF Results
    <3>2. asked.opts.pss \in BOOLEAN
      BY <2>2, RequestAssumption DEF Sent
    <3> QED
      BY <2>2, <3>1, <3>2, SignAnswer DEF SignedAsAsked
  <2> QED
    BY <2>1, <2>2 DEF Inv
<1> QED
    BY <1>1, RequestInvariant, PTL


(* What Decrypt makes of a decrypted message.                                  *)
LEMMA StripFacts ==
    ASSUME NEW em \in Seq(0 .. 255), Len(em) >= 2,
           NEW strip \in {"yes", "session"}, NEW r \in Strip(em, strip)
    PROVE  IF r[1] = "plain"
           THEN \E i \in 3 .. Len(em) : Padded(em, i) /\ r[2] = SubSeq(em, i + 1, Len(em))
           ELSE \/ strip = "session" /\ r = <<"error", "rand">>
                \/ \A i \in 3 .. Len(em) : Padded(em, i) =>
                      strip = "session" /\ Len(em) - i # SessionKeyLen
<1> DEFINE p == parsePKCS1v15(em)
           N == Len(em)
           short == N - (SessionKeyLen + 3 + 8) < 0
           isKey == p.valid /\ N - p.index = SessionKeyLen
<1>1. /\ N \in Nat /\ p.valid \in BOOLEAN
      /\ p.valid => p.index \in 3 .. N /\ Padded(em, p.index)
      /\ \A i \in 3 .. N : Padded(em, i) => p.valid /\ p.index = i
    BY ParseFindsPadding
<1>2. CASE strip = "yes"
  <2>1. r \in IF p.valid THEN {<<"plain", SubSeq(em, p.index + 1, N)>>}
              ELSE {<<"error", "ErrDecryption">>}
    BY <1>2 DEF Strip
  <2> HIDE DEF p, N
  <2>2. CASE p.valid
    <3>1. r[1] = "plain" /\ r[2] = SubSeq(em, p.index + 1, N)
      BY <2>1, <2>2
    <3> QED
      BY <1>1, <2>2, <3>1 DEF N
  <2>3. CASE ~p.valid
    <3>1. r[1] # "plain" /\ \A i \in 3 .. N : ~Padded(em, i)
      BY <1>1, <2>1, <2>3
    <3> QED
      BY <3>1 DEF N
  <2> QED
    BY <1>1, <2>2, <2>3
<1>3. CASE strip = "session"
  <2>1. \/ r = <<"error", "rand">>
        \/ short /\ r = <<"error", "ErrDecryption">>
        \/ ~short /\ isKey /\ r = <<"plain", SubSeq(em, N - SessionKeyLen + 1, N)>>
        \/ ~short /\ ~isKey /\ r = <<"random">>
    BY <1>3 DEF Strip
  <2> HIDE DEF p, N
  <2>2. CASE r = <<"error", "rand">>
    BY <1>3, <2>2
  <2>3. CASE short /\ r = <<"error", "ErrDecryption">>
    <3>1. \A i \in 3 .. N : Padded(em, i) => N - i # SessionKeyLen
      BY <1>1, <2>3 DEF Padded, SessionKeyLen
    <3> QED
      BY <1>3, <2>3, <3>1 DEF N
  <2>4. CASE isKey /\ r = <<"plain", SubSeq(em, N - SessionKeyLen + 1, N)>>
    <3>1. p.index \in 3 .. N /\ Padded(em, p.index) /\ N - SessionKeyLen + 1 = p.index + 1
      BY <1>1, <2>4 DEF SessionKeyLen
    <3>2. r[1] = "plain" /\ r[2] = SubSeq(em, p.index + 1, N)
      BY <2>4, <3>1
    <3> QED
      BY <3>1, <3>2 DEF N
  <2>5. CASE ~isKey /\ r = <<"random">>
    <3>1. \A i \in 3 .. N : Padded(em, i) => N - i # SessionKeyLen
      BY <1>1, <2>5
    <3>2. r[1] # "plain"
      BY <2>5
    <3> QED
      BY <1>3, <3>1, <3>2 DEF N
  <2> QED
    BY <2>1, <2>2, <2>3, <2>4, <2>5
<1> QED
    BY <1>2, <1>3

(* With a key from a file, Decrypt takes off exactly the paddings of PKCS #1   *)
(* v1.5, whatever block the server has decrypted.                              *)
THEOREM AlwaysStripsPadding == Spec => []StripsPadding
<1>1. Inv => StripsPadding
  <2> SUFFICES ASSUME Inv, pc = "done", asked.fn = "Decrypt", asked.strip # "no",
                      Store(asked.key) = "file",
                      resp # Nil, resp["Opcode"].val = Opcode("Response")
               PROVE  StripsPadding
    BY DEF StripsPadding
  <2>1. Sent(asked) /\ Answered /\ result \in Results(resp)
    BY DEF Inv
  <2>2. req["Opcode"].val = Opcode("RSADecrypt") /\ req["SKI"].val = asked.key
    <3>1. asked.op["Opcode"].val = Opcode("RSADecrypt") /\ asked.op["SKI"].val = asked.key
      <4>1. asked.op = execute(asked.key, Opcode("RSADecrypt"), 256)
        BY <2>1 DEF Sent
      <4>2. IsRequest(asked.op, asked.key, Opcode("RSADecrypt"))
        BY <4>1, ExecuteFacts
      <4> QED
        BY <4>2 DEF IsRequest
    <3> QED
      BY <2>1, <3>1, SameFields DEF Answered, Read
  <2>3. Opcode("RSADecrypt")[1] = "RSADecrypt" /\ Opcode("Response") # OpError
    BY DEF Opcode, OpError
  <2>4. \A code : resp # Error(code)
    BY <2>3, ErrorFacts
  <2>5. ~limited /\ resp \in RSADecrypt(asked.key)
    <3>1. ~limited
      BY <2>1, <2>2, <2>3, <2>4 DEF Answered, Answers, limitedDo
    <3>2. resp \in WithKey(req)
      BY <2>1, <2>2, <2>3, <3>1 DEF Answered, Answers, keylessDo
    <3> QED
      BY <2>2, <2>3, <2>4, <3>1, <3>2 DEF WithKey
  <2>6. PICK em \in EMs : resp = Respond(Blob(Len(em), <<"plain", em>>))
    <3>1. PICK m \in EMs :
             resp = Respond(IF Len(m) = 0 THEN Empty ELSE Blob(Len(m), <<"plain", m>>))
      BY <2>4, <2>5 DEF RSADecrypt, Decrypted
    <3>2. Len(m) # 0
      BY RequestAssumption
    <3> QED
      BY <3>1, <3>2, Zenon
  <2>7. em \in Seq(0 .. 255) /\ Len(em) >= 2 /\ Len(em) \in Nat \ {0}
    BY RequestAssumption
  <2>8. resp["Payload"].val = <<"plain", em>> /\ resp["Payload"].len # 0
    BY <2>6, <2>7, RespondFacts DEF IsResponse
  <2>9. Executed(resp) = <<"plain", em>>
    BY <2>3, <2>8 DEF Executed
  <2>10. result \in Strip(em, asked.strip) /\ asked.strip \in {"yes", "session"}
    BY <2>1, <2>9 DEF Results, Sent
  <2>11. resp["Payload"].val[2] = em
    BY <2>8
  <2>12. IF result[1] = "plain"
         THEN \E i \in 3 .. Len(em) : Padded(em, i) /\ result[2] = SubSeq(em, i + 1, Len(em))
         ELSE \/ asked.strip = "session" /\ result = <<"error", "rand">>
              \/ \A i \in 3 .. Len(em) : Padded(em, i) =>
                    asked.strip = "session" /\ Len(em) - i # SessionKeyLen
    BY <2>7, <2>10, StripFacts
  <2> QED
    BY <2>11, <2>12 DEF StripsPadding
<1> QED
    BY <1>1, RequestInvariant, PTL
================================================================================
