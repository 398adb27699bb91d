------------------------------- MODULE GroupProofs -------------------------------
(*******************************************************************************)
(* Proofs about Group, for any servers, callers, lookups and blacklists.       *)
(*                                                                             *)
(* How often a server is in a list is not what the steps of PingAll preserve   *)
(* by themselves: a list is put in place that was copied before, and each of   *)
(* its elements was sent by a goroutine of its own.  The invariant therefore   *)
(* says of each list that it is the list of the lookup in another order, and   *)
(* of each result that it is of the remote at the same place.                  *)
(*******************************************************************************)
EXTENDS Group, FiniteSetTheorems, TLAPS

(* Induction over the natural numbers, for a set.                              *)
LEMMA SetInduction ==
    ASSUME NEW S, 0 \in S, \A n \in Nat : n \in S => n + 1 \in S
    PROVE  Nat \subseteq S
<1> DEFINE T == Nat \ S
<1> SUFFICES ASSUME T # {} PROVE FALSE
    OBVIOUS
<1>1. T \subseteq Nat
    OBVIOUS
<1>2. PICK x \in T : \A y \in T : ~ (<<y, x>> \in OpToRel(<, Nat))
  <2> HIDE DEF T
  <2> QED
    BY <1>1, WFMin, NatLessThanWellFounded, Zenon
<1>3. \A y \in T : ~ (y < x)
    BY <1>1, <1>2 DEF OpToRel
<1>4. x # 0 /\ x - 1 \in Nat
    OBVIOUS
<1>5. x - 1 \in S
    BY <1>3, <1>4
<1> QED
    BY <1>4, <1>5

(* A function over 0 .. K can be defined step by step: from its first value, and *)
(* from each value to the next one.                                            *)
Iterates(f, K, V, b, G) ==
    /\ f \in [0 .. K -> V] /\ f[0] = b
    /\ \A n \in 1 .. K : f[n] \in V /\ f[n - 1] \in V /\ f[n] = G[n][f[n - 1]]

LEMMA Recursion ==
    ASSUME NEW K \in Nat, NEW V, NEW b \in V, NEW G \in [1 .. K -> [V -> V]]
    PROVE  \E f : Iterates(f, K, V, b, G)
<1> DEFINE P(m, f) == /\ f \in [0 .. m -> V] /\ f[0] = b
                      /\ \A n \in 1 .. m : f[n] = G[n][f[n - 1]]
           S == {m \in Nat : m <= K => \E f : P(m, f)}
<1>1. 0 \in S
  <2>1. P(0, [i \in 0 .. 0 |-> b])
    OBVIOUS
  <2> QED
    BY <2>1
<1>2. ASSUME NEW m \in Nat, m \in S PROVE m + 1 \in S
  <2> SUFFICES ASSUME m + 1 <= K PROVE \E f : P(m + 1, f)
    OBVIOUS
  <2>1. PICK f : P(m, f)
    BY <1>2
  <2> DEFINE x == G[m + 1][f[m]]
             g == [i \in 0 .. m + 1 |-> IF i = m + 1 THEN x ELSE f[i]]
  <2>2. x \in V
    BY <2>1
  <2>3. g \in [0 .. m + 1 -> V] /\ g[0] = b
    BY <2>1, <2>2
  <2>4. ASSUME NEW n \in 1 .. m + 1 PROVE g[n] = G[n][g[n - 1]]
    <3>1. CASE n = m + 1
      BY <3>1
    <3>2. CASE n # m + 1
      <4>1. n \in 1 .. m /\ n \in 0 .. m + 1 /\ n - 1 \in 0 .. m + 1 /\ n - 1 # m + 1
        BY <3>2
      <4>2. g[n] = f[n] /\ g[n - 1] = f[n - 1]
        BY <4>1, <3>2
      <4> QED
        BY <4>1, <4>2, <2>1
    <3> QED
      BY <3>1, <3>2
  <2>5. P(m + 1, g)
    BY <2>3, <2>4
  <2> QED
    BY <2>5
<1> HIDE DEF S
<1>3. K \in S
    BY <1>1, <1>2, SetInduction
<1>4. PICK f : P(K, f)
    BY <1>3 DEF S
<1>5. Iterates(f, K, V, b, G)
  <2>1. ASSUME NEW n \in 1 .. K PROVE n - 1 \in 0 .. K /\ n \in 0 .. K
    OBVIOUS
  <2> QED
    BY <1>4, <2>1 DEF Iterates
<1> QED
    BY <1>5

(* Induction over an interval.                                                 *)
LEMMA IntervalInduction ==
    ASSUME NEW K \in Nat, NEW S, 0 \in S, \A n \in 1 .. K : n - 1 \in S => n \in S
    PROVE  0 .. K \subseteq S
<1> DEFINE T == {n \in Nat : n <= K => n \in S}
<1>1. 0 \in T
    OBVIOUS
<1>2. ASSUME NEW n \in Nat, n \in T PROVE n + 1 \in T
  <2> SUFFICES ASSUME n + 1 <= K PROVE n + 1 \in S
    OBVIOUS
  <2>1. n + 1 \in 1 .. K /\ (n + 1) - 1 = n /\ n \in S
    BY <1>2
  <2> QED
    BY <2>1
<1> HIDE DEF T
<1>3. Nat \subseteq T
    BY <1>1, <1>2, SetInduction
<1> QED
    BY <1>3 DEF T

(* What the first value satisfies and each step keeps, every value satisfies.  *)
LEMMA EveryValue ==
    ASSUME NEW K \in Nat, NEW V, NEW r, r[0] \in V,
           \A n \in 1 .. K : r[n - 1] \in V => r[n] \in V
    PROVE  \A n \in 0 .. K : r[n] \in V
<1> DEFINE T == {n \in 0 .. K : r[n] \in V}
<1>1. 0 \in T
    OBVIOUS
<1>2. ASSUME NEW n \in 1 .. K, n - 1 \in T PROVE n \in T
    BY <1>2
<1> HIDE DEF T
<1>3. 0 .. K \subseteq T
    BY <1>1, <1>2, IntervalInduction
<1> QED
    BY <1>3 DEF T
--------------------------------------------------------------------------------
(* The lookup                                                                  *)

(* What the resolvers have answered is a list of addresses.                    *)
LEMMA GatherFacts ==
    ASSUME NEW answers \in Seq(Seq(IP))
    PROVE  Gather(answers)[Len(answers)] \in Seq(IP)
<1> DEFINE K == Len(answers)
           V == Seq(IP)
           H(v, n) == v \o answers[n]
           G == [n \in 1 .. K |-> [v \in V |-> H(v, n)]]
           E(f) == f = [n \in 0 .. K |-> IF n = 0 THEN <<>> ELSE H(f[n - 1], n)]
<1>1. K \in Nat /\ <<>> \in V
    OBVIOUS
<1>2. \A n \in 1 .. K, v \in V : H(v, n) \in V
    OBVIOUS
<1> HIDE DEF K, H, V
<1>3. G \in [1 .. K -> [V -> V]]
    BY <1>2
<1>4. PICK f : Iterates(f, K, V, <<>>, G)
  <2> HIDE DEF G
  <2> QED
    BY <1>1, <1>3, Recursion, Zenon
<1>5. f \in [0 .. K -> V] /\ f[0] = <<>> /\ \A n \in 1 .. K : f[n] = H(f[n - 1], n)
    BY <1>4 DEF Iterates
<1>6. E(f)
    BY <1>1, <1>5
<1>7. E(Gather(answers))
    BY <1>6, Zenon DEF Gather, K, H
<1> DEFINE r == Gather(answers)
<1> HIDE DEF r
<1>8. r = [n \in 0 .. K |-> IF n = 0 THEN <<>> ELSE H(r[n - 1], n)]
    BY <1>7 DEF r
<1>9. r[0] = <<>> /\ \A n \in 1 .. K : r[n] = H(r[n - 1], n)
    BY <1>1, <1>8
<1>10. \A n \in 0 .. K : r[n] \in V
  <2>1. ASSUME NEW n \in 1 .. K, r[n - 1] \in V PROVE r[n] \in V
    BY <1>2, <1>9, <2>1
  <2> QED
    BY <1>1, <1>9, <2>1, EveryValue, Zenon
<1> QED
    BY <1>1, <1>10 DEF r, K, V

(* What LookupServerWithName hands to NewGroup is what DNS said without the    *)
(* addresses on the blacklist: those are left out, and no other.               *)
THEOREM LookupLeavesOutBlacklist ==
    ASSUME NEW as, NEW ips \in Seq(IP), NEW port
    PROVE  LET servers == LookupServerWithName(as, ips, port)
           IN  /\ servers \in Seq(IP)
               /\ \A ip : ip \in Range(servers) <=> ip \in Range(ips) /\ ~Contains(as, ip, port)
<1> DEFINE K == Len(ips)
           V == Seq(IP)
           H(v, n) == IF Contains(as, ips[n], port) THEN v ELSE Append(v, ips[n])
           G == [n \in 1 .. K |-> [v \in V |-> H(v, n)]]
           E(f) == f = [n \in 0 .. K |-> IF n = 0 THEN <<>> ELSE H(f[n - 1], n)]
<1>1. K \in Nat /\ <<>> \in V
    OBVIOUS
<1>2. ASSUME NEW n \in 1 .. K, NEW v \in V PROVE H(v, n) \in V
  <2>1. ips[n] \in IP /\ Append(v, ips[n]) \in V
    OBVIOUS
  <2> QED
    BY <2>1
<1> HIDE DEF K, H, V
<1>3. G \in [1 .. K -> [V -> V]]
    BY <1>2
<1>4. PICK f : Iterates(f, K, V, <<>>, G)
  <2> HIDE DEF G
  <2> QED
    BY <1>1, <1>3, Recursion, Zenon
<1>5. f \in [0 .. K -> V] /\ f[0] = <<>> /\ \A n \in 1 .. K : f[n] = H(f[n - 1], n)
    BY <1>4 DEF Iterates
<1>6. E(f)
    BY <1>1, <1>5
<1>7. E(Usable(as, ips, port))
    BY <1>6, Zenon DEF Usable, K, H
<1> DEFINE r == Usable(as, ips, port)
<1> HIDE DEF r
<1>8. r = [n \in 0 .. K |-> IF n = 0 THEN <<>> ELSE H(r[n - 1], n)]
    BY <1>7 DEF r
<1>9. r[0] = <<>> /\ \A n \in 1 .. K : r[n] = H(r[n - 1], n)
    BY <1>1, <1>8
<1>10. \A n \in 0 .. K : r[n] \in V
  <2>1. ASSUME NEW n \in 1 .. K, r[n - 1] \in V PROVE r[n] \in V
    BY <1>2, <1>9, <2>1
  <2> QED
    BY <1>1, <1>9, <2>1, EveryValue, Zenon
<1> DEFINE P(n, ip) == (\E i \in DOMAIN r[n] : r[n][i] = ip)
                          <=> (\E j \in 1 .. n : ips[j] = ip) /\ ~Contains(as, ip, port)
           S == {n \in 0 .. K : \A ip : P(n, ip)}
<1>11. 0 \in S
  <2>1. 0 \in 0 .. K /\ 1 .. 0 = {} /\ DOMAIN r[0] = {}
    BY <1>1, <1>9
  <2>2. ASSUME NEW ip PROVE P(0, ip)
    BY <2>1, Zenon
  <2> QED
    BY <2>1, <2>2, Zenon
<1>12. ASSUME NEW n \in 1 .. K, n - 1 \in S PROVE n \in S
  <2>1. r[n - 1] \in Seq(IP) /\ r[n] = H(r[n - 1], n) /\ n \in 0 .. K
    BY <1>1, <1>9, <1>10 DEF V
  <2>2. ASSUME NEW ip PROVE P(n - 1, ip)
    BY <1>12
  <2>3. ASSUME NEW ip
        PROVE  (\E j \in 1 .. n : ips[j] = ip) <=> (ips[n] = ip \/ \E j \in 1 .. n - 1 : ips[j] = ip)
    <3>1. 1 .. n = (1 .. n - 1) \cup {n}
      BY <1>1
    <3> QED
      BY <3>1, Zenon
  <2>4. CASE Contains(as, ips[n], port)
    <3>1. r[n] = r[n - 1]
      BY <2>1, <2>4 DEF H
    <3>2. ASSUME NEW ip PROVE P(n, ip)
      BY <2>2, <2>3, <2>4, <3>1, Zenon
    <3> QED
      BY <2>1, <3>2, Zenon
  <2>5. CASE ~Contains(as, ips[n], port)
    <3>1. r[n] = Append(r[n - 1], ips[n])
      BY <2>1, <2>5 DEF H
    <3>2. ASSUME NEW ip
          PROVE  (\E i \in DOMAIN r[n] : r[n][i] = ip)
                 <=> (ips[n] = ip \/ \E i \in DOMAIN r[n - 1] : r[n - 1][i] = ip)
      <4> DEFINE v == r[n - 1]
      <4>1. v \in Seq(IP) /\ r[n] = Append(v, ips[n])
        BY <2>1, <3>1
      <4> HIDE DEF v
      <4>2. /\ DOMAIN r[n] = (DOMAIN v) \cup {Len(v) + 1} /\ r[n][Len(v) + 1] = ips[n]
            /\ \A i \in DOMAIN v : r[n][i] = v[i]
        BY <4>1
      <4> QED
        BY <4>2, Zenon DEF v
    <3>3. ASSUME NEW ip PROVE P(n, ip)
      BY <2>2, <2>3, <2>5, <3>2, Zenon
    <3> QED
      BY <2>1, <3>3, Zenon
  <2> QED
    BY <2>4, <2>5
<1>13. K \in S
  <2> HIDE DEF S
  <2>1. 0 .. K \subseteq S
    BY <1>1, <1>11, <1>12, IntervalInduction, Zenon
  <2> QED
    BY <1>1, <2>1
<1>14. r[K] \in Seq(IP) /\ \A ip : P(K, ip)
    BY <1>1, <1>10, <1>13 DEF V
<1>15. ASSUME NEW ip PROVE ip \in Range(ips) <=> \E j \in 1 .. K : ips[j] = ip
    BY DEF Range, K
<1>16. ASSUME NEW ip PROVE ip \in Range(r[K]) <=> \E i \in DOMAIN r[K] : r[K][i] = ip
    BY DEF Range
<1>17. ASSUME NEW ip PROVE ip \in Range(r[K]) <=> ip \in Range(ips) /\ ~Contains(as, ip, port)
    BY <1>14, <1>15, <1>16, Zenon
<1> QED
    BY <1>14, <1>17, Zenon DEF r, K, LookupServerWithName

LEMMA LookupFacts ==
    ASSUME NEW a \in DNS
    PROVE  LookupServerWithName(blacklist, LookupIPs(a.answers, a.system), Port) \in Seq(IP)
<1>1. LookupIPs(a.answers, a.system) \in Seq(IP)
    BY GatherFacts, GroupAssumption DEF LookupIPs
<1> QED
    BY <1>1, LookupLeavesOutBlacklist
--------------------------------------------------------------------------------
(* Orders                                                                      *)

LEMMA BijectionFacts ==
    ASSUME NEW A, NEW p \in Bijection(A, A)
    PROVE  /\ p \in [A -> A]
           /\ \A i, j \in A : p[i] = p[j] => i = j
           /\ \A t \in A : \E i \in A : p[i] = t
    BY DEF Bijection, Injection, Surjection, IsInjective

(* One order after another is an order.                                        *)
LEMMA Compose ==
    ASSUME NEW n \in Nat, NEW p \in Bijection(1 .. n, 1 .. n), NEW q \in Bijection(1 .. n, 1 .. n)
    PROVE  [i \in 1 .. n |-> p[q[i]]] \in Bijection(1 .. n, 1 .. n)
<1> DEFINE r == [i \in 1 .. n |-> p[q[i]]]
<1>1. /\ p \in [1 .. n -> 1 .. n] /\ q \in [1 .. n -> 1 .. n]
      /\ \A i, j \in 1 .. n : p[i] = p[j] => i = j
      /\ \A i, j \in 1 .. n : q[i] = q[j] => i = j
      /\ \A t \in 1 .. n : \E i \in 1 .. n : p[i] = t
      /\ \A t \in 1 .. n : \E i \in 1 .. n : q[i] = t
    BY BijectionFacts, Zenon
<1>2. r \in [1 .. n -> 1 .. n]
    BY <1>1
<1>3. \A i, j \in 1 .. n : r[i] = r[j] => i = j
    BY <1>1
<1>4. \A t \in 1 .. n : \E i \in 1 .. n : r[i] = t
    BY <1>1
<1> HIDE DEF r
<1>5. r \in Bijection(1 .. n, 1 .. n)
    BY <1>2, <1>3, <1>4 DEF Bijection, Injection, Surjection, IsInjective
<1> QED
    BY <1>5 DEF r

LEMMA Identity ==
    ASSUME NEW n \in Nat
    PROVE  [i \in 1 .. n |-> i] \in Bijection(1 .. n, 1 .. n)
    BY DEF Bijection, Injection, Surjection, IsInjective

(* Elements from different places occur no more often.                         *)
LEMMA TimesOfMembers ==
    ASSUME NEW m \in Nat, NEW n \in Nat, NEW s, NEW t, DOMAIN s = 1 .. m, DOMAIN t = 1 .. n,
           NEW p \in Injection(1 .. m, 1 .. n), \A i \in 1 .. m : s[i] = t[p[i]], NEW x
    PROVE  /\ Times(s, x) <= Times(t, x)
           /\ p \in Surjection(1 .. m, 1 .. n) => Times(s, x) = Times(t, x)
<1> DEFINE A == {i \in DOMAIN s : s[i] = x}
           B == {i \in DOMAIN t : t[i] = x}
           f == [i \in A |-> p[i]]
<1>1. p \in [1 .. m -> 1 .. n] /\ \A i, j \in 1 .. m : p[i] = p[j] => i = j
    BY DEF Injection, IsInjective
<1>2. f \in [A -> B] /\ \A i, j \in A : f[i] = f[j] => i = j
    BY <1>1
<1>3. f \in Injection(A, B)
  <2> HIDE DEF A, B
  <2> QED
    BY <1>2 DEF Injection, IsInjective
<1>4. IsFiniteSet(B)
  <2>1. IsFiniteSet(1 .. n) /\ B \in SUBSET (1 .. n)
    BY FS_Interval
  <2> HIDE DEF B
  <2> QED
    BY <2>1, FS_Subset
<1>5. ASSUME p \in Surjection(1 .. m, 1 .. n) PROVE f \in Surjection(A, B)
  <2>1. \A k \in 1 .. n : \E i \in 1 .. m : p[i] = k
    BY <1>5 DEF Surjection
  <2>2. \A k \in B : \E i \in A : f[i] = k
    BY <2>1
  <2> HIDE DEF A, B, f
  <2> QED
    BY <1>2, <2>2 DEF Surjection
<1>6. /\ Cardinality(A) <= Cardinality(B)
      /\ Cardinality(A) = Cardinality(B) <=> f \in Surjection(A, B)
  <2> HIDE DEF A, B, f
  <2> QED
    BY <1>3, <1>4, FS_Injection
<1> HIDE DEF f
<1> QED
    BY <1>5, <1>6 DEF Times
--------------------------------------------------------------------------------
(* The shuffle                                                                 *)

(* The first elements of s, each in one place.                                 *)
Arranged(c, s, n) ==
    \E p \in [1 .. n -> 1 .. n] :
        /\ \A i, j \in 1 .. n : p[i] = p[j] => i = j
        /\ c = [i \in 1 .. n |-> s[p[i]]]

(* Whatever random numbers Dial draws, its shuffle puts each of the first      *)
(* remotes in one place: it loses none and tries none twice.                   *)
THEOREM ShuffleArranges ==
    ASSUME NEW T \in Nat, NEW s, NEW js \in Picks(T)
    PROVE  Arranged(Shuffle(s, js), s, T)
<1> DEFINE W == {s[i] : i \in 1 .. T} \cup 1 .. T
           V == [1 .. T -> W]
           H(v, n) == [v EXCEPT ![n] = IF js[n] # n THEN v[js[n]] ELSE @, ![js[n]] = s[n]]
           G == [n \in 1 .. T |-> [v \in V |-> H(v, n)]]
           E(f) == f = [n \in 0 .. Len(js) |-> IF n = 0 THEN js ELSE H(f[n - 1], n)]
<1>1. /\ js \in V /\ js \in [1 .. T -> 1 .. T] /\ Len(js) = T
      /\ \A n \in 1 .. T : js[n] \in 1 .. n
    BY DEF Picks
<1>2. ASSUME NEW n \in 1 .. T, NEW v \in V
      PROVE  /\ H(v, n) \in V
             /\ \A k \in 1 .. T : H(v, n)[k] = IF k = js[n] THEN s[n]
                                              ELSE IF k = n THEN v[js[n]] ELSE v[k]
  <2>1. n \in 1 .. T /\ js[n] \in 1 .. T /\ s[n] \in W /\ v[js[n]] \in W
    BY <1>1
  <2> HIDE DEF W
  <2> QED
    BY <2>1
<1> HIDE DEF H, V
<1>3. G \in [1 .. T -> [V -> V]]
    BY <1>2
<1>4. PICK f : Iterates(f, T, V, js, G)
  <2> HIDE DEF G
  <2> QED
    BY <1>1, <1>3, Recursion, Zenon
<1>5. f \in [0 .. T -> V] /\ f[0] = js /\ \A n \in 1 .. T : f[n] = H(f[n - 1], n)
    BY <1>4 DEF Iterates
<1>6. E(f)
    BY <1>1, <1>5
<1>7. E(Shuffled(s, js))
    BY <1>6, Zenon DEF Shuffled, H
<1> DEFINE r == Shuffled(s, js)
<1> HIDE DEF r
<1>8. r = [n \in 0 .. T |-> IF n = 0 THEN js ELSE H(r[n - 1], n)]
    BY <1>1, <1>7 DEF r
<1>9. r[0] = js /\ \A n \in 1 .. T : r[n] = H(r[n - 1], n)
    BY <1>8
<1>10. \A n \in 0 .. T : r[n] \in V
  <2>1. ASSUME NEW n \in 1 .. T, r[n - 1] \in V PROVE r[n] \in V
    BY <1>2, <1>9, <2>1
  <2> QED
    BY <1>1, <1>9, <2>1, EveryValue, Zenon
<1> DEFINE A(n, p) == /\ p \in [1 .. n -> 1 .. n]
                      /\ \A i, j \in 1 .. n : p[i] = p[j] => i = j
                      /\ \A i \in 1 .. n : r[n][i] = s[p[i]]
           S == {n \in 0 .. T : \E p : A(n, p)}
<1>11. 0 \in S
  <2> DEFINE e == [i \in 1 .. 0 |-> i]
  <2>1. A(0, e)
    OBVIOUS
  <2>2. 0 \in 0 .. T
    OBVIOUS
  <2> QED
    BY <2>1, <2>2, Zenon
<1>12. ASSUME NEW n \in 1 .. T, n - 1 \in S PROVE n \in S
  <2>1. PICK p : A(n - 1, p)
    BY <1>12
  <2> DEFINE j == js[n]
             q == [k \in 1 .. n |-> IF k = j THEN n ELSE IF k = n THEN p[j] ELSE p[k]]
  <2>2. j \in 1 .. n /\ j \in 1 .. T
    BY <1>1
  <2>3. ASSUME NEW k \in 1 .. T PROVE r[n][k] = IF k = j THEN s[n] ELSE IF k = n THEN r[n - 1][j] ELSE r[n - 1][k]
    <3>1. n - 1 \in 0 .. T
      OBVIOUS
    <3> QED
      BY <1>2, <1>9, <1>10, <3>1
  <2> HIDE DEF j
  <2>4. q \in [1 .. n -> 1 .. n]
    BY <2>1, <2>2
  <2>5. \A i, k \in 1 .. n : q[i] = q[k] => i = k
    BY <2>1, <2>2
  <2>6. ASSUME NEW k \in 1 .. n PROVE r[n][k] = s[q[k]]
    <3>1. k \in 1 .. T
      OBVIOUS
    <3>2. CASE k = j
      BY <2>2, <2>3, <3>1, <3>2
    <3>3. CASE k # j /\ k = n
      <4>1. j \in 1 .. n - 1
        BY <2>2, <3>3
      <4> QED
        BY <2>1, <2>3, <3>1, <3>3, <4>1
    <3>4. CASE k # j /\ k # n
      <4>1. k \in 1 .. n - 1
        BY <3>4
      <4> QED
        BY <2>1, <2>3, <3>1, <3>4, <4>1
    <3> QED
      BY <3>2, <3>3, <3>4
  <2> HIDE DEF q
  <2>7. A(n, q)
    BY <2>4, <2>5, <2>6
  <2>8. n \in 0 .. T
    OBVIOUS
  <2> QED
    BY <2>7, <2>8, Zenon
<1>13. T \in S
  <2> HIDE DEF S
  <2> QED
    BY <1>11, <1>12, IntervalInduction
<1>14. PICK p : A(T, p)
    BY <1>13
<1>15. r[T] \in [1 .. T -> W]
    BY <1>10 DEF V
<1>16. r[T] = [i \in 1 .. T |-> s[p[i]]]
  <2> HIDE DEF W
  <2> QED
    BY <1>14, <1>15
<1>17. Arranged(r[T], s, T)
    BY <1>14, <1>16 DEF Arranged
<1> QED
    BY <1>1, <1>17, Zenon DEF r, Shuffle
--------------------------------------------------------------------------------
(* The inductive invariant                                                     *)

(* A list of remotes that is that of the lookup, in some order.                *)
SameServers(s, f) ==
    /\ DOMAIN s = 1 .. Len(f)
    /\ \E p \in Bijection(1 .. Len(f), 1 .. Len(f)) :
          \A i \in 1 .. Len(f) : s[i].remote = f[p[i]]

(* A list of addresses from different places of that of the lookup.            *)
Members(c, f) ==
    /\ c \in Seq(IP)
    /\ \E p \in Injection(1 .. Len(c), 1 .. Len(f)) :
          \A i \in 1 .. Len(c) : c[i] = f[p[i]]

(* What a Dial has still to try, and what it has connected to.                 *)
DialRight(d) ==
    /\ dpc[d] = "try" => cand[d] # <<>> /\ Members(cand[d], found)
    /\ dpc[d] = "defer" => \A i \in DOMAIN cand[d] : ~Contains(blacklist, cand[d][i], Port)

(* The copy of a PingAll is that of the lookup in another order, and each      *)
(* result is of the remote at its place.                                       *)
RoundRight(p) ==
    ppc[p] \in {"launch", "collect"} =>
        /\ SameServers(list[p], found)
        /\ DOMAIN gpc[p] = 1 .. Len(found) /\ DOMAIN ch[p] = 1 .. Len(found)
        /\ \A i \in 1 .. Len(found) : ch[p][i] # None => ch[p][i].remote = list[p][i].remote

Inv ==
    /\ found \in Seq(IP) /\ SameServers(remotes, found)
    /\ dpc \in [Dialer -> {"idle", "try", "defer"}] /\ DOMAIN cand = Dialer
    /\ ppc \in [Round -> {"off", "copy", "launch", "collect", "return"}]
    /\ DOMAIN list = Round /\ DOMAIN gpc = Round /\ DOMAIN ch = Round
    /\ \A d \in Dialer : DialRight(d)
    /\ \A p \in Round : RoundRight(p)

(* As many remotes as the lookup found.                                        *)
LEMMA SameLength ==
    ASSUME Inv
    PROVE  N = Len(found) /\ N \in Nat
<1>1. DOMAIN remotes = 1 .. Len(found) /\ Len(found) \in Nat
    BY DEF Inv, SameServers
<1> QED
    BY <1>1 DEF N


(* A Dial that nothing touched, and a PingAll.                                 *)
LEMMA DialFrame ==
    ASSUME NEW d \in Dialer, DialRight(d), dpc'[d] = dpc[d], cand'[d] = cand[d],
           UNCHANGED <<blacklist, found>>
    PROVE  DialRight(d)'
    BY DEF DialRight, Contains

LEMMA RoundFrame ==
    ASSUME NEW p \in Round, RoundRight(p), ppc'[p] = ppc[p], list'[p] = list[p],
           gpc'[p] = gpc[p], ch'[p] = ch[p], found' = found
    PROVE  RoundRight(p)'
    BY DEF RoundRight

(* Nobody dials or pings: the lookup and the blacklist may change.             *)
LEMMA QuietRight ==
    ASSUME Inv, Quiet, UNCHANGED <<dpc, cand, roundVars>>
    PROVE  /\ \A d \in Dialer : DialRight(d)'
           /\ \A p \in Round : RoundRight(p)'
    BY DEF Inv, Quiet, DialRight, RoundRight, roundVars

LEMMA InitInv == Init => Inv
<1> SUFFICES ASSUME Init PROVE Inv
    OBVIOUS
<1>1. SameServers(remotes, found)
  <2>1. [i \in 1 .. 0 |-> i] \in Bijection(1 .. 0, 1 .. 0)
    BY Identity
  <2>2. DOMAIN remotes = 1 .. Len(found) /\ Len(found) = 0
    BY DEF Init
  <2>3. \A i \in 1 .. 0 : remotes[i].remote = found[[k \in 1 .. 0 |-> k][i]]
    OBVIOUS
  <2> QED
    BY <2>1, <2>2, <2>3, Zenon DEF SameServers
<1>2. \A d \in Dialer : DialRight(d)
    BY DEF Init, DialRight
<1>3. \A p \in Round : RoundRight(p)
    BY DEF Init, RoundRight
<1> QED
    BY <1>1, <1>2, <1>3 DEF Init, Inv

LEMMA StutterInv == ASSUME Inv, UNCHANGED vars PROVE Inv'
<1>1. ASSUME NEW d \in Dialer PROVE DialRight(d)'
    BY DialFrame DEF Inv, vars, lookupVars
<1>2. ASSUME NEW p \in Round PROVE RoundRight(p)'
    BY RoundFrame DEF Inv, vars, lookupVars, roundVars
<1> QED
    BY <1>1, <1>2 DEF Inv, vars, lookupVars, roundVars

LEMMA TickInv == ASSUME Inv, Tick PROVE Inv'
<1>1. ASSUME NEW d \in Dialer PROVE DialRight(d)'
    BY DialFrame DEF Inv, Tick, lookupVars
<1>2. ASSUME NEW p \in Round PROVE RoundRight(p)'
    BY RoundFrame DEF Inv, Tick, lookupVars, roundVars
<1> QED
    BY <1>1, <1>2 DEF Inv, Tick, lookupVars, roundVars

LEMMA LookupServerInv == ASSUME Inv, LookupServer PROVE Inv'
<1>1. found' \in Seq(IP)
    BY LookupFacts DEF LookupServer
<1>2. SameServers(remotes, found)'
  <2> DEFINE n == Len(found')
             q == [i \in 1 .. n |-> i]
  <2>1. n \in Nat /\ q \in Bijection(1 .. n, 1 .. n)
    BY <1>1, Identity
  <2>2. DOMAIN remotes' = 1 .. n /\ \A i \in 1 .. n : remotes'[i].remote = found'[q[i]]
    BY DEF LookupServer
  <2> HIDE DEF q
  <2> QED
    BY <2>1, <2>2 DEF SameServers
<1>3. (\A d \in Dialer : DialRight(d)') /\ \A p \in Round : RoundRight(p)'
    BY QuietRight DEF LookupServer
<1> QED
    BY <1>1, <1>2, <1>3 DEF Inv, LookupServer, roundVars

LEMMA BlacklistInv == ASSUME Inv, Populate \/ ClearBlacklist PROVE Inv'
<1>1. Quiet /\ UNCHANGED <<found, remotes, dpc, cand, roundVars>>
    BY DEF Populate, ClearBlacklist
<1>2. (\A d \in Dialer : DialRight(d)') /\ \A p \in Round : RoundRight(p)'
    BY <1>1, QuietRight
<1> QED
    BY <1>1, <1>2 DEF Inv, roundVars


(* The addresses that Dial shuffles are at different places of the lookup's    *)
(* list, and there is at least one.                                            *)
LEMMA CandidatesFacts ==
    ASSUME Inv, N > 0, NEW js \in Picks(Tries)
    PROVE  LET c == Shuffle([i \in 1 .. N |-> remotes[i].remote], js)
           IN  c # <<>> /\ Members(c, found)
<1> DEFINE s == [i \in 1 .. N |-> remotes[i].remote]
           c == Shuffle(s, js)
           T == Tries
<1>1. T \in Nat /\ T > 0 /\ T <= N /\ N \in Nat /\ N = Len(found) /\ found \in Seq(IP)
    BY SameLength, GroupAssumption DEF Tries, Inv
<1>2. PICK b \in Bijection(1 .. N, 1 .. N) : \A i \in 1 .. N : remotes[i].remote = found[b[i]]
    BY <1>1 DEF Inv, SameServers
<1>3. b \in [1 .. N -> 1 .. N] /\ \A i, j \in 1 .. N : b[i] = b[j] => i = j
    BY <1>2 DEF Bijection, Injection, IsInjective
<1>4. Arranged(c, s, T)
  <2> HIDE DEF s
  <2> QED
    BY <1>1, ShuffleArranges
<1> HIDE DEF c, T
<1>6. PICK p \in [1 .. T -> 1 .. T] :
          /\ \A i, j \in 1 .. T : p[i] = p[j] => i = j
          /\ c = [i \in 1 .. T |-> s[p[i]]]
    BY <1>4, Zenon DEF Arranged
<1> DEFINE q == [i \in 1 .. T |-> b[p[i]]]
<1>7. ASSUME NEW i \in 1 .. T PROVE p[i] \in 1 .. N /\ q[i] \in 1 .. N /\ c[i] = found[q[i]]
  <2>1. p[i] \in 1 .. N
    BY <1>1, <1>6
  <2>2. c[i] = remotes[p[i]].remote
    BY <2>1, <1>6
  <2> QED
    BY <2>1, <2>2, <1>2, <1>3
<1>8. ASSUME NEW i \in 1 .. T, NEW j \in 1 .. T, q[i] = q[j] PROVE i = j
  <2>1. b[p[i]] = b[p[j]]
    BY <1>8
  <2>2. p[i] = p[j]
    BY <1>3, <1>7, <2>1
  <2> QED
    BY <1>6, <2>2
<1>9. q \in Injection(1 .. T, 1 .. N)
  <2>1. q \in [1 .. T -> 1 .. N]
    BY <1>7
  <2> HIDE DEF q
  <2> QED
    BY <2>1, <1>8 DEF Injection, IsInjective
<1> HIDE DEF q, s
<1>10. c \in Seq(IP) /\ Len(c) = T
  <2>1. \A i \in 1 .. T : c[i] \in IP
    <3>1. \A k \in 1 .. N : found[k] \in IP
      BY <1>1
    <3> QED
      BY <1>7, <3>1
  <2>2. c = [i \in 1 .. T |-> c[i]]
    BY <1>6
  <2>3. c \in [1 .. T -> IP]
    BY <2>1, <2>2
  <2> QED
    BY <1>1, <2>3
<1>11. c # <<>>
    BY <1>1, <1>10
<1>12. Members(c, found)
    BY <1>1, <1>7, <1>9, <1>10 DEF Members
<1> QED
    BY <1>11, <1>12 DEF c, s

LEMMA DialInv == ASSUME Inv, NEW d \in Dialer, Dial(d) PROVE Inv'
<1>1. ASSUME NEW e \in Dialer PROVE DialRight(e)'
  <2>1. CASE e = d
    <3>1. PICK js \in Picks(Tries) :
              cand' = [cand EXCEPT ![d] = Shuffle([i \in 1 .. N |-> remotes[i].remote], js)]
        BY DEF Dial
    <3>2. cand'[d] = Shuffle([i \in 1 .. N |-> remotes[i].remote], js)
        BY <3>1 DEF Inv
    <3>3. cand'[d] # <<>> /\ Members(cand'[d], found)
        BY <3>2, CandidatesFacts DEF Dial
    <3>4. dpc'[d] = "try" /\ found' = found
        BY DEF Dial, Inv, lookupVars
    <3> QED
        BY <2>1, <3>3, <3>4 DEF DialRight
  <2>2. CASE e # d
    BY <2>2, DialFrame DEF Inv, Dial, lookupVars
  <2> QED
    BY <2>1, <2>2
<1>2. ASSUME NEW p \in Round PROVE RoundRight(p)'
    BY RoundFrame DEF Inv, Dial, lookupVars, roundVars
<1> QED
    BY <1>1, <1>2 DEF Inv, Dial, lookupVars, roundVars

(* The rest of a list of candidates.                                           *)
LEMMA TailLength ==
    ASSUME NEW c \in Seq(IP), c # <<>>
    PROVE  /\ Len(c) = 1 => DOMAIN Tail(c) = {}
           /\ Len(c) # 1 => Tail(c) # <<>>
<1>1. Len(c) \in Nat /\ Len(c) > 0 /\ Tail(c) \in Seq(IP) /\ Len(Tail(c)) = Len(c) - 1
    OBVIOUS
<1>2. DOMAIN Tail(c) = 1 .. Len(Tail(c))
    BY <1>1
<1>3. Tail(c) = <<>> => Len(Tail(c)) = 0
  <2>1. Len(<<>>) = 0
    OBVIOUS
  <2> QED
    BY <2>1, Zenon
<1> QED
    BY <1>1, <1>2, <1>3

LEMMA TailMembers ==
    ASSUME NEW f, Len(f) \in Nat, NEW c, Members(c, f), c # <<>>
    PROVE  Members(Tail(c), f)
<1>1. c \in Seq(IP) /\ Len(c) \in Nat /\ Len(c) > 0 /\ Tail(c) \in Seq(IP)
      /\ Len(Tail(c)) = Len(c) - 1 /\ \A i \in 1 .. Len(c) - 1 : Tail(c)[i] = c[i + 1]
    BY DEF Members
<1>2. PICK p \in Injection(1 .. Len(c), 1 .. Len(f)) : \A i \in 1 .. Len(c) : c[i] = f[p[i]]
    BY DEF Members
<1> DEFINE m == Len(c) - 1
           q == [i \in 1 .. m |-> p[i + 1]]
<1>3. p \in [1 .. Len(c) -> 1 .. Len(f)] /\ \A i, j \in 1 .. Len(c) : p[i] = p[j] => i = j
    BY <1>2 DEF Injection, IsInjective
<1>4. \A i \in 1 .. m : i + 1 \in 1 .. Len(c)
    BY <1>1
<1>5. /\ q \in [1 .. m -> 1 .. Len(f)] /\ \A i, j \in 1 .. m : q[i] = q[j] => i = j
      /\ \A i \in 1 .. m : Tail(c)[i] = f[q[i]]
    BY <1>1, <1>2, <1>3, <1>4
<1> HIDE DEF m, q
<1>6. q \in Injection(1 .. m, 1 .. Len(f))
    BY <1>5 DEF Injection, IsInjective
<1> QED
    BY <1>1, <1>5, <1>6 DEF Members, m

LEMMA TryInv == ASSUME Inv, NEW d \in Dialer, Try(d) PROVE Inv'
<1> USE DEF lookupVars
<1>1. dpc[d] = "try" /\ cand[d] # <<>> /\ Members(cand[d], found) /\ cand[d] \in Seq(IP)
    BY DEF Inv, Try, DialRight, Members
<1>2. DialRight(d)'
  <2>1. CASE /\ ~Contains(blacklist, Head(cand[d]), Port)
             /\ dpc' = [dpc EXCEPT ![d] = "defer"]
             /\ cand' = [cand EXCEPT ![d] = <<Head(@)>>]
    <3>1. dpc'[d] = "defer" /\ cand'[d] = <<Head(cand[d])>> /\ blacklist' = blacklist
        BY <2>1 DEF Inv, Try
    <3>2. \A i \in DOMAIN cand'[d] : cand'[d][i] = Head(cand[d])
        BY <3>1
    <3> QED
        BY <2>1, <3>1, <3>2 DEF DialRight
  <2>2. CASE /\ dpc' = [dpc EXCEPT ![d] = IF Len(cand[d]) = 1 THEN "defer" ELSE "try"]
             /\ cand' = [cand EXCEPT ![d] = Tail(@)]
    <3>1. /\ dpc'[d] = IF Len(cand[d]) = 1 THEN "defer" ELSE "try"
          /\ cand'[d] = Tail(cand[d]) /\ found' = found
        BY <2>2 DEF Inv, Try
    <3>2. Members(cand'[d], found')
      <4>1. Len(found) \in Nat
        BY DEF Inv
      <4>2. Members(Tail(cand[d]), found)
        BY <1>1, <4>1, TailMembers, Zenon
      <4> QED
        BY <3>1, <4>2
    <3>3. CASE Len(cand[d]) = 1
      <4>1. DOMAIN Tail(cand[d]) = {}
        BY <1>1, <3>3, TailLength
      <4> QED
        BY <3>1, <3>3, <4>1 DEF DialRight
    <3>4. CASE Len(cand[d]) # 1
      <4>1. Tail(cand[d]) # <<>>
        BY <1>1, <3>4, TailLength
      <4> QED
        BY <3>1, <3>2, <3>4, <4>1 DEF DialRight
    <3> QED
        BY <3>3, <3>4
  <2> QED
    BY <2>1, <2>2 DEF Try
<1>3. ASSUME NEW e \in Dialer, e # d PROVE DialRight(e)'
    BY <1>3, DialFrame DEF Inv, Try
<1>4. ASSUME NEW p \in Round PROVE RoundRight(p)'
    BY RoundFrame DEF Inv, Try, roundVars
<1> QED
    BY <1>2, <1>3, <1>4 DEF Inv, Try, roundVars


(* A PingAll begins: it has copied nothing yet.                                *)
LEMMA BeginRight ==
    ASSUME Inv, NEW p \in Round, NEW k, Begin(p, k), found' = found
    PROVE  /\ \A r \in Round : RoundRight(r)'
           /\ ppc' \in [Round -> {"off", "copy", "launch", "collect", "return"}]
           /\ UNCHANGED <<list, gpc, ch>>
<1>1. ppc' \in [Round -> {"off", "copy", "launch", "collect", "return"}] /\ ppc'[p] = "copy"
      /\ UNCHANGED <<list, gpc, ch>> /\ \A r \in Round : r # p => ppc'[r] = ppc[r]
    BY DEF Inv, Begin
<1>2. RoundRight(p)'
    BY <1>1 DEF RoundRight
<1>3. ASSUME NEW r \in Round, r # p PROVE RoundRight(r)'
    BY <1>1, <1>3, RoundFrame DEF Inv
<1> QED
    BY <1>1, <1>2, <1>3

LEMMA DialReturnInv == ASSUME Inv, NEW d \in Dialer, DialReturn(d) PROVE Inv'
<1>1. UNCHANGED <<blacklist, found, remotes>>
    BY DEF DialReturn, lookupVars
<1>2. /\ dpc' \in [Dialer -> {"idle", "try", "defer"}] /\ DOMAIN cand' = Dialer
      /\ dpc'[d] = "idle"
      /\ \A e \in Dialer : e # d => dpc'[e] = dpc[e] /\ cand'[e] = cand[e]
    BY DEF Inv, DialReturn
<1>3. DialRight(d)'
    BY <1>2 DEF DialRight
<1>4. ASSUME NEW e \in Dialer, e # d PROVE DialRight(e)'
    BY <1>1, <1>2, <1>4, DialFrame DEF Inv
<1>5. /\ \A r \in Round : RoundRight(r)'
      /\ ppc' \in [Round -> {"off", "copy", "launch", "collect", "return"}]
      /\ UNCHANGED <<list, gpc, ch>>
  <2>1. CASE UNCHANGED roundVars
    BY <1>1, <2>1, RoundFrame DEF Inv, roundVars
  <2>2. ASSUME NEW p \in Round, Begin(p, 1) PROVE <1>5!:
    BY <1>1, <2>2, BeginRight
  <2> QED
    BY <2>1, <2>2 DEF DialReturn
<1> QED
    BY <1>1, <1>2, <1>3, <1>4, <1>5 DEF Inv

LEMMA CallInv == ASSUME Inv, NEW p \in Round, Call(p) PROVE Inv'
<1>1. UNCHANGED <<blacklist, found, remotes, dpc, cand>>
    BY DEF Call, lookupVars
<1>2. ASSUME NEW d \in Dialer PROVE DialRight(d)'
    BY <1>1, DialFrame DEF Inv
<1>3. PICK k \in Asked : Begin(p, k)
    BY DEF Call
<1>4. /\ \A r \in Round : RoundRight(r)'
      /\ ppc' \in [Round -> {"off", "copy", "launch", "collect", "return"}]
      /\ UNCHANGED <<list, gpc, ch>>
    BY <1>1, <1>3, BeginRight
<1> QED
    BY <1>1, <1>2, <1>4 DEF Inv

(* What is left to show of a step of one PingAll that keeps the list.          *)
LEMMA RoundStep ==
    ASSUME Inv, NEW p \in Round, UNCHANGED <<lookupVars, dpc, cand>>,
           SameServers(remotes', found),
           ppc' \in [Round -> {"off", "copy", "launch", "collect", "return"}],
           DOMAIN list' = Round, DOMAIN gpc' = Round, DOMAIN ch' = Round,
           \A r \in Round : r # p => /\ ppc'[r] = ppc[r] /\ list'[r] = list[r]
                                     /\ gpc'[r] = gpc[r] /\ ch'[r] = ch[r],
           RoundRight(p)'
    PROVE  Inv'
<1>1. ASSUME NEW d \in Dialer PROVE DialRight(d)'
    BY DialFrame DEF Inv, lookupVars
<1>2. ASSUME NEW r \in Round, r # p PROVE RoundRight(r)'
    BY <1>2, RoundFrame DEF Inv, lookupVars
<1> QED
    BY <1>1, <1>2 DEF Inv, lookupVars

LEMMA CopyInv == ASSUME Inv, NEW p \in Round, Copy(p) PROVE Inv'
<1>1. /\ UNCHANGED <<lookupVars, dpc, cand, remotes>> /\ found' = found
      /\ ppc' \in [Round -> {"off", "copy", "launch", "collect", "return"}]
      /\ DOMAIN list' = Round /\ DOMAIN gpc' = Round /\ DOMAIN ch' = Round
      /\ \A r \in Round : r # p => /\ ppc'[r] = ppc[r] /\ list'[r] = list[r]
                                   /\ gpc'[r] = gpc[r] /\ ch'[r] = ch[r]
    BY DEF Copy, Inv, lookupVars
<1>2. /\ list'[p] = remotes /\ gpc'[p] = [i \in 1 .. N |-> "off"]
      /\ ch'[p] = [i \in 1 .. N |-> None]
    BY DEF Copy, Inv
<1>3. RoundRight(p)'
    BY <1>1, <1>2, SameLength DEF RoundRight, Inv
<1> QED
    BY <1>1, <1>3, RoundStep DEF Inv

LEMMA LaunchInv == ASSUME Inv, NEW p \in Round, Launch(p) PROVE Inv'
<1>1. PICK i \in 1 .. N : /\ gpc' = [gpc EXCEPT ![p][i] = "run"]
                          /\ ppc' = [ppc EXCEPT ![p] = IF i = N THEN "collect" ELSE "launch"]
    BY DEF Launch
<1>2. /\ UNCHANGED <<lookupVars, dpc, cand, remotes>> /\ found' = found /\ list' = list
      /\ ch' = ch
      /\ ppc' \in [Round -> {"off", "copy", "launch", "collect", "return"}]
      /\ DOMAIN gpc' = Round /\ DOMAIN gpc'[p] = DOMAIN gpc[p]
      /\ \A r \in Round : r # p => ppc'[r] = ppc[r] /\ gpc'[r] = gpc[r]
    BY <1>1 DEF Launch, Inv, lookupVars
<1>3. RoundRight(p)'
    BY <1>2 DEF RoundRight, Inv, Launch
<1> QED
    BY <1>2, <1>3, RoundStep DEF Inv

LEMMA ReportInv ==
    ASSUME Inv, NEW p \in Round, NEW i \in DOMAIN gpc[p], Report(p, i)
    PROVE  Inv'
<1>1. PICK d : ch' = [ch EXCEPT ![p][i] = Result(p, i, d)]
    BY DEF Report
<1>2. Result(p, i, d).remote = list[p][i].remote
    BY DEF Result
<1>3. /\ UNCHANGED <<lookupVars, dpc, cand, remotes>> /\ found' = found /\ list' = list
      /\ ppc' = ppc
      /\ DOMAIN gpc' = Round /\ DOMAIN gpc'[p] = DOMAIN gpc[p]
      /\ DOMAIN ch' = Round /\ DOMAIN ch'[p] = DOMAIN ch[p]
      /\ \A r \in Round : r # p => ch'[r] = ch[r] /\ gpc'[r] = gpc[r]
    BY <1>1 DEF Report, Inv, lookupVars
<1>4. ASSUME NEW j \in DOMAIN ch[p], ch[p][j] # None => ch[p][j].remote = list[p][j].remote
      PROVE  ch'[p][j] # None => ch'[p][j].remote = list'[p][j].remote
  <2>1. ch'[p][j] = IF j = i THEN Result(p, i, d) ELSE ch[p][j]
    BY <1>1 DEF Inv
  <2> QED
    BY <1>2, <1>3, <1>4, <2>1
<1>5. RoundRight(p)'
    BY <1>3, <1>4 DEF RoundRight, Inv
<1> QED
    BY <1>3, <1>5, RoundStep DEF Inv

LEMMA ReturnSlotInv ==
    ASSUME Inv, NEW p \in Round, NEW i \in DOMAIN gpc[p], ReturnSlot(p, i)
    PROVE  Inv'
<1>1. /\ UNCHANGED <<lookupVars, dpc, cand, remotes>> /\ found' = found /\ list' = list
      /\ ppc' = ppc /\ ch' = ch
      /\ DOMAIN gpc' = Round /\ DOMAIN gpc'[p] = DOMAIN gpc[p]
      /\ \A r \in Round : r # p => gpc'[r] = gpc[r]
    BY DEF ReturnSlot, Inv, lookupVars
<1>2. RoundRight(p)'
    BY <1>1 DEF RoundRight, Inv
<1> QED
    BY <1>1, <1>2, RoundStep DEF Inv


LEMMA ForgetInv == ASSUME Inv, NEW p \in Round, Forget(p) PROVE Inv'
<1>1. /\ UNCHANGED <<lookupVars, dpc, cand, remotes>> /\ found' = found /\ list' = list
      /\ ppc' \in [Round -> {"off", "copy", "launch", "collect", "return"}]
      /\ ppc'[p] = "off" /\ ch' = ch /\ DOMAIN gpc' = Round
      /\ \A r \in Round : r # p => ppc'[r] = ppc[r] /\ gpc'[r] = gpc[r]
    BY DEF Forget, Inv, lookupVars
<1>2. RoundRight(p)'
    BY <1>1 DEF RoundRight
<1> QED
    BY <1>1, <1>2, RoundStep DEF Inv

(* Sorting puts a list in another order.                                       *)
LEMMA SortedServers ==
    ASSUME NEW f, Len(f) \in Nat, NEW s, SameServers(s, f), NEW t \in Sorted(s)
    PROVE  SameServers(t, f)
<1> DEFINE n == Len(f)
<1>1. PICK b \in Bijection(1 .. n, 1 .. n) : \A i \in 1 .. n : s[i].remote = f[b[i]]
    BY DEF SameServers
<1>2. DOMAIN s = 1 .. n
    BY DEF SameServers
<1>3. PICK p \in Bijection(1 .. n, 1 .. n) : t = [i \in 1 .. n |-> s[p[i]]]
    BY <1>2 DEF Sorted
<1> HIDE DEF n
<1> DEFINE q == [i \in 1 .. n |-> b[p[i]]]
<1>4. q \in Bijection(1 .. n, 1 .. n)
    BY Compose DEF n
<1>5. p \in [1 .. n -> 1 .. n]
    BY DEF Bijection, Injection
<1>6. DOMAIN t = 1 .. n /\ \A i \in 1 .. n : t[i].remote = f[q[i]]
    BY <1>1, <1>3, <1>5
<1> HIDE DEF q
<1> QED
    BY <1>4, <1>6 DEF SameServers, n

(* The results that PingAll collects are of the servers of its copy, so the    *)
(* list that it puts in place has the same ones.                               *)
LEMMA CollectInv == ASSUME Inv, NEW p \in Round, Collect(p) PROVE Inv'
<1> DEFINE s == [i \in 1 .. N |->
                    [remote |-> ch[p][i].remote, latency |-> ch[p][i].latency]]
<1>1. N = Len(found) /\ Len(found) \in Nat
    BY SameLength
<1>2. /\ SameServers(list[p], found)
      /\ \A i \in 1 .. N : ch[p][i].remote = list[p][i].remote
    BY <1>1 DEF Inv, RoundRight, Collect
<1>3. DOMAIN s = 1 .. N /\ \A i \in 1 .. N : s[i].remote = list[p][i].remote
    BY <1>2
<1>4. SameServers(s, found)
  <2> HIDE DEF s
  <2> QED
    BY <1>1, <1>2, <1>3 DEF SameServers
<1>5. remotes' \in Sorted(s)
    BY DEF Collect
<1> HIDE DEF s
<1>6. SameServers(remotes', found)
    BY <1>1, <1>4, <1>5, SortedServers
<1>7. /\ UNCHANGED <<lookupVars, dpc, cand>> /\ gpc' = gpc
      /\ ppc' \in [Round -> {"off", "copy", "launch", "collect", "return"}]
      /\ ppc'[p] = "return" /\ DOMAIN list' = Round /\ DOMAIN ch' = Round
      /\ \A r \in Round : r # p => ppc'[r] = ppc[r] /\ list'[r] = list[r] /\ ch'[r] = ch[r]
    BY DEF Collect, Inv
<1>8. RoundRight(p)'
    BY <1>7 DEF RoundRight
<1> QED
    BY <1>6, <1>7, <1>8, RoundStep DEF Inv

(* The group's list, every copy of it that a PingAll works on and every list   *)
(* of candidates stay within what LookupServer found, whatever Dials and       *)
(* PingAlls overlap.                                                           *)
THEOREM GroupInvariant == Spec => []Inv
<1>1. ASSUME Inv, [Next]_vars PROVE Inv'
  <2>1. CASE UNCHANGED vars
    BY <1>1, <2>1, StutterInv
  <2>2. CASE LookupServer \/ Populate \/ ClearBlacklist \/ Tick
    BY <1>1, <2>2, LookupServerInv, BlacklistInv, TickInv
  <2>3. ASSUME NEW d \in Dialer, Dial(d) \/ Try(d) \/ DialReturn(d) PROVE Inv'
    BY <1>1, <2>3, DialInv, TryInv, DialReturnInv
  <2>4. ASSUME NEW p \in Round, Call(p) \/ PingAll(p) PROVE Inv'
    BY <1>1, <2>4, CallInv, CopyInv, LaunchInv, CollectInv, ForgetInv, ReportInv, ReturnSlotInv
       DEF PingAll
  <2> QED
    BY <1>1, <2>1, <2>2, <2>3, <2>4 DEF Next
<1> QED
    BY InitInv, <1>1, PTL DEF Spec

(* Every server that the lookup found stays in the group, as often as it was   *)
(* found, for any number of overlapping PingAlls, each of which replaces the   *)
(* list by a copy it took before.                                              *)
THEOREM RemotesNeverLost == Spec => []NoRemoteLost
<1>1. ASSUME Inv PROVE NoRemoteLost
  <2> DEFINE s == [i \in 1 .. N |-> remotes[i].remote]
  <2>1. N = Len(found) /\ N \in Nat /\ DOMAIN found = 1 .. N
    <3>1. N = Len(found) /\ N \in Nat
        BY <1>1, SameLength
    <3>2. DOMAIN found = 1 .. Len(found)
        BY <1>1 DEF Inv
    <3> QED
        BY <3>1, <3>2
  <2>2. PICK b \in Bijection(1 .. N, 1 .. N) : \A i \in 1 .. N : remotes[i].remote = found[b[i]]
    BY <1>1, <2>1 DEF Inv, SameServers
  <2>3. b \in Injection(1 .. N, 1 .. N) /\ b \in Surjection(1 .. N, 1 .. N)
    BY DEF Bijection
  <2>4. DOMAIN s = 1 .. N /\ \A i \in 1 .. N : s[i] = found[b[i]]
    BY <2>2
  <2> HIDE DEF s
  <2>5. ASSUME NEW ip \in IP PROVE Times(s, ip) = Times(found, ip)
    BY <2>1, <2>3, <2>4, TimesOfMembers
  <2> QED
    BY <2>5 DEF NoRemoteLost, s
<1> QED
    BY <1>1, GroupInvariant, PTL

(* A Dial tries different members of the group, for any random numbers that    *)
(* the shuffle draws, and it never returns a connection to an address on the   *)
(* blacklist, whether that was put there before the lookup or after it.        *)
THEOREM DialAlwaysTriesRight == Spec => []DialTriesRight
<1>1. ASSUME Inv PROVE DialTriesRight
  <2>1. ASSUME NEW d \in Dialer, dpc[d] = "try", NEW ip \in IP
        PROVE  cand[d] # <<>> /\ Times(cand[d], ip) <= Times(found, ip)
    <3> DEFINE c == cand[d]
    <3>1. c # <<>> /\ Members(c, found) /\ found \in Seq(IP)
        BY <1>1, <2>1 DEF Inv, DialRight
    <3> HIDE DEF c
    <3>2. c \in Seq(IP) /\ Len(c) \in Nat /\ Len(found) \in Nat
          /\ DOMAIN c = 1 .. Len(c) /\ DOMAIN found = 1 .. Len(found)
        BY <3>1 DEF Members
    <3>3. PICK p \in Injection(1 .. Len(c), 1 .. Len(found)) :
              \A i \in 1 .. Len(c) : c[i] = found[p[i]]
        BY <3>1 DEF Members
    <3>4. Times(c, ip) <= Times(found, ip)
        BY <3>2, <3>3, TimesOfMembers
    <3> QED
        BY <3>1, <3>4 DEF c
  <2>2. ASSUME NEW d \in Dialer, dpc[d] = "try" PROVE cand[d] # <<>>
    BY <1>1, <2>2 DEF Inv, DialRight
  <2>3. ASSUME NEW d \in Dialer, dpc[d] = "defer"
        PROVE  \A i \in DOMAIN cand[d] : ~Contains(blacklist, cand[d][i], Port)
    BY <1>1, <2>3 DEF Inv, DialRight
  <2> QED
    BY <2>1, <2>2, <2>3 DEF DialTriesRight
<1> QED
    BY <1>1, GroupInvariant, PTL
================================================================================
