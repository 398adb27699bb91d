----------------------------- MODULE CertInitProofs -----------------------------
(*******************************************************************************)
(* Proofs about CertInit, for any number of pairs, of runs and of failures.    *)
(*                                                                             *)
(* The argument follows a run that nobody interferes with: what it has written *)
(* so far is the pair that it holds (Written), the pair is not the one of the  *)
(* certificate that is still on disk (Progress), and while the operator has a  *)
(* CSR that fits nobody is writing at all (Quiet).                             *)
(*******************************************************************************)
EXTENDS CertInit, FiniteSetTheorems, TLAPS

(* A run holds a pair exactly while it writes one (and until it is loaded).    *)
Holding ==
    \A p \in Proc :
        /\ pc[p] \in Writing => held[p] \in Gen
        /\ pc[p] \in {"off", "check", "serving"} => held[p] = None

(* Nobody writes beside a run that is alone.                                   *)
OneWriter == \A p \in alone : \A q \in Proc \ {p} : pc[q] \notin Writing

(* What a run that is alone has written.                                       *)
Written ==
    \A p \in alone :
        /\ pc[p] \in {"csr", "csrData", "api", "remove", "cert", "certData", "load"}
             => disk["key"] = held[p]
        /\ pc[p] = "load" => disk["cert"] = held[p] /\ held[p] \in Gen

(* While it writes there is no pair that the server could start with.          *)
Progress ==
    \A p \in alone :
        /\ pc[p] \in Writing => disk["cert"] # held[p]
        /\ pc[p] = "keyData" => disk["key"] = Torn
        /\ pc[p] = "key" /\ mode[p] # "manual" => needNewCertAndKey

(* While the operator has a CSR that fits nobody writes.                       *)
Quiet ==
    told # None /\ ~disturbed =>
        /\ disk["key"] = told /\ disk["csr"] = told
        /\ \A p \in Proc : pc[p] \notin Writing

IInv == TypeOK /\ Holding /\ OneWriter /\ Written /\ Progress /\ Quiet
--------------------------------------------------------------------------------
LEMMA AddOne ==
    ASSUME NEW S, NEW x, NEW n \in Nat, IsFiniteSet(S), Cardinality(S) < n
    PROVE  IsFiniteSet(S \cup {x}) /\ Cardinality(S \cup {x}) < n + 1
<1> DEFINE T == S \cup {x}
<1>1. Cardinality(S) \in Nat
  BY FS_CardinalityType
<1>2. /\ IsFiniteSet(T)
      /\ Cardinality(T) = IF x \in S THEN Cardinality(S) ELSE Cardinality(S) + 1
  BY FS_AddElement
<1> HIDE DEF T
<1>3. IsFiniteSet(T) /\ Cardinality(T) < n + 1
  BY <1>1, <1>2
<1> QED BY <1>3 DEF T

(* Six things are fewer than the pairs there are.                              *)
LEMMA SixAreFew ==
    ASSUME NEW a, NEW b, NEW c, NEW d, NEW e, NEW f
    PROVE  \E g \in Gen : g \notin {a, b, c, d, e, f}
<1> DEFINE S1 == {a}
           S2 == S1 \cup {b}
           S3 == S2 \cup {c}
           S4 == S3 \cup {d}
           S5 == S4 \cup {e}
           S6 == S5 \cup {f}
<1>1. IsFiniteSet(S1) /\ Cardinality(S1) < 2
  BY FS_Singleton
<1> HIDE DEF S1, S2, S3, S4, S5, S6
<1>2. IsFiniteSet(S2) /\ Cardinality(S2) < 2 + 1
  BY <1>1, AddOne DEF S2
<1>3. IsFiniteSet(S3) /\ Cardinality(S3) < 3 + 1
  <2>1. Cardinality(S2) < 3
    BY <1>2
  <2> QED BY <1>2, <2>1, AddOne DEF S3
<1>4. IsFiniteSet(S4) /\ Cardinality(S4) < 4 + 1
  <2>1. Cardinality(S3) < 4
    BY <1>3
  <2> QED BY <1>3, <2>1, AddOne DEF S4
<1>5. IsFiniteSet(S5) /\ Cardinality(S5) < 5 + 1
  <2>1. Cardinality(S4) < 5
    BY <1>4
  <2> QED BY <1>4, <2>1, AddOne DEF S5
<1>6. IsFiniteSet(S6) /\ Cardinality(S6) < 6 + 1
  <2>1. Cardinality(S5) < 6
    BY <1>5
  <2> QED BY <1>5, <2>1, AddOne DEF S6
<1>7. {a, b, c, d, e, f} = S6
  BY DEF S1, S2, S3, S4, S5, S6
<1>8. IsFiniteSet({a, b, c, d, e, f}) /\ Cardinality({a, b, c, d, e, f}) < 7
  BY <1>6, <1>7
<1>9. ~(Gen \subseteq {a, b, c, d, e, f})
  <2> DEFINE U == {a, b, c, d, e, f}
  <2>1. SUFFICES ASSUME Gen \subseteq U PROVE FALSE
    OBVIOUS
  <2>2. Cardinality(Gen) <= Cardinality(U)
    BY <1>8, <2>1, FS_Subset
  <2>3. Cardinality(Gen) \in Nat /\ Cardinality(U) \in Nat
    BY <1>8, CertInitAssumption, FS_CardinalityType
  <2> HIDE DEF U
  <2> QED BY <1>8, <2>2, <2>3, CertInitAssumption DEF U
<1> QED BY <1>9

(* There is a fresh pair for a run that holds none.                            *)
LEMMA FreshPair ==
    ASSUME TypeOK, NEW p \in Proc, held[p] = None
    PROVE  Fresh \in Gen /\ Fresh \notin InUse
<1>1. PICK q \in Proc : InUse \subseteq
        {disk["key"], disk["csr"], disk["cert"], held[q], told, pending} \cup {None}
  <2>1. CASE p = "daemon"
    BY <2>1 DEF InUse, File, Proc
  <2>2. CASE p = "cli"
    BY <2>2 DEF InUse, File, Proc
  <2> QED BY <2>1, <2>2 DEF Proc
<1>2. \E g \in Gen :
        g \notin {disk["key"], disk["csr"], disk["cert"], held[q], told, pending}
  BY SixAreFew
<1>3. \E g \in Gen : g \notin InUse
  BY <1>1, <1>2, CertInitAssumption
<1> QED BY <1>3 DEF Fresh
--------------------------------------------------------------------------------
LEMMA InitIInv == Init => IInv
<1> SUFFICES ASSUME Init PROVE IInv
  OBVIOUS
<1> USE CertInitAssumption DEF Init
<1>1. TypeOK
  <2>1. configured \in BOOLEAN /\ disturbed \in BOOLEAN /\ expired \in BOOLEAN
    BY Zenon
  <2>2. disk \in [File -> Gen \cup {None, Torn}] /\ held \in [Proc -> Gen \cup {None}]
    OBVIOUS
  <2>3. mode \in [Proc -> Mode] /\ pc \in [Proc -> {"off", "check", "load", "serving"} \cup Writing]
    BY DEF Mode
  <2>4. faults \in 0 .. MaxFaults /\ runs \in 0 .. MaxRuns
    OBVIOUS
  <2> QED BY <2>1, <2>2, <2>3, <2>4 DEF TypeOK
<1>2. Holding
  BY DEF Holding, Writing
<1>3. OneWriter /\ Written /\ Progress
  BY DEF OneWriter, Written, Progress
<1>4. Quiet
  BY DEF Quiet
<1> QED BY <1>1, <1>2, <1>3, <1>4 DEF IInv

(* The invariant under a run that decides to generate a pair, under the two    *)
(* checks, under the steps that write, and under all others.                   *)
LEMMA GenerateStep ==
    ASSUME IInv, NEW p \in Proc, pc[p] = "check", generateCSR(p),
           mode[p] = "manual" => ~verifyCSRAndKey,
           mode[p] # "manual" => needNewCertAndKey
    PROVE  IInv'
<1> USE CertInitAssumption DEF IInv, generateCSR, Goto, operator, env
<1>1. Fresh \in Gen /\ Fresh # disk["cert"]
  <2>1. held[p] = None
    BY DEF Holding
  <2>2. Fresh \in Gen /\ Fresh \notin InUse
    BY <2>1, FreshPair
  <2> QED BY <2>2 DEF InUse, File
<1>2. TypeOK'
  BY <1>1 DEF TypeOK, Writing
<1>3. Holding'
  BY <1>1 DEF TypeOK, Writing, Holding
<1>4. OneWriter'
  BY DEF TypeOK, OneWriter, Writing
<1>5. Written'
  BY DEF TypeOK, Written
<1>6. Progress'
  BY <1>1 DEF TypeOK, Progress, needNewCertAndKey, Loadable, validCertExpiry
<1>7. Quiet'
  BY DEF TypeOK, Quiet, verifyCSRAndKey
<1> QED BY <1>2, <1>3, <1>4, <1>5, <1>6, <1>7

LEMMA CheckStep ==
    ASSUME IInv, NEW p \in Proc, CheckCert(p) \/ CheckCSR(p)
    PROVE  IInv'
<1> USE CertInitAssumption DEF IInv, Goto, operator, env
<1>2. ASSUME NEW l \in {"load", "off"}, pc[p] = "check", Found(p, l) PROVE IInv'
  <2> USE <1>2 DEF Found
  <2>1. TypeOK'
    BY DEF TypeOK
  <2>2. Holding'
    BY DEF TypeOK, Holding, Writing
  <2>3. OneWriter'
    BY DEF TypeOK, OneWriter, Writing
  <2>4. Written'
    BY DEF TypeOK, Written
  <2>5. Progress'
    BY DEF TypeOK, Progress, needNewCertAndKey, Loadable, validCertExpiry
  <2>6. Quiet'
    BY DEF TypeOK, Quiet, Writing
  <2> QED BY <2>1, <2>2, <2>3, <2>4, <2>5, <2>6
<1>3. ASSUME pc[p] = "check", verifyCSRAndKey, UNCHANGED <<disk, expired, mode, pending, env>>,
             Tell(p, \A q \in Proc \ {p} : pc[q] \notin Writing)
      PROVE  IInv'
  <2> USE <1>3 DEF Tell, verifyCSRAndKey
  <2>1. TypeOK'
    BY DEF TypeOK, File
  <2>2. Holding'
    BY DEF TypeOK, Holding, Writing
  <2>3. OneWriter'
    BY DEF TypeOK, OneWriter, Writing
  <2>4. Written'
    BY DEF TypeOK, Written
  <2>5. Progress'
    BY DEF TypeOK, Progress, needNewCertAndKey, Loadable, validCertExpiry
  <2>6. Quiet'
    BY DEF TypeOK, Quiet, Writing
  <2> QED BY <2>1, <2>2, <2>3, <2>4, <2>5, <2>6
<1>4. pc[p] = "check"
  BY DEF CheckCert, CheckCSR
<1>5. CASE CheckCert(p)
  BY <1>5, <1>2, <1>4, GenerateStep DEF CheckCert
<1>6. CASE CheckCSR(p)
  BY <1>6, <1>3, <1>4, GenerateStep DEF CheckCSR
<1> QED BY <1>5, <1>6

LEMMA WriteStep ==
    ASSUME IInv, NEW p \in Proc,
           \/ \E f \in File : Truncate(p, f)
           \/ WriteKey(p) \/ WriteCSR(p) \/ initAPICall(p) \/ RemoveCert(p) \/ WriteCert(p)
    PROVE  IInv'
<1> USE CertInitAssumption DEF IInv, Goto, operator, env
<1>0. pc[p] \in Writing /\ held[p] \in Gen
  BY DEF Truncate, WriteKey, WriteCSR, initAPICall, RemoveCert, WriteCert, File, Writing,
         Holding
<1>1. told = None \/ disturbed
  BY <1>0 DEF Quiet
<1>2. \A q \in alone : q = p
  BY <1>0 DEF OneWriter, TypeOK
<1>3. ASSUME NEW f \in File, Truncate(p, f) PROVE IInv'
  <2> USE <1>3, <1>0, <1>1, <1>2 DEF Truncate
  <2>1. TypeOK'
    BY DEF TypeOK, Writing, File
  <2>2. Holding'
    BY DEF TypeOK, Holding, Writing, File
  <2>3. OneWriter'
    BY DEF TypeOK, OneWriter, Writing, File
  <2>4. Written'
    BY DEF TypeOK, Written, File
  <2>5. Progress'
    BY DEF TypeOK, Progress, needNewCertAndKey, Loadable, validCertExpiry, Writing, File
  <2>6. Quiet'
    BY DEF TypeOK, Quiet
  <2> QED BY <2>1, <2>2, <2>3, <2>4, <2>5, <2>6
<1>4. CASE WriteKey(p)
  <2> USE <1>4, <1>0, <1>1, <1>2 DEF WriteKey
  <2>1. TypeOK'
    BY DEF TypeOK, Writing, File
  <2>2. Holding'
    BY DEF TypeOK, Holding, Writing
  <2>3. OneWriter'
    BY DEF TypeOK, OneWriter, Writing
  <2>4. Written'
    BY DEF TypeOK, Written, File
  <2>5. Progress'
    BY DEF TypeOK, Progress, needNewCertAndKey, Loadable, validCertExpiry, Writing, File
  <2>6. Quiet'
    BY DEF TypeOK, Quiet
  <2> QED BY <2>1, <2>2, <2>3, <2>4, <2>5, <2>6
<1>5. CASE WriteCSR(p)
  <2> USE <1>5, <1>0, <1>1, <1>2 DEF WriteCSR
  <2>1. CASE mode[p] = "manual"
    <3> USE <2>1 DEF Tell
    <3>1. TypeOK'
      BY DEF TypeOK, Writing, File
    <3>2. Holding'
      BY DEF TypeOK, Holding, Writing
    <3>3. OneWriter'
      BY DEF TypeOK, OneWriter, Writing
    <3>4. Written'
      BY DEF TypeOK, Written, File
    <3>5. Progress'
      BY DEF TypeOK, Progress, needNewCertAndKey, Loadable, validCertExpiry, Writing, File
    <3>6. Quiet'
      <4>1. CASE p \in alone
        <5>1. disk'["key"] = held[p] /\ disk'["csr"] = held[p] /\ told' = held[p]
          BY <4>1 DEF TypeOK, Written, File
        <5>2. \A q \in Proc : pc'[q] \notin Writing
          BY <4>1 DEF TypeOK, OneWriter, Writing
        <5> QED BY <5>1, <5>2 DEF Quiet
      <4>2. CASE p \notin alone
        <5>1. disturbed'
          BY <4>2
        <5> QED BY <5>1 DEF Quiet
      <4> QED BY <4>1, <4>2
    <3> QED BY <3>1, <3>2, <3>3, <3>4, <3>5, <3>6
  <2>2. CASE mode[p] # "manual"
    <3> USE <2>2
    <3>1. TypeOK'
      BY DEF TypeOK, Writing, File
    <3>2. Holding'
      BY DEF TypeOK, Holding, Writing
    <3>3. OneWriter'
      BY DEF TypeOK, OneWriter, Writing
    <3>4. Written'
      BY DEF TypeOK, Written, File
    <3>5. Progress'
      BY DEF TypeOK, Progress, needNewCertAndKey, Loadable, validCertExpiry, Writing, File
    <3>6. Quiet'
      BY DEF TypeOK, Quiet
    <3> QED BY <3>1, <3>2, <3>3, <3>4, <3>5, <3>6
  <2> QED BY <2>1, <2>2
<1>6. CASE initAPICall(p)
  <2> USE <1>6, <1>0, <1>1, <1>2 DEF initAPICall
  <2>1. TypeOK'
    BY DEF TypeOK, Writing, File
  <2>2. Holding'
    BY DEF TypeOK, Holding, Writing
  <2>3. OneWriter'
    BY DEF TypeOK, OneWriter, Writing
  <2>4. Written'
    BY DEF TypeOK, Written, File
  <2>5. Progress'
    BY DEF TypeOK, Progress, needNewCertAndKey, Loadable, validCertExpiry, Writing, File
  <2>6. Quiet'
    BY DEF TypeOK, Quiet
  <2> QED BY <2>1, <2>2, <2>3, <2>4, <2>5, <2>6
<1>7. CASE WriteCert(p)
  <2> USE <1>7, <1>0, <1>1, <1>2 DEF WriteCert
  <2>1. TypeOK'
    BY DEF TypeOK, Writing, File
  <2>2. Holding'
    BY DEF TypeOK, Holding, Writing
  <2>3. OneWriter'
    BY DEF TypeOK, OneWriter, Writing
  <2>4. Written'
    BY DEF TypeOK, Written, File, Mode
  <2>5. Progress'
    BY DEF TypeOK, Progress, needNewCertAndKey, Loadable, validCertExpiry, Writing, File
  <2>6. Quiet'
    BY DEF TypeOK, Quiet
  <2> QED BY <2>1, <2>2, <2>3, <2>4, <2>5, <2>6
<1>8. CASE RemoveCert(p)
  <2> USE <1>8, <1>0, <1>1, <1>2 DEF RemoveCert
  <2>1. TypeOK'
    BY DEF TypeOK, Writing, File
  <2>2. Holding'
    BY DEF TypeOK, Holding, Writing
  <2>3. OneWriter'
    BY DEF TypeOK, OneWriter, Writing
  <2>4. Written'
    BY DEF TypeOK, Written, File
  <2>5. Progress'
    BY DEF TypeOK, Progress, needNewCertAndKey, Loadable, validCertExpiry, Writing, File
  <2>6. Quiet'
    BY DEF TypeOK, Quiet
  <2> QED BY <2>1, <2>2, <2>3, <2>4, <2>5, <2>6
<1> QED BY <1>3, <1>4, <1>5, <1>6, <1>7, <1>8

LEMMA OtherStep ==
    ASSUME IInv,
           \/ \E p \in Proc, m \in Mode : Start(p, m)
           \/ \E p \in Proc : Load(p) \/ Fail(p)
           \/ Submit \/ Install \/ Expire
           \/ UNCHANGED vars
    PROVE  IInv'
<1> USE CertInitAssumption DEF IInv, Goto, operator, env
<1>1. ASSUME NEW p \in Proc, NEW m \in Mode, Start(p, m) PROVE IInv'
  <2> USE <1>1 DEF Start
  <2>1. TypeOK'
    BY DEF TypeOK, File
  <2>2. Holding'
    BY DEF TypeOK, Holding, Writing
  <2>3. OneWriter'
    BY DEF TypeOK, OneWriter, Writing
  <2>4. Written'
    BY DEF TypeOK, Written, File
  <2>5. Progress'
    BY DEF TypeOK, Progress, needNewCertAndKey, Loadable, validCertExpiry, Writing, File
  <2>6. Quiet'
    BY DEF TypeOK, Quiet, Writing
  <2> QED BY <2>1, <2>2, <2>3, <2>4, <2>5, <2>6
<1>2. ASSUME NEW p \in Proc, Load(p) PROVE IInv'
  <2> USE <1>2 DEF Load
  <2>1. TypeOK'
    BY DEF TypeOK, File
  <2>2. Holding'
    BY DEF TypeOK, Holding, Writing
  <2>3. OneWriter'
    BY DEF TypeOK, OneWriter, Writing
  <2>4. Written'
    BY DEF TypeOK, Written, File
  <2>5. Progress'
    BY DEF TypeOK, Progress, needNewCertAndKey, Loadable, validCertExpiry, Writing, File
  <2>6. Quiet'
    BY DEF TypeOK, Quiet, Writing
  <2> QED BY <2>1, <2>2, <2>3, <2>4, <2>5, <2>6
<1>3. CASE Submit
  <2> USE <1>3 DEF Submit
  <2>1. TypeOK'
    BY DEF TypeOK, File
  <2>2. Holding'
    BY DEF TypeOK, Holding, Writing
  <2>3. OneWriter'
    BY DEF TypeOK, OneWriter, Writing
  <2>4. Written'
    BY DEF TypeOK, Written, File
  <2>5. Progress'
    BY DEF TypeOK, Progress, needNewCertAndKey, Loadable, validCertExpiry, Writing, File
  <2>6. Quiet'
    BY DEF TypeOK, Quiet, Writing
  <2> QED BY <2>1, <2>2, <2>3, <2>4, <2>5, <2>6
<1>4. CASE Install
  <2> USE <1>4 DEF Install
  <2>1. TypeOK'
    BY DEF TypeOK, File
  <2>2. Holding'
    BY DEF TypeOK, Holding, Writing
  <2>3. OneWriter'
    BY DEF TypeOK, OneWriter, Writing
  <2>4. Written'
    BY DEF TypeOK, Written, File
  <2>5. Progress'
    BY DEF TypeOK, Progress, needNewCertAndKey, Loadable, validCertExpiry, Writing, File
  <2>6. Quiet'
    BY DEF TypeOK, Quiet, Writing
  <2> QED BY <2>1, <2>2, <2>3, <2>4, <2>5, <2>6
<1>5. CASE Expire
  <2> USE <1>5 DEF Expire
  <2>1. TypeOK'
    BY DEF TypeOK, File
  <2>2. Holding'
    BY DEF TypeOK, Holding, Writing
  <2>3. OneWriter'
    BY DEF TypeOK, OneWriter, Writing
  <2>4. Written'
    BY DEF TypeOK, Written, File
  <2>5. Progress'
    BY DEF TypeOK, Progress, needNewCertAndKey, Loadable, validCertExpiry, Writing, File
  <2>6. Quiet'
    BY DEF TypeOK, Quiet, Writing
  <2> QED BY <2>1, <2>2, <2>3, <2>4, <2>5, <2>6
<1>6. CASE UNCHANGED vars
  <2> USE <1>6 DEF vars
  <2>1. TypeOK'
    BY DEF TypeOK, File
  <2>2. Holding'
    BY DEF TypeOK, Holding, Writing
  <2>3. OneWriter'
    BY DEF TypeOK, OneWriter, Writing
  <2>4. Written'
    BY DEF TypeOK, Written, File
  <2>5. Progress'
    BY DEF TypeOK, Progress, needNewCertAndKey, Loadable, validCertExpiry, Writing, File
  <2>6. Quiet'
    BY DEF TypeOK, Quiet, Writing
  <2> QED BY <2>1, <2>2, <2>3, <2>4, <2>5, <2>6
<1>7. ASSUME NEW p \in Proc, Fail(p) PROVE IInv'
  <2> USE <1>7 DEF Fail
  <2>1. TypeOK'
    BY DEF TypeOK, File
  <2>2. Holding'
    BY DEF TypeOK, Holding, Writing
  <2>3. OneWriter'
    BY DEF TypeOK, OneWriter, Writing
  <2>4. Written'
    BY DEF TypeOK, Written, File
  <2>5. Progress'
    BY DEF TypeOK, Progress, needNewCertAndKey, Loadable, validCertExpiry, Writing, File
  <2>6. Quiet'
    BY DEF TypeOK, Quiet, Writing
  <2> QED BY <2>1, <2>2, <2>3, <2>4, <2>5, <2>6
<1> QED BY <1>1, <1>2, <1>3, <1>4, <1>5, <1>6, <1>7

LEMMA IInvStep == IInv /\ [Next]_vars => IInv'
  BY CheckStep, WriteStep, OtherStep DEF Next, Step

LEMMA SpecIInv == Spec => []IInv
  BY InitIInv, IInvStep, PTL DEF Spec
--------------------------------------------------------------------------------
(* Type correctness of the model of cmd/gokeyless; in particular there always  *)
(* is a fresh pair for generateCSR.                                            *)
THEOREM CertInitTypeCorrect == Spec => []TypeOK
  BY SpecIInv, PTL DEF IInv

(* For any number of crashes and runs: the key of the CSR that                 *)
(* --manual-activation has pointed the operator to stays in place.             *)
THEOREM ManualPairAlwaysFits == Spec => []ManualPairFits
<1>1. IInv => ManualPairFits
  BY DEF IInv, Quiet, ManualPairFits
<1> QED BY <1>1, SpecIInv, PTL

(* For any number of crashes and runs: a run that nobody interfered with has   *)
(* its own pair on disk when it comes to NewServerFromFile.                    *)
THEOREM InitAlwaysGivesUsablePair == Spec => []InitGivesUsablePair
<1>1. IInv => InitGivesUsablePair
  BY DEF IInv, Written, InitGivesUsablePair, Loadable
<1> QED BY <1>1, SpecIInv, PTL

(* For any number of crashes and runs: initializeServerCertAndKey gives up no  *)
(* pair that needNewCertAndKey would have accepted.                            *)
THEOREM GoodPairIsKept == Spec => GoodPairKept
<1> DEFINE Kept ==
      \A p \in alone :
          Loadable /\ validCertExpiry /\ mode[p] # "manual" /\ pc'[p] # pc[p] => Loadable'
<1>1. IInv /\ [Next]_vars => [Kept]_vars
  <2> SUFFICES ASSUME IInv, Next, NEW p \in alone, Loadable, validCertExpiry,
                      mode[p] # "manual", pc'[p] # pc[p]
               PROVE  Loadable'
    OBVIOUS
  <2>1. p \in Proc
    BY DEF IInv, TypeOK
  <2>2. pc[p] \notin Writing
    BY CertInitAssumption, <2>1
       DEF IInv, Written, Progress, needNewCertAndKey, Loadable, Writing
  <2>3. UNCHANGED disk
    <3>1. ASSUME NEW q \in Proc, Step(q) \/ Fail(q) \/ \E m \in Mode : Start(q, m)
          PROVE  q = p
      BY <2>1, <3>1
         DEF IInv, TypeOK, Step, Fail, Start, Goto, CheckCert, CheckCSR, Found, generateCSR,
             Tell, Truncate, WriteKey, WriteCSR, initAPICall, RemoveCert, WriteCert, Load
    <3>2. CASE \E m \in Mode : Start(p, m)
      BY <3>2 DEF Start
    <3>3. CASE Step(p) \/ Fail(p)
      BY <2>2, <3>3
         DEF Step, Fail, CheckCert, CheckCSR, Found, generateCSR, Truncate, WriteKey,
             WriteCSR, initAPICall, RemoveCert, WriteCert, Load, Writing, File
    <3>4. CASE Submit \/ Install \/ Expire
      BY <3>4 DEF Submit, Install, Expire
    <3> QED BY <3>1, <3>2, <3>3, <3>4 DEF Next
  <2> QED BY <2>3 DEF Loadable
<1> QED BY <1>1, SpecIInv, PTL DEF Spec, GoodPairKept
================================================================================
