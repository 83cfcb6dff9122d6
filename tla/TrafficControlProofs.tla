-------------------------- MODULE TrafficControlProofs --------------------------
(***************************************************************************)
(* Proofs about the rate limit of a container's interface, for every width *)
(* of the kernel's numbers, every scale of the units and every annotation. *)
(***************************************************************************)
EXTENDS TrafficControl, TLAPS

-----------------------------------------------------------------------------
(* Arithmetic.                                                             *)

\* A value that wraps around fits a uint32, is no more than before, and is the
\* same if it fitted.  One that is a little too large loses a word.
LEMMA Wraps ==
  ASSUME NEW n \in Nat
  PROVE  /\ n % Word \in UInt32
         /\ n % Word <= n
         /\ n < Word => n % Word = n
         /\ Word <= n /\ n < Word + Word => n % Word = n - Word
<1>1. Word \in Nat /\ Word > 0
  BY WordAssumption
<1>2. n % Word \in 0 .. Word - 1
  BY <1>1
<1>3. n = (Word * (n \div Word)) + (n % Word) /\ n \div Word \in Nat
  BY <1>1
<1>4. n < Word => n \div Word = 0
  BY <1>1, <1>2, <1>3
<1>5. Word <= n /\ n < Word + Word => n \div Word = 1
  BY <1>1, <1>2, <1>3
<1> QED
  BY <1>1, <1>2, <1>3, <1>4, <1>5 DEF UInt32

Class == [rate: UInt32, ceil: UInt32]
Args == [rate: UInt32, burst: UInt32]

LEMMA AskedType == \A r \in Rates : Asked(r) \in Nat
<1> SUFFICES ASSUME NEW r \in Rates
             PROVE  Asked(r) \in Nat
  OBVIOUS
<1>1. r.number \in Nat /\ r.unit \in Units
  BY WordAssumption DEF Rates
<1>2. Kilo \in Nat /\ Kilo * Kilo \in Nat
  BY WordAssumption
<1>3. Factor(r.unit) \in Nat
  BY <1>1, <1>2 DEF Factor, Units
<1> QED
  BY <1>1, <1>3 DEF Asked

LEMMA ArgsType == \A n \in UInt32 : TcArgsOf(n) \in Args
<1> SUFFICES ASSUME NEW n \in UInt32
             PROVE  TcArgsOf(n) \in Args
  OBVIOUS
<1>1. Word \in Nat /\ n \in Nat /\ n < Word
  BY WordAssumption DEF UInt32
<1>2. n \div 10 \in Nat /\ n \div 10 <= n
  BY <1>1
<1> QED
  BY <1>1, <1>2 DEF TcArgsOf, Args, UInt32

LEMMA ConfigType == \A a \in Annotations : TcConfig(a) \in Args \cup {None}
<1> SUFFICES ASSUME NEW a \in Annotations
             PROVE  TcConfig(a) \in Args \cup {None}
  OBVIOUS
<1>1. 0 \in UInt32
  BY WordAssumption DEF UInt32
<1>2. Parses(a) => Bandwidth(a) \in UInt32
  BY AskedType, Wraps DEF Parses, Bandwidth
<1> QED
  BY <1>1, <1>2, ArgsType DEF TcConfig

LEMMA ClassType == \A a \in Args : ClassOf(a) \in Class
<1> SUFFICES ASSUME NEW a \in Args
             PROVE  ClassOf(a) \in Class
  OBVIOUS
<1>1. a.rate \in UInt32 /\ a.rate \in Nat /\ a.burst \in Nat
  BY DEF Args, UInt32
<1>2. (a.rate + a.burst) % Word \in Nat
  BY <1>1, Wraps DEF UInt32
<1>3. (a.rate + ((a.rate + a.burst) % Word)) % Word \in UInt32
  BY <1>1, <1>2, Wraps
<1> QED
  BY <1>1, <1>3 DEF ClassOf, Class

\* The kernel's class never lets more pass than was asked for: exactly that if
\* the sum that createClassObject makes fits, less if limit+burst fits alone.
LEMMA LimitOfRate ==
  ASSUME NEW r \in Rates
  PROVE  LET k == ClassOf(TcArgsOf(Bandwidth(r)))
             n == Asked(r)
         IN  /\ Limit(k) <= n
             /\ n + (n + n \div 10) < Word => Limit(k) = n
             /\ n + n \div 10 < Word /\ Word <= n + (n + n \div 10) => Limit(k) < n
<1> DEFINE n == Asked(r)
           b == n % Word
           sum == (b + b \div 10) % Word
           ceil == (b + sum) % Word
           limit == IF ceil < b THEN ceil ELSE b
<1>1. n \in Nat /\ Word \in Nat
  BY AskedType, WordAssumption
<1>2. b \in Nat /\ b <= n /\ (n < Word => b = n)
  BY <1>1, Wraps DEF UInt32
<1>3. b \div 10 \in Nat /\ n \div 10 \in Nat
  BY <1>1, <1>2
<1>4. sum \in Nat /\ (b + b \div 10 < Word => sum = b + b \div 10)
  BY <1>2, <1>3, Wraps DEF UInt32
<1>5. /\ ceil \in Nat
      /\ b + sum < Word => ceil = b + sum
      /\ Word <= b + sum /\ b + sum < Word + Word => ceil = (b + sum) - Word
  BY <1>2, <1>4, Wraps DEF UInt32
<1>6. ClassOf(TcArgsOf(Bandwidth(r))) = [rate |-> b, ceil |-> ceil]
  BY DEF ClassOf, TcArgsOf, Bandwidth
<1>7. Limit(ClassOf(TcArgsOf(Bandwidth(r)))) = limit
  BY <1>6 DEF Limit
<1> HIDE DEF b, sum, ceil, n
<1>8. limit <= n
  BY <1>1, <1>2, <1>5
\* As long as limit+burst fits, the sum is of the numbers asked for.
<1>9. ASSUME n + n \div 10 < Word
      PROVE  b = n /\ sum = n + n \div 10
  <2>1. b = n
    BY <1>1, <1>2, <1>3, <1>9
  <2> QED
    BY <1>4, <1>9, <2>1
<1>10. ASSUME n + (n + n \div 10) < Word
       PROVE  limit = n
  <2>1. b = n /\ sum = n + n \div 10
    BY <1>1, <1>3, <1>9, <1>10
  <2>2. ceil = n + (n + n \div 10)
    BY <1>5, <1>10, <2>1
  <2> QED
    BY <1>1, <1>3, <2>1, <2>2
<1>11. ASSUME n + n \div 10 < Word, Word <= n + (n + n \div 10)
       PROVE  limit < n
  <2>1. b = n /\ sum = n + n \div 10
    BY <1>9, <1>11
  <2>2. n < Word /\ n + (n + n \div 10) < Word + Word
    BY <1>1, <1>3, <1>11
  <2>3. ceil = (n + (n + n \div 10)) - Word
    BY <1>5, <1>11, <2>1, <2>2
  <2>4. ceil < n
    BY <1>1, <1>3, <1>11, <2>3
  <2> QED
    BY <2>1, <2>4
<1> QED
  BY <1>7, <1>8, <1>10, <1>11 DEF n

-----------------------------------------------------------------------------
(* The inductive invariant.                                                *)

\* The arguments come from the annotation the ADD met, ...
ArgsFollow ==
  /\ args # None => args = TcConfig(asked)
  /\ pc \in TcSteps => args # None

\* ... and the class from the arguments.
ClassFollows ==
  /\ class # None => args # None /\ class = ClassOf(args) /\ ~Refused(class)
  /\ pc = "read" => class = None

\* Whoever is not limited is logged.
MissIsLogged ==
  /\ pc \notin {"read", "failed"} /\ args = None /\ asked # None => logged
  /\ pc \in {"port", "ready"} /\ args # None => filter \/ logged

LimitInv ==
  /\ TypeOK
  /\ ArgsFollow
  /\ ClassFollows
  /\ MissIsLogged

LEMMA LimitInit == Init => LimitInv
BY DEF Init, LimitInv, TypeOK, ArgsFollow, ClassFollows, MissIsLogged, TcSteps

LEMMA LimitStep == LimitInv /\ [Next]_vars => LimitInv'
<1> SUFFICES ASSUME LimitInv, [Next]_vars
             PROVE  LimitInv'
  OBVIOUS
<1> USE DEF LimitInv, TypeOK, ArgsFollow, ClassFollows, MissIsLogged, TcSteps,
            Goto, link
<1>1. CASE ReadAnnotation
  <2>1. args' \in Args \cup {None} /\ asked' = annotation /\ args' = TcConfig(asked')
    BY <1>1, ConfigType DEF ReadAnnotation
  <2> QED
    BY <1>1, <2>1 DEF ReadAnnotation, Args
<1>2. CASE ReadAnnotationFails
  BY <1>2 DEF ReadAnnotationFails
<1>3. CASE SetupVeth
  BY <1>3 DEF SetupVeth
<1>4. CASE SetupVethFails
  BY <1>4 DEF SetupVethFails
<1>5. CASE AddQdisc
  BY <1>5 DEF AddQdisc
<1>6. CASE AddClass
  <2>1. args \in Args
    BY <1>6 DEF AddClass, Args
  <2>2. class' \in Class /\ class' = ClassOf(args) /\ ~Refused(class')
    BY <1>6, <2>1, ClassType DEF AddClass
  <2> QED
    BY <1>6, <2>2 DEF AddClass, Class
<1>7. CASE AddFilter
  BY <1>7 DEF AddFilter
<1>8. CASE TcFails
  BY <1>8 DEF TcFails, TcFailing
<1>9. CASE Finish
  BY <1>9 DEF Finish
<1>10. CASE FinishFails
  BY <1>10 DEF FinishFails
<1>11. CASE NewSandbox
  BY <1>11 DEF NewSandbox
<1>12. ASSUME NEW a \in Annotations, Annotate(a)
       PROVE  LimitInv'
  BY <1>12 DEF Annotate
<1>13. CASE UNCHANGED vars
  BY <1>13 DEF vars
<1> QED
  BY <1>1, <1>2, <1>3, <1>4, <1>5, <1>6, <1>7, <1>8, <1>9, <1>10, <1>11, <1>12, <1>13 DEF Next, CmdAdd

-----------------------------------------------------------------------------
(* The theorems.                                                           *)

\* The numbers that ConstructTcConfig and addHTBClass make are uint32 whatever
\* an annotation asks for, and the ADD keeps to its steps.
THEOREM LimitInvariance == Spec => []TypeOK
<1>1. LimitInv => TypeOK
  BY DEF LimitInv
<1> QED
  BY <1>1, LimitInit, LimitStep, PTL DEF Spec

\* A container is limited only if its pod's annotation asked for it when it was
\* added, never above that rate, to that very rate as long as the sum of
\* createClassObject fits a uint32, and to a lower one where that sum does not
\* fit but the limit+burst of addHTBClass's comment does (LimitFollowsSum).
THEOREM LimitFollowsSumAlways == Spec => []LimitFollowsSum
<1>1. LimitInv => LimitFollowsSum
  <2> SUFFICES ASSUME LimitInv, class # None
               PROVE  LimitFollowsSum
    BY DEF LimitFollowsSum
  <2>1. args = TcConfig(asked) /\ args # None /\ class = ClassOf(args)
        /\ ~Refused(class) /\ asked \in Annotations
    BY DEF LimitInv, ArgsFollow, ClassFollows, TypeOK
  \* No rate means rate 0, which the kernel refuses.
  <2>2. ~Parses(asked) => asked = Others /\ args = TcArgsOf(0)
    BY <2>1 DEF TcConfig
  <2>3. Refused(ClassOf(TcArgsOf(0)))
    BY DEF Refused, ClassOf, TcArgsOf
  <2>4. Parses(asked)
    BY <2>1, <2>2, <2>3
  <2>5. asked \in Rates /\ args = TcArgsOf(Bandwidth(asked))
    BY <2>1, <2>4, NoRatesAssumption DEF Parses, TcConfig
  <2> QED
    BY <2>1, <2>5, LimitOfRate DEF LimitFollowsSum
<1> QED
  BY <1>1, LimitInit, LimitStep, PTL DEF Spec

\* A pod that asked for a limit never goes without one, once its ADD is past
\* setupVethPair, unless the agent's log has an error of the limit.
THEOREM NoSilentMissAlways == Spec => []NoSilentMiss
<1>1. LimitInv => NoSilentMiss
  BY DEF LimitInv, MissIsLogged, NoSilentMiss
<1> QED
  BY <1>1, LimitInit, LimitStep, PTL DEF Spec
=============================================================================
