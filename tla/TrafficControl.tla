----------------------------- MODULE TrafficControl -----------------------------
(***************************************************************************)
(* The rate limit of a container's interface: configureInterface reads the *)
(* pod's annotation (pkg/tctools), and setupVethPair puts a qdisc, a class *)
(* and a filter on the container's end of the pair.  What goes wrong is    *)
(* logged, and the ADD goes on.                                            *)
(*                                                                         *)
(* Details the steps AddVeth and AddVethFails of PodNetwork, for one pod   *)
(* whose sandbox is made again and whose annotation may be edited.         *)
(***************************************************************************)
EXTENDS Naturals

CONSTANTS
  Numbers,   \* numbers an annotation may give
  Word,      \* how many values a uint32 has
  Kilo,      \* a thousand, scaled down with Word
  Faults,    \* what may fail
  Others,    \* annotations, but none of a rate
  Malformed, \* a rate that is not of the format
  None       \* no annotations, no arguments, no class

Units == {"plain", "kilo", "mega"}
Rates == [number: Numbers, unit: Units]
Annotations == Rates \cup {None, Others, Malformed}

ASSUME WordAssumption ==
  /\ Word \in Nat \ {0}
  /\ Kilo \in Nat \ {0}
  /\ Numbers \subseteq Nat \ {0}

ASSUME NoRatesAssumption ==
  /\ {Others, Malformed, None} \cap Rates = {}
  /\ Others # Malformed /\ None \notin {Others, Malformed}

\* api: the API server; link: netlink on the pair; tc: netlink for tc; later:
\* a later step of configureInterface.
ASSUME FaultsAssumption == Faults \subseteq {"api", "link", "tc", "later"}

VARIABLES
  pc,           \* the next step of the ADD, "ready" or "failed"
  annotation,   \* the pod's, at the API server
  asked,        \* history: the annotation the ADD met
  args,         \* tcArgs
  logged,       \* whether the ADD has logged an error of the limit
  qdisc,        \* kernel: the root HTB qdisc
  class,        \* kernel: class 1:1
  filter        \* kernel: the filter for the cluster's addresses

link == <<qdisc, class, filter>>
vars == <<pc, annotation, asked, args, logged, link>>

TcSteps == {"qdisc", "class", "filter"}
UInt32 == 0 .. Word - 1

TypeOK ==
  /\ pc \in TcSteps \cup {"read", "veth", "port", "ready", "failed"}
  /\ annotation \in Annotations
  /\ asked \in Annotations
  /\ args \in [rate: UInt32, burst: UInt32] \cup {None}
  /\ logged \in BOOLEAN
  /\ qdisc \in BOOLEAN
  /\ class \in [rate: UInt32, ceil: UInt32] \cup {None}
  /\ filter \in BOOLEAN

Init ==
  /\ pc = "read"
  /\ annotation \in Annotations
  /\ asked = annotation
  /\ args = None
  /\ logged = FALSE
  /\ qdisc = FALSE /\ class = None /\ filter = FALSE

-----------------------------------------------------------------------------
(* The arguments.                                                          *)

Factor(unit) ==
  CASE unit = "plain" -> 1 [] unit = "kilo" -> Kilo [] unit = "mega" -> Kilo * Kilo

Asked(r) == r.number * Factor(r.unit)

\* Mutation: a rate that does not fit is cut off at the largest that does.
BandwidthSaturates(r) == IF Asked(r) < Word THEN Asked(r) ELSE Word

\* validateBandwithFormat: the product is made in 64 bits, which it fits, and
\* returned in 32.
Bandwidth(r) == Asked(r) % Word

\* ParseUint of 32 bits.
Parses(a) == a \in Rates /\ a.number < Word

TcArgsOf(rate) == [rate |-> rate, burst |-> rate \div 10]

\* ConstructTcConfig; without the annotation the arguments are there, and 0.
TcConfig(a) ==
  CASE Parses(a)  -> TcArgsOf(Bandwidth(a))
    [] a = Others -> TcArgsOf(0)
    [] OTHER      -> None

\* Mutation: the burst is added to the rate, not to the ceiling.
ClassOfBurst(a) ==
  [rate |-> (a.rate + a.burst) % Word, ceil |-> (a.rate + a.burst) % Word]

\* addHTBClass passes rate and burst as the burst, and createClassObject adds
\* the rate once more: the ceiling is not the sum that addHTBClass names.
ClassOf(a) ==
  [rate |-> a.rate, ceil |-> (a.rate + ((a.rate + a.burst) % Word)) % Word]

\* What the kernel refuses.
Refused(c) == c.rate = 0 \/ c.ceil = 0

\* What the kernel lets pass: a class without a parent has nobody to borrow of.
Limit(c) == IF c.ceil < c.rate THEN c.ceil ELSE c.rate

-----------------------------------------------------------------------------
(* The ADD.                                                                *)

Goto(s) == pc' = s /\ UNCHANGED <<annotation, asked>>

\* configureInterface calls ConstructTcConfig and logs its error.
ReadAnnotation ==
  /\ pc = "read"
  /\ asked' = annotation
  /\ args' = TcConfig(annotation)
  /\ logged' = (args' = None /\ annotation # None)
  /\ pc' = "veth"
  /\ UNCHANGED <<annotation, link>>

\* The API server does not answer, or does not know the pod.
ReadAnnotationFails ==
  /\ pc = "read"
  /\ "api" \in Faults
  /\ asked' = annotation
  /\ args' = None
  /\ logged' = TRUE
  /\ pc' = "veth"
  /\ UNCHANGED <<annotation, link>>

\* SetupVethWithName in the container's namespace; nil arguments mean no limit.
SetupVeth ==
  /\ pc = "veth"
  /\ Goto(IF args = None THEN "port" ELSE "qdisc")
  /\ UNCHANGED <<args, logged, link>>

SetupVethFails ==
  /\ pc = "veth"
  /\ "link" \in Faults
  /\ Goto("failed")
  /\ UNCHANGED <<args, logged, link>>

\* configureTC, in the namespace: the root qdisc, ...
AddQdisc ==
  /\ pc = "qdisc"
  /\ qdisc' = TRUE
  /\ Goto("class")
  /\ UNCHANGED <<args, logged, class, filter>>

\* ... the class ...
AddClass ==
  /\ pc = "class"
  /\ ~Refused(ClassOf(args))
  /\ class' = ClassOf(args)
  /\ Goto("filter")
  /\ UNCHANGED <<args, logged, qdisc, filter>>

\* ... and the filter, which sends the cluster's addresses to the class; other
\* traffic has no class and is not limited.
AddFilter ==
  /\ pc = "filter"
  /\ filter' = TRUE
  /\ Goto("port")
  /\ UNCHANGED <<args, logged, qdisc, class>>

TcFailing ==
  /\ pc \in TcSteps
  /\ \/ "tc" \in Faults
     \/ pc = "class" /\ Refused(ClassOf(args))

\* Mutation: the error of configureTC is assigned and not looked at.
TcFailsSilently ==
  /\ TcFailing
  /\ Goto("port")
  /\ UNCHANGED <<args, logged, link>>

\* Mutation: the error of configureTC is returned.
TcFailsReturned ==
  /\ TcFailing
  /\ Goto("failed")
  /\ logged' = TRUE
  /\ UNCHANGED <<args, link>>

\* The kernel refuses one of them: configureTC returns, what it made stays, and
\* setupVethPair logs the error and goes on.
TcFails ==
  /\ TcFailing
  /\ Goto("port")
  /\ logged' = TRUE
  /\ UNCHANGED <<args, link>>

\* The rest of the ADD; its roll-back, as the DEL, takes the pair away.
Finish ==
  /\ pc = "port"
  /\ Goto("ready")
  /\ UNCHANGED <<args, logged, link>>

FinishFails ==
  /\ pc = "port"
  /\ "later" \in Faults
  /\ Goto("failed")
  /\ UNCHANGED <<args, logged, link>>

\* The runtime makes the pod's next sandbox, with a pair of its own.
NewSandbox ==
  /\ pc \in {"ready", "failed"}
  /\ Goto("read")
  /\ args' = None
  /\ logged' = FALSE
  /\ qdisc' = FALSE /\ class' = None /\ filter' = FALSE

\* A user edits the pod's annotations: nothing in the agent notices.
Annotate(a) ==
  /\ annotation' = a
  /\ UNCHANGED <<pc, asked, args, logged, link>>

CmdAdd ==
  \/ ReadAnnotation \/ ReadAnnotationFails \/ SetupVeth \/ SetupVethFails
  \/ AddQdisc \/ AddClass \/ AddFilter \/ TcFails \/ Finish \/ FinishFails

Next == CmdAdd \/ NewSandbox \/ \E a \in Annotations : Annotate(a)

Spec == Init /\ [][Next]_vars

\* Goroutines run.
FairSpec == Spec /\ WF_vars(CmdAdd)

-----------------------------------------------------------------------------
(* Properties.                                                             *)

\* A container is limited only if its pod's annotation asked for a rate when it
\* was added, and never above that rate.  The limit is the very rate as long as
\* the sum fits that createClassObject makes, and lower where that sum does not
\* fit but limit+burst does, the ceiling that the comment at addHTBClass names.
LimitFollowsSum ==
  class # None =>
    LET limit == Asked(asked)
        burst == limit \div 10
    IN
    /\ asked \in Rates
    /\ Limit(class) <= limit
    /\ limit + (limit + burst) < Word => Limit(class) = limit
    /\ limit + burst < Word /\ Word <= limit + (limit + burst) => Limit(class) < limit

\* A pod that asked for a limit and is added without one, because its
\* annotation could not be read or parsed or the kernel refused a part of the
\* limit, leaves an error in the log; nothing else tells of it.
NoSilentMiss ==
  pc \in {"port", "ready"} /\ asked \notin {None, Others} /\ ~filter => logged

\* "An error in the configuration of the limit does not affect the normal run
\* of the CNI" (setupVethPair): once the pair is made and its limit begun, the
\* ADD comes to its next step.
LimitNeverStopsAdd == \A s \in TcSteps : pc = s ~> pc = "port"
=============================================================================
