---------------------------- MODULE DagEngineProofs ----------------------------
(***************************************************************************)
(* Theorems about the DAG engine, for every finite set of stages, every    *)
(* descriptor and every number of attempts.                                *)
(***************************************************************************)
EXTENDS DagEngine, FiniteSetTheorems, TLAPS

Out(s) == dag.outputArtifactRef[s]
Waiting(a) == {t \in Consumers(dag, a) : ~Done(t)}

(***************************************************************************)
(* The inductive invariant.  Lifecycle: what a stage's status says of the  *)
(* registration, the attempts and the stages around it.  Buffers: which    *)
(* artifacts exist, and that the reference count of a stage's output is    *)
(* the number of its consumers that are still to complete.                 *)
(***************************************************************************)
Unregistered ==
  dag = NoDag => /\ ~cancelled
                 /\ stage = [s \in Stages |-> NoStage]
                 /\ artifact = [a \in Artifacts |-> NoArtifact]
                 /\ handed = {}

Lifecycle ==
  Registered =>
    /\ Valid(dag)
    /\ \A s \in Stages :
         /\ stage[s].status # "ABSENT"
         /\ stage[s].status \in {"PENDING", "READY"} => stage[s].attempt < MaxAttempts
         /\ stage[s].status = "PENDING" => \E p \in dag.dependencies[s] : ~Done(p)
         /\ stage[s].status = "CANCELLED" => cancelled
         /\ stage[s].status \in {"READY", "RUNNING", "COMPLETED", "FAILED"}
              => \A p \in dag.dependencies[s] : Done(p)
         /\ \A w \in Workers, k \in 1 .. MaxAttempts : <<s, w, k>> \in handed
              => \A p \in dag.dependencies[s] : Done(p)

Origins ==
  Registered /\ WellFormed(dag) =>
    /\ \A s \in Stages :
         artifact[Out(s)].origin = IF Done(s) THEN "stage" ELSE "absent"
    /\ \A a \in Artifacts :
         artifact[a].origin = "stage" => \E s \in Stages : a = Out(s)
    /\ \A a \in dag.inputArtifacts : artifact[a].origin = "input"

Buffers ==
  Live /\ WellFormed(dag) =>
    /\ \A s \in Stages : Done(s) =>
         /\ artifact[Out(s)].refs = Cardinality(Waiting(Out(s)))
         /\ artifact[Out(s)].freed <=>
              Consumers(dag, Out(s)) # {} /\ Waiting(Out(s)) = {}
    /\ \A a \in dag.inputArtifacts : ~artifact[a].freed

IInv == TypeOK /\ Unregistered /\ Lifecycle /\ Origins /\ Buffers

-----------------------------------------------------------------------------
(* Facts about descriptors. *)

LEMMA RefsFinite ==
  ASSUME NEW d \in Descriptor, NEW s \in Stages, NEW a
  PROVE  /\ IsFiniteSet(DOMAIN Refs(d, s))
         /\ IsFiniteSet({i \in DOMAIN Refs(d, s) : Refs(d, s)[i] = a})
  <1>1. Refs(d, s) \in Seq(Artifacts)  BY DEF Descriptor, Refs
  <1>2. DOMAIN Refs(d, s) = 1 .. Len(Refs(d, s)) /\ Len(Refs(d, s)) \in Nat
    BY <1>1
  <1>3. IsFiniteSet(DOMAIN Refs(d, s))  BY <1>2, FS_Interval
  <1>4. {i \in DOMAIN Refs(d, s) : Refs(d, s)[i] = a} \in SUBSET DOMAIN Refs(d, s)
    OBVIOUS
  <1> QED  BY <1>3, <1>4, FS_Subset

LEMMA MentionsCount ==
  ASSUME NEW d \in Descriptor, NEW s \in Stages, NEW a
  PROVE  /\ Mentions(d, s, a) \in Nat
         /\ Mentions(d, s, a) > 0 <=> a \in Inputs(d, s)
  <1> DEFINE M == {i \in DOMAIN Refs(d, s) : Refs(d, s)[i] = a}
  <1>1. IsFiniteSet(M)  BY RefsFinite
  <1>2. Cardinality(M) \in Nat /\ (Cardinality(M) = 0 <=> M = {})
    BY <1>1, FS_CardinalityType, FS_EmptySet
  <1>3. M # {} <=> a \in Inputs(d, s)  BY DEF Inputs
  <1>4. Mentions(d, s, a) = Cardinality(M)  BY DEF Mentions
  <1> QED  BY <1>2, <1>3, <1>4

LEMMA ConsumersFinite ==
  ASSUME NEW d, NEW a, NEW S \in SUBSET Consumers(d, a)
  PROVE  IsFiniteSet(S) /\ Cardinality(S) \in Nat
  <1>1. S \in SUBSET Stages  BY DEF Consumers
  <1>2. IsFiniteSet(S)  BY <1>1, DagEngineAssumption, FS_Subset
  <1> QED  BY <1>2, FS_CardinalityType

LEMMA ImageFinite ==
  ASSUME NEW S, IsFiniteSet(S), NEW f, f = [x \in S |-> f[x]]
  PROVE  IsFiniteSet({f[x] : x \in S})
  <1> DEFINE T == {f[x] : x \in S}
  <1>1. f \in Surjection(S, T)  BY DEF Surjection
  <1> QED  BY <1>1, FS_Surjection

LEMMA InputArtifactType ==
  ASSUME NEW d \in Descriptor, NEW a
  PROVE  /\ InputArtifact(d, a) \in Artifact
         /\ InputArtifact(d, a).origin = "input"
         /\ ~InputArtifact(d, a).freed
  <1> DEFINE f == [s \in Stages |-> {<<s, i>> : i \in {j \in DOMAIN Refs(d, s) :
                                       Refs(d, s)[j] = a}}]
             U == UNION {{<<s, i>> : i \in {j \in DOMAIN Refs(d, s) :
                            Refs(d, s)[j] = a}} : s \in Stages}
  <1>1. \A s \in Stages : IsFiniteSet(f[s])
    <2> TAKE s \in Stages
    <2> DEFINE J == {j \in DOMAIN Refs(d, s) : Refs(d, s)[j] = a}
               g == [i \in J |-> <<s, i>>]
    <2>1. IsFiniteSet(J)  BY RefsFinite
    <2>2. f[s] = {g[i] : i \in J}  OBVIOUS
    <2>3. g = [i \in J |-> g[i]]  OBVIOUS
    <2>4. IsFiniteSet({g[i] : i \in J})
      <3> HIDE DEF J, g
      <3> QED  BY <2>1, <2>3, ImageFinite
    <2> QED  BY <2>2, <2>4
  <1>2. U = UNION {f[s] : s \in Stages}  OBVIOUS
  <1>3. IsFiniteSet({f[s] : s \in Stages})
    <2>1. f = [s \in Stages |-> f[s]]  OBVIOUS
    <2> HIDE DEF f
    <2> QED  BY <2>1, DagEngineAssumption, ImageFinite
  <1> HIDE DEF f
  <1>4. \A T \in {f[s] : s \in Stages} : IsFiniteSet(T)  BY <1>1
  <1>5. IsFiniteSet(U)  BY ONLY <1>2, <1>3, <1>4, FS_UNION
  <1>6. Cardinality(U) \in Nat  BY <1>5, FS_CardinalityType
  <1>7. InputArtifact(d, a) = [origin |-> "input", refs |-> Cardinality(U),
                               freed |-> FALSE]
    BY DEF InputArtifact
  <1> HIDE DEF U
  <1> QED  BY <1>6, <1>7 DEF Artifact

\* A stage never waits for itself.
LEMMA NoSelfDependency ==
  ASSUME NEW d, Acyclic(d), NEW s \in Stages
  PROVE  s \notin d.dependencies[s]
  <1>1. {s} \in (SUBSET Stages) \ {{}}  OBVIOUS
  <1>2. PICK t \in {s} : d.dependencies[t] \cap {s} = {}  BY <1>1 DEF Acyclic
  <1> QED  BY <1>2

-----------------------------------------------------------------------------
(* Each action keeps the invariant. *)

LEMMA InitInv == Init => IInv
  <1> SUFFICES ASSUME Init PROVE IInv  OBVIOUS
  <1>1. NoStage \in Stage /\ NoArtifact \in Artifact
    BY DagEngineAssumption DEF NoStage, NoArtifact, Stage, Artifact
  <1>2. TypeOK  BY <1>1 DEF Init, TypeOK
  <1> QED  BY <1>2 DEF Init, IInv, Unregistered, Lifecycle, Origins, Buffers,
                       Registered, Live

\* In every state but the first a descriptor of the right shape is registered.
LEMMA RegisteredShape ==
  ASSUME IInv, Registered
  PROVE  dag \in Descriptor /\ Valid(dag)
  BY DagEngineAssumption DEF IInv, TypeOK, Lifecycle, Registered

LEMMA RegisterKeeps ==
  ASSUME IInv, NEW d \in Descriptors, RegisterDag(d)
  PROVE  IInv'
  <1> USE DEF RegisterDag
  <1>1. d \in Descriptor /\ Valid(d) /\ ~cancelled /\ handed = {} /\ d # NoDag
    BY DagEngineAssumption DEF IInv, Unregistered
  <1>2. \A s \in Stages : stage'[s] = [status |->
            IF d.dependencies[s] = {} THEN "READY" ELSE "PENDING",
            worker |-> NoWorker, attempt |-> 0]
    BY DEF NoStage
  <1>3. TypeOK'
    <2>1. stage' \in [Stages -> Stage]
      <3>1. \A s \in Stages : [status |-> IF d.dependencies[s] = {} THEN "READY"
                                          ELSE "PENDING",
                                worker |-> NoWorker, attempt |-> 0] \in Stage
        BY DagEngineAssumption DEF Stage, Statuses
      <3>2. stage' = [s \in Stages |-> stage'[s]]  OBVIOUS
      <3> QED  BY <1>2, <3>1, <3>2
    <2>2. artifact' \in [Artifacts -> Artifact]
      <3>1. NoArtifact \in Artifact  BY DEF NoArtifact, Artifact
      <3>2. \A a : InputArtifact(d, a) \in Artifact  BY <1>1, InputArtifactType
      <3> QED  BY <3>1, <3>2
    <2> QED  BY <2>1, <2>2 DEF IInv, TypeOK
  <1>4. Lifecycle'
    <2>1. \A s \in Stages : stage'[s].status # "COMPLETED" /\ stage'[s].attempt = 0
      BY <1>2
    <2>2. \A s \in Stages : stage'[s].status =
            IF d.dependencies[s] = {} THEN "READY" ELSE "PENDING"
      BY <1>2
    <2>3. \A s \in Stages : d.dependencies[s] \subseteq Stages
      BY <1>1 DEF Descriptor
    <2> QED  BY <1>1, <2>1, <2>2, <2>3, DagEngineAssumption
             DEF Lifecycle, Done, Valid
  <1>5. Origins'
    <2>1. \A s \in Stages : ~Done(s)'  BY <1>2 DEF Done
    <2>2. \A a \in Artifacts : artifact'[a].origin =
            IF a \in d.inputArtifacts THEN "input" ELSE "absent"
      BY <1>1, InputArtifactType DEF NoArtifact
    <2>3. \A s \in Stages : d.outputArtifactRef[s] \in Artifacts
      BY <1>1 DEF Descriptor
    <2>4. d.inputArtifacts \subseteq Artifacts  BY <1>1 DEF Descriptor
    <2> QED  BY <2>1, <2>2, <2>3, <2>4 DEF Origins, WellFormed, Out
  <1>6. Buffers'
    <2>1. \A s \in Stages : ~Done(s)'  BY <1>2 DEF Done
    <2>2. \A a \in d.inputArtifacts : ~artifact'[a].freed
      BY <1>1, InputArtifactType DEF Descriptor
    <2> QED  BY <2>1, <2>2 DEF Buffers
  <1> QED  BY <1>1, <1>3, <1>4, <1>5, <1>6 DEF IInv, Unregistered

LEMMA AssignKeeps ==
  ASSUME IInv, NEW s \in Stages, NEW w \in Workers, AssignStage(s, w)
  PROVE  IInv'
  <1> USE DEF AssignStage
  <1>1. Registered  BY DEF IInv, Unregistered, NoStage, Registered
  <1>2. stage[s] \in Stage /\ stage[s].attempt < MaxAttempts
    BY <1>1 DEF IInv, TypeOK, Lifecycle
  <1>3. stage[s].attempt + 1 \in 1 .. MaxAttempts
    BY <1>2, DagEngineAssumption DEF Stage
  <1>4. \A t \in Stages : stage'[t] = IF t = s
          THEN [status |-> "RUNNING", worker |-> w, attempt |-> stage[s].attempt + 1]
          ELSE stage[t]
    BY DEF IInv, TypeOK
  <1>5. \A t \in Stages : Done(t)' <=> Done(t)  BY <1>4 DEF Done
  <1>6. TypeOK'
    <2>1. stage' \in [Stages -> Stage]
      BY <1>3, <1>4 DEF IInv, TypeOK, Stage, Statuses
    <2> QED  BY <1>3, <2>1 DEF IInv, TypeOK
  <1>7. Lifecycle'
    <2>1. \A t \in Stages : dag.dependencies[t] \subseteq Stages
      BY <1>1, RegisteredShape DEF Descriptor
    <2>2. \A p \in dag.dependencies[s] : Done(p)
      BY <1>1 DEF IInv, Lifecycle
    <2>3. \A t \in Stages, v \in Workers, k \in 1 .. MaxAttempts :
            <<t, v, k>> \in handed' => t = s \/ <<t, v, k>> \in handed
      OBVIOUS
    <2>4. \A t \in Stages : t # s => stage'[t] = stage[t]  BY <1>4
    <2>5. stage'[s].status = "RUNNING"  BY <1>4
    <2> QED  BY <1>1, <1>5, <2>1, <2>2, <2>3, <2>4, <2>5
             DEF IInv, Lifecycle, Registered
  <1>8. Origins'
    BY <1>5 DEF IInv, Origins, Registered, Out
  <1>9. Buffers'
    <2>1. \A a : Waiting(a)' = Waiting(a)  BY <1>5 DEF Waiting, Consumers
    <2> QED  BY <1>5, <2>1 DEF IInv, Buffers, Live, Registered, Out
  <1> QED  BY <1>1, <1>6, <1>7, <1>8, <1>9 DEF IInv, Unregistered, Registered

LEMMA CancelKeeps ==
  ASSUME IInv, CancelDag
  PROVE  IInv'
  <1> USE DEF CancelDag
  <1>1. \A s \in Stages : stage[s] \in Stage  BY DEF IInv, TypeOK
  <1>2. \A s \in Stages :
          /\ stage'[s] \in Stage
          /\ stage'[s].attempt = stage[s].attempt
          /\ stage'[s].status = IF stage[s].status \in {"PENDING", "READY", "RUNNING"}
                                THEN "CANCELLED" ELSE stage[s].status
    BY <1>1 DEF Stage, Statuses
  <1>3. \A s \in Stages : Done(s)' <=> Done(s)  BY <1>2 DEF Done
  <1>4. \A a \in Artifacts : artifact'[a] \in Artifact
                             /\ artifact'[a].origin = artifact[a].origin
    BY DEF IInv, TypeOK, Artifact
  <1>5. TypeOK'
    <2>1. stage' \in [Stages -> Stage]  BY <1>2
    <2>2. artifact' \in [Artifacts -> Artifact]  BY <1>4
    <2> QED  BY <2>1, <2>2 DEF IInv, TypeOK
  <1>6. Lifecycle'
    <2>1. \A s \in Stages : dag.dependencies[s] \subseteq Stages
      BY RegisteredShape DEF Registered, Descriptor
    <2>2. \A s \in Stages : stage'[s].status \notin {"PENDING", "READY", "ABSENT"}
      BY <1>2 DEF IInv, Lifecycle, Registered
    <2>3. \A s \in Stages : stage'[s].status \in {"RUNNING", "COMPLETED", "FAILED"}
            => stage'[s].status = stage[s].status
      BY <1>2
    <2> QED  BY <1>3, <2>1, <2>2, <2>3 DEF IInv, Lifecycle, Registered
  <1>7. Origins'
    <2>1. \A s \in Stages : Registered => Out(s) \in Artifacts
      BY RegisteredShape DEF Descriptor, Out
    <2>2. Registered => dag.inputArtifacts \subseteq Artifacts
      BY RegisteredShape DEF Descriptor
    <2> QED  BY <1>3, <1>4, <2>1, <2>2 DEF IInv, Origins, Registered, Out
  <1> QED  BY <1>5, <1>6, <1>7 DEF IInv, Unregistered, Buffers, Live, Registered

\* A report of an attempt comes after the attempt: the stages before it are done.
LEMMA ReportFacts ==
  ASSUME IInv, NEW s \in Stages, NEW w \in Workers, NEW k \in 1 .. MaxAttempts,
         <<s, w, k>> \in handed
  PROVE  /\ Registered
         /\ stage[s] \in Stage
         /\ stage[s].status \notin {"PENDING", "ABSENT"}
         /\ \A p \in dag.dependencies[s] : Done(p)
  BY DEF IInv, Unregistered, TypeOK, Lifecycle, Registered

LEMMA FailKeeps ==
  ASSUME IInv, NEW s \in Stages, NEW w \in Workers, NEW k \in 1 .. MaxAttempts,
         FailStage(s, w, k)
  PROVE  IInv'
  <1> USE DEF FailStage
  <1>1. /\ Registered /\ stage[s] \in Stage
        /\ \A p \in dag.dependencies[s] : Done(p)
    BY ReportFacts
  <1>2. \A t \in Stages \ {s} : stage'[t] = stage[t]  BY DEF IInv, TypeOK
  <1>3. /\ stage'[s] \in Stage
        /\ stage'[s].status \in {"READY", "FAILED"}
        /\ stage'[s].status = "READY" => stage'[s].attempt < MaxAttempts
    BY <1>1 DEF IInv, TypeOK, Stage, Statuses
  <1>4. \A t \in Stages : Done(t)' <=> Done(t)  BY <1>2, <1>3 DEF Done
  <1>5. TypeOK'
    <2>1. stage' \in [Stages -> Stage]  BY <1>2, <1>3 DEF IInv, TypeOK
    <2> QED  BY <2>1 DEF IInv, TypeOK
  <1>6. Lifecycle'
    <2>1. \A t \in Stages : dag.dependencies[t] \subseteq Stages
      BY <1>1, RegisteredShape DEF Descriptor
    <2> QED  BY <1>1, <1>2, <1>3, <1>4, <2>1 DEF IInv, Lifecycle, Registered
  <1>7. Origins'
    BY <1>4 DEF IInv, Origins, Registered, Out
  <1>8. Buffers'
    <2>1. \A a : Waiting(a)' = Waiting(a)  BY <1>4 DEF Waiting, Consumers
    <2> QED  BY <1>4, <2>1 DEF IInv, Buffers, Live, Registered, Out
  <1> QED  BY <1>1, <1>5, <1>6, <1>7, <1>8 DEF IInv, Unregistered, Registered

\* What completing stage s does to the stages.
LEMMA PromotedFacts ==
  ASSUME IInv, NEW s \in Stages, stage[s] \in Stage, stage' = Promoted(s)
  PROVE  /\ stage' \in [Stages -> Stage]
         /\ stage'[s].status = "COMPLETED"
         /\ \A t \in Stages : Done(t)' <=> Done(t) \/ t = s
         /\ \A t \in Stages \ {s} :
              \/ stage'[t] = stage[t]
                 /\ (stage[t].status = "PENDING" =>
                       \E p \in dag.dependencies[t] : p # s /\ ~Done(p))
              \/ /\ stage[t].status = "PENDING" /\ stage'[t].status = "READY"
                 /\ stage'[t].attempt = stage[t].attempt
                 /\ \A p \in dag.dependencies[t] : p = s \/ Done(p)
  <1>1. \A t \in Stages : stage[t] \in Stage  BY DEF IInv, TypeOK
  <1>2. \A t \in Stages : stage'[t] \in Stage
    BY <1>1 DEF Promoted, Stage, Statuses
  <1>3. stage' \in [Stages -> Stage]  BY <1>2 DEF Promoted
  <1>4. stage'[s].status = "COMPLETED"  BY DEF Promoted
  <1>5. \A t \in Stages \ {s} :
          \/ stage'[t] = stage[t]
             /\ (stage[t].status = "PENDING" =>
                   \E p \in dag.dependencies[t] : p # s /\ ~Done(p))
          \/ /\ stage[t].status = "PENDING" /\ stage'[t].status = "READY"
             /\ stage'[t].attempt = stage[t].attempt
             /\ \A p \in dag.dependencies[t] : p = s \/ Done(p)
    BY DEF Promoted, Done
  <1>6. \A t \in Stages : Done(t)' <=> Done(t) \/ t = s
    BY <1>4, <1>5 DEF Done
  <1> QED  BY <1>3, <1>4, <1>5, <1>6

LEMMA StoredType ==
  ASSUME IInv, Registered, NEW s \in Stages
  PROVE  Stored(s) \in [Artifacts -> Artifact]
  <1>1. Cardinality(Consumers(dag, dag.outputArtifactRef[s])) \in Nat
    BY ConsumersFinite
  <1> QED  BY <1>1 DEF IInv, TypeOK, Stored, Artifact

LEMMA ConsumedType ==
  ASSUME NEW art \in Artifact, NEW n \in Nat
  PROVE  Consumed(art, n) \in Artifact /\ Consumed(art, n).origin = art.origin
  BY DEF Consumed, Artifact

\* The reference counts after stage s is completed, for the artifact of stage p.
LEMMA CountsKept ==
  ASSUME IInv, Live, WellFormed(dag), NEW s \in Stages, ~Done(s),
         \A p \in dag.dependencies[s] : Done(p),
         \A t \in Stages : Done(t)' <=> Done(t) \/ t = s,
         artifact' = [a \in Artifacts |-> Consumed(Stored(s)[a], Mentions(dag, s, a))],
         dag' = dag,
         NEW p \in Stages, Done(p)'
  PROVE  /\ artifact'[Out(p)].refs = Cardinality(Waiting(Out(p))')
         /\ artifact'[Out(p)].freed <=>
              Consumers(dag, Out(p)) # {} /\ Waiting(Out(p))' = {}
  <1> DEFINE o == Out(p)
             n == Mentions(dag, s, o)
  <1>1. dag \in Descriptor /\ Valid(dag) /\ o \in Artifacts
    BY RegisteredShape DEF Live, Descriptor, Out
  <1>2. n \in {0, 1} /\ (n = 1 <=> s \in Consumers(dag, o))
    BY <1>1, MentionsCount DEF WellFormed, Consumers
  <1>3. artifact'[o] = Consumed(Stored(s)[o], n)  BY <1>1
  <1>4. Waiting(o)' = Waiting(o) \ {s}
    <2>1. o' = o  BY DEF Out
    <2>2. Waiting(o)' = {t \in Consumers(dag, o) : ~Done(t)'}
      BY <2>1 DEF Waiting, Consumers
    <2>3. \A t \in Consumers(dag, o) : Done(t)' <=> Done(t) \/ t = s
      BY DEF Consumers
    <2> QED  BY <2>2, <2>3 DEF Waiting
  <1>5. Waiting(o) \subseteq Consumers(dag, o) /\ IsFiniteSet(Waiting(o))
    BY ConsumersFinite DEF Waiting
  <1>6. Cardinality(Waiting(o)) \in Nat
        /\ (Cardinality(Waiting(o) \ {s}) = 0 <=> Waiting(o) \ {s} = {})
    BY <1>5, FS_CardinalityType, FS_RemoveElement, FS_EmptySet
  <1> HIDE DEF n, o
  <1>7. CASE p = s
    <2>1. s \notin Consumers(dag, o)
      BY <1>1, NoSelfDependency, <1>7 DEF WellFormed, Consumers, Valid, o, Out
    <2>2. \A t \in Consumers(dag, o) : ~Done(t)
      <3> SUFFICES ASSUME NEW t \in Consumers(dag, o), Done(t) PROVE FALSE
        OBVIOUS
      <3>1. t \in Stages /\ s \in dag.dependencies[t]
        BY <1>7 DEF WellFormed, Consumers, o, Out
      <3>2. \A q \in dag.dependencies[t] : Done(q)
        BY <3>1 DEF IInv, Lifecycle, Live, Done
      <3> QED  BY <3>1, <3>2
    <2>3. Waiting(o) = Consumers(dag, o) /\ Waiting(o)' = Consumers(dag, o)
      BY <1>4, <2>1, <2>2 DEF Waiting
    <2>4. Stored(s)[o] = [origin |-> "stage", refs |-> Cardinality(Consumers(dag, o)),
                          freed |-> FALSE]
      BY <1>1, <1>7 DEF Stored, o, Out, IInv, TypeOK
    <2>5. Consumed(Stored(s)[o], n) = Stored(s)[o]
      BY <1>2, <2>1 DEF Consumed
    <2> QED  BY <1>3, <2>3, <2>4, <2>5 DEF o
  <1>8. CASE p # s
    <2>1. Done(p)  BY <1>8
    <2>2. /\ artifact[o] \in Artifact
          /\ artifact[o].origin = "stage"
          /\ artifact[o].refs = Cardinality(Waiting(o))
          /\ artifact[o].freed <=> Consumers(dag, o) # {} /\ Waiting(o) = {}
      BY <1>1, <2>1 DEF IInv, TypeOK, Origins, Buffers, Live, o
    <2>3. Stored(s)[o] = artifact[o]
      BY <1>1, <1>8 DEF Stored, IInv, TypeOK, WellFormed, o, Out
    <2>4. CASE n = 0
      <3>1. s \notin Waiting(o)  BY <1>2, <2>4 DEF Waiting
      <3>2. Consumed(artifact[o], n) = artifact[o]  BY <2>4 DEF Consumed
      <3> QED  BY <1>3, <1>4, <2>2, <2>3, <3>1, <3>2 DEF o
    <2>5. CASE n = 1
      <3>1. s \in Waiting(o) /\ Consumers(dag, o) # {} /\ ~artifact[o].freed
        BY <1>2, <2>2, <2>5 DEF Waiting
      <3>2. Cardinality(Waiting(o) \ {s}) = Cardinality(Waiting(o)) - 1
            /\ Cardinality(Waiting(o)) # 0
        BY <1>5, <3>1, FS_RemoveElement, FS_EmptySet
      <3>3. (IF artifact[o].refs <= n THEN 0 ELSE artifact[o].refs - n)
              = artifact[o].refs - 1
        BY <1>6, <2>2, <2>5, <3>2
      <3>4. Consumed(artifact[o], n) =
              [origin |-> "stage", refs |-> artifact[o].refs - 1,
               freed |-> artifact[o].freed \/ artifact[o].refs - 1 = 0]
        <4>1. n > 0  BY <2>5
        <4> QED  BY <2>2, <3>3, <4>1, Zenon DEF Consumed
      <3>5. artifact'[o].refs = artifact[o].refs - 1
            /\ (artifact'[o].freed <=> artifact[o].freed \/ artifact[o].refs - 1 = 0)
        <4> DEFINE fr == artifact[o].freed \/ artifact[o].refs - 1 = 0
        <4>1. artifact'[o] = [origin |-> "stage", refs |-> artifact[o].refs - 1,
                              freed |-> fr]
          BY <1>3, <2>3, <3>4
        <4>2. fr <=> artifact[o].freed \/ artifact[o].refs - 1 = 0  OBVIOUS
        <4> HIDE DEF fr
        <4>3. artifact'[o].refs = artifact[o].refs - 1 /\ artifact'[o].freed = fr
          BY <4>1
        <4> QED  BY <4>2, <4>3
      <3>6. artifact'[o].refs = Cardinality(Waiting(o)')
        BY <1>4, <2>2, <3>2, <3>5
      <3>7. artifact'[o].freed <=> Waiting(o)' = {}
        BY <1>4, <1>6, <2>2, <3>1, <3>2, <3>5
      <3> QED  BY <3>1, <3>6, <3>7, Zenon DEF o
    <2> QED  BY <1>2, <2>4, <2>5
  <1> QED  BY <1>7, <1>8

LEMMA CompleteKeeps ==
  ASSUME IInv, NEW s \in Stages, NEW w \in Workers, NEW k \in 1 .. MaxAttempts,
         CompleteStage(s, w, k)
  PROVE  IInv'
  <1> USE DEF CompleteStage
  <1>1. /\ Registered /\ stage[s] \in Stage
        /\ stage[s].status \notin {"PENDING", "ABSENT"}
        /\ \A p \in dag.dependencies[s] : Done(p)
    BY ReportFacts
  <1>2. dag \in Descriptor /\ Valid(dag)  BY <1>1, RegisteredShape
  <1>3. ~Done(s)  BY DEF Accepted, Done
  <1>4. /\ stage' \in [Stages -> Stage]
        /\ stage'[s].status = "COMPLETED"
        /\ \A t \in Stages : Done(t)' <=> Done(t) \/ t = s
        /\ \A t \in Stages \ {s} :
             \/ stage'[t] = stage[t]
                /\ (stage[t].status = "PENDING" =>
                      \E p \in dag.dependencies[t] : p # s /\ ~Done(p))
             \/ /\ stage[t].status = "PENDING" /\ stage'[t].status = "READY"
                /\ stage'[t].attempt = stage[t].attempt
                /\ \A p \in dag.dependencies[t] : p = s \/ Done(p)
    BY <1>1, PromotedFacts
  <1>5. \A a \in Artifacts : /\ artifact'[a] \in Artifact
                              /\ artifact'[a].origin = Stored(s)[a].origin
    BY <1>1, <1>2, StoredType, ConsumedType, MentionsCount
  <1>6. TypeOK'
    <2>1. artifact' \in [Artifacts -> Artifact]  BY <1>5
    <2> QED  BY <1>4, <2>1 DEF IInv, TypeOK
  <1>7. Lifecycle'
    <2> DEFINE L(t) ==
          /\ stage[t].status # "ABSENT"
          /\ stage[t].status \in {"PENDING", "READY"} => stage[t].attempt < MaxAttempts
          /\ stage[t].status = "PENDING" => \E p \in dag.dependencies[t] : ~Done(p)
          /\ stage[t].status = "CANCELLED" => cancelled
          /\ stage[t].status \in {"READY", "RUNNING", "COMPLETED", "FAILED"}
               => \A p \in dag.dependencies[t] : Done(p)
          /\ \A v \in Workers, j \in 1 .. MaxAttempts : <<t, v, j>> \in handed
               => \A p \in dag.dependencies[t] : Done(p)
    <2>1. \A t \in Stages : dag.dependencies[t] \subseteq Stages
      BY <1>2 DEF Descriptor
    <2>2. \A t \in Stages : L(t)  BY <1>1 DEF IInv, Lifecycle
    <2>3. L(s)'  BY <1>1, <1>4, <2>1
    <2>4. ASSUME NEW t \in Stages \ {s} PROVE L(t)'
      <3>1. CASE stage'[t] = stage[t]
                 /\ (stage[t].status = "PENDING" =>
                       \E p \in dag.dependencies[t] : p # s /\ ~Done(p))
        BY <1>4, <2>1, <2>2, <3>1
      <3>2. CASE /\ stage[t].status = "PENDING" /\ stage'[t].status = "READY"
                 /\ stage'[t].attempt = stage[t].attempt
                 /\ \A p \in dag.dependencies[t] : p = s \/ Done(p)
        BY <1>4, <2>1, <2>2, <3>2
      <3> QED  BY <1>4, <3>1, <3>2
    <2> HIDE DEF L
    <2>5. \A t \in Stages : L(t)'  BY <2>3, <2>4
    <2> USE DEF L
    <2> QED  BY <1>2, <2>5 DEF Lifecycle
  <1>8. Origins'
    <2> SUFFICES ASSUME WellFormed(dag)
                 PROVE  /\ \A p \in Stages : artifact'[Out(p)].origin =
                              IF Done(p)' THEN "stage" ELSE "absent"
                        /\ \A a \in Artifacts : artifact'[a].origin = "stage"
                             => \E p \in Stages : a = Out(p)
                        /\ \A a \in dag.inputArtifacts : artifact'[a].origin = "input"
      BY DEF Origins, Out
    <2>1. \A p \in Stages : Out(p) \in Artifacts  BY <1>2 DEF Descriptor, Out
    <2>2. dag.inputArtifacts \subseteq Artifacts  BY <1>2 DEF Descriptor
    <2>3. \A a \in Artifacts : artifact'[a].origin =
            IF a = Out(s) THEN "stage" ELSE artifact[a].origin
      BY <1>5 DEF Stored, Out, IInv, TypeOK
    <2>4. \A p \in Stages : Out(p) = Out(s) => p = s
      BY DEF WellFormed, Out
    <2>5. Out(s) \notin dag.inputArtifacts  BY DEF WellFormed, Out
    <2> QED  BY <1>1, <1>4, <2>1, <2>2, <2>3, <2>4, <2>5 DEF IInv, Origins
  <1>9. Buffers'
    <2> SUFFICES ASSUME Live, WellFormed(dag)
                 PROVE  /\ \A p \in Stages : Done(p)' =>
                              /\ artifact'[Out(p)].refs = Cardinality(Waiting(Out(p))')
                              /\ artifact'[Out(p)].freed <=>
                                   Consumers(dag, Out(p)) # {} /\ Waiting(Out(p))' = {}
                        /\ \A a \in dag.inputArtifacts : ~artifact'[a].freed
      BY DEF Buffers, Live, Registered, Out, Consumers
    <2>1. \A p \in Stages : Done(p)' =>
            /\ artifact'[Out(p)].refs = Cardinality(Waiting(Out(p))')
            /\ artifact'[Out(p)].freed <=>
                 Consumers(dag, Out(p)) # {} /\ Waiting(Out(p))' = {}
      BY <1>1, <1>3, <1>4, CountsKept
    <2>2. ASSUME NEW a \in dag.inputArtifacts PROVE ~artifact'[a].freed
      <3>1. a \in Artifacts /\ a # Out(s)
        BY <1>2 DEF Descriptor, WellFormed, Out
      <3>2. Stored(s)[a] = artifact[a]  BY <3>1 DEF Stored, Out, IInv, TypeOK
      <3>3. artifact[a].origin = "input" /\ ~artifact[a].freed
        BY DEF IInv, Origins, Buffers, Live
      <3>4. Consumed(artifact[a], Mentions(dag, s, a)) = artifact[a]
        BY <3>3 DEF Consumed
      <3> QED  BY <3>1, <3>2, <3>3, <3>4
    <2> QED  BY <2>1, <2>2
  <1> QED  BY <1>1, <1>6, <1>7, <1>8, <1>9 DEF IInv, Unregistered, Registered

-----------------------------------------------------------------------------
(* The theorems. *)

LEMMA NextKeeps == IInv /\ [Next]_vars => IInv'
  <1> SUFFICES ASSUME IInv, [Next]_vars PROVE IInv'  OBVIOUS
  <1>1. ASSUME NEW d \in Descriptors, RegisterDag(d) PROVE IInv'
    BY <1>1, RegisterKeeps
  <1>2. ASSUME NEW s \in Stages, NEW w \in Workers, AssignStage(s, w) PROVE IInv'
    BY <1>2, AssignKeeps
  <1>3. ASSUME NEW s \in Stages, NEW w \in Workers, NEW k \in 1 .. MaxAttempts,
               CompleteStage(s, w, k)
        PROVE IInv'
    BY <1>3, CompleteKeeps
  <1>4. ASSUME NEW s \in Stages, NEW w \in Workers, NEW k \in 1 .. MaxAttempts,
               FailStage(s, w, k)
        PROVE IInv'
    BY <1>4, FailKeeps
  <1>5. CASE CancelDag  BY <1>5, CancelKeeps
  <1>6. CASE UNCHANGED vars
    <2>1. \A a : Waiting(a)' = Waiting(a)
      BY <1>6 DEF vars, Waiting, Consumers, Done
    <2> QED  BY <1>6, <2>1 DEF vars, IInv, TypeOK, Unregistered, Lifecycle,
               Origins, Buffers, Registered, Live, Done, Out
  <1> QED  BY <1>1, <1>2, <1>3, <1>4, <1>5, <1>6 DEF Next

THEOREM Invariance == Spec => []IInv
  BY InitInv, NextKeeps, PTL DEF Spec

\* Every state is well typed; no attempt number exceeds maxStageAttempts.
THEOREM TypeCorrect == Spec => []TypeOK
  <1>1. IInv => TypeOK  BY DEF IInv
  <1> QED  BY Invariance, <1>1, PTL

\* No stage is ready, has run or was ever handed out before all the stages it
\* depends on are completed, whatever late failure reports do to it.
THEOREM OrderTheorem == Spec => []DependenciesFirst
  <1>1. IInv => DependenciesFirst
    <2> SUFFICES ASSUME IInv, NEW s \in Stages,
                        \/ stage[s].status \in {"READY", "RUNNING", "COMPLETED", "FAILED"}
                        \/ \E w \in Workers, k \in 1 .. MaxAttempts : <<s, w, k>> \in handed
                 PROVE  \A p \in dag.dependencies[s] : Done(p)
      BY DEF DependenciesFirst
    <2>1. CASE stage[s].status \in {"READY", "RUNNING", "COMPLETED", "FAILED"}
      <3>1. Registered  BY <2>1 DEF IInv, Unregistered, Registered, NoStage
      <3> QED  BY <2>1, <3>1 DEF IInv, Lifecycle
    <2>2. CASE \E w \in Workers, k \in 1 .. MaxAttempts : <<s, w, k>> \in handed
      BY <2>2, ReportFacts
    <2> QED  BY <2>1, <2>2
  <1> QED  BY Invariance, <1>1, PTL

\* A live DAG without a failed stage always has a stage to assign or to wait for:
\* the pending stages would otherwise wait for each other in a cycle.
THEOREM NeverStuckTheorem == Spec => []NeverStuck
  <1>1. IInv => NeverStuck
    <2> SUFFICES ASSUME IInv, Live, \A s \in Stages : stage[s].status # "FAILED",
                        \A s \in Stages : stage[s].status \notin {"READY", "RUNNING"}
                 PROVE  \A s \in Stages : Done(s)
      BY DEF NeverStuck
    <2> DEFINE P == {s \in Stages : stage[s].status = "PENDING"}
    <2>1. \A s \in Stages : s \in P \/ Done(s)
      BY DEF IInv, TypeOK, Lifecycle, Live, Stage, Statuses, Done
    <2>2. P = {}
      <3> SUFFICES ASSUME P # {} PROVE FALSE  OBVIOUS
      <3>1. P \in (SUBSET Stages) \ {{}}  OBVIOUS
      <3>2. PICK s \in P : dag.dependencies[s] \cap P = {}
        BY <3>1, RegisteredShape DEF Live, Valid, Acyclic
      <3>3. PICK p \in dag.dependencies[s] : ~Done(p)
        BY DEF IInv, Lifecycle, Live
      <3>4. p \in Stages  BY RegisteredShape DEF Live, Descriptor
      <3> QED  BY <2>1, <3>2, <3>3, <3>4
    <2> QED  BY <2>1, <2>2
  <1> QED  BY Invariance, <1>1, PTL

\* In a well-formed DAG a stage that may run finds every input produced and its
\* buffer there.
THEOREM InputsTheorem == Spec => []InputsHeld
  <1>1. IInv => InputsHeld
    <2> SUFFICES ASSUME IInv, Live, WellFormed(dag), NEW s \in Stages,
                        stage[s].status \in {"READY", "RUNNING"},
                        NEW a \in Inputs(dag, s)
                 PROVE  artifact[a].origin # "absent" /\ ~artifact[a].freed
      BY DEF InputsHeld
    <2>1. Valid(dag) /\ a \in Produced(dag)
      BY RegisteredShape DEF Live, Valid
    <2>2. CASE a \in dag.inputArtifacts
      BY <2>2 DEF IInv, Origins, Buffers, Live
    <2>3. ASSUME NEW p \in Stages, a = Out(p)
          PROVE  artifact[a].origin # "absent" /\ ~artifact[a].freed
      <3>1. p \in dag.dependencies[s]  BY <2>3 DEF WellFormed, Out
      <3>2. Done(p)  BY <3>1 DEF IInv, Lifecycle, Live
      <3>3. s \in Waiting(a)  BY DEF Waiting, Consumers, Done
      <3> QED  BY <2>3, <3>2, <3>3 DEF IInv, Origins, Buffers, Live
    <2> QED  BY <2>1, <2>2, <2>3 DEF Produced, Out
  <1> QED  BY Invariance, <1>1, PTL

\* In a well-formed DAG the buffer of a stage's output is freed when its last
\* consumer completes, not before and not never.
THEOREM FreedTheorem == Spec => []FreedWhenConsumed
  <1>1. IInv => FreedWhenConsumed
    <2> SUFFICES ASSUME IInv, Live, WellFormed(dag), NEW a \in Artifacts,
                        artifact[a].origin = "stage"
                 PROVE  artifact[a].freed <=>
                          Consumers(dag, a) # {} /\ \A s \in Consumers(dag, a) : Done(s)
      BY DEF FreedWhenConsumed
    <2>1. PICK p \in Stages : a = Out(p)  BY DEF IInv, Origins, Live
    <2>2. Done(p)  BY <2>1 DEF IInv, Origins, Live
    <2>3. artifact[a].freed <=> Consumers(dag, a) # {} /\ Waiting(a) = {}
      BY <2>1, <2>2 DEF IInv, Buffers, Live
    <2>4. Waiting(a) = {} <=> \A s \in Consumers(dag, a) : Done(s)
      BY DEF Waiting
    <2> QED  BY <2>3, <2>4
  <1> QED  BY Invariance, <1>1, PTL

\* A completed stage keeps the worker and the attempt that completed it, and its
\* output only loses references: no late or repeated report undoes it.
THEOREM CompletedOnceTheorem == Spec => CompletedOnce
  <1> DEFINE Kept == \A s \in Stages : Done(s) => stage'[s] = stage[s]
             Drained == \A a \in Artifacts : artifact[a].origin = "stage" =>
                          /\ artifact'[a].refs <= artifact[a].refs
                          /\ artifact[a].freed => artifact'[a].freed
             Once == Kept /\ (Registered /\ WellFormed(dag) => Drained)
  <1>1. ASSUME IInv, Next PROVE Once
    <2>0. (\A a \in Artifacts : artifact[a] \in Artifact)
          /\ (\A s \in Stages : stage[s] \in Stage)
      BY <1>1 DEF IInv, TypeOK
    <2>1. ASSUME NEW d \in Descriptors, RegisterDag(d) PROVE Once
      BY <1>1, <2>1 DEF RegisterDag, IInv, Unregistered, Registered, Done, NoStage
    <2>2. ASSUME NEW s \in Stages, NEW w \in Workers, AssignStage(s, w) PROVE Once
      BY <1>1, <2>0, <2>2 DEF AssignStage, IInv, TypeOK, Done, Artifact
    <2>3. ASSUME NEW s \in Stages, NEW w \in Workers, NEW k \in 1 .. MaxAttempts,
                 FailStage(s, w, k)
          PROVE Once
      BY <1>1, <2>0, <2>3 DEF FailStage, IInv, TypeOK, Done, Artifact
    <2>4. CASE CancelDag
      BY <2>0, <2>4 DEF CancelDag, Done, Artifact
    <2>5. ASSUME NEW s \in Stages, NEW w \in Workers, NEW k \in 1 .. MaxAttempts,
                 CompleteStage(s, w, k)
          PROVE Once
      <3>1. Registered /\ ~Done(s) /\ stage[s] \in Stage
        BY <1>1, <2>5, ReportFacts DEF CompleteStage, Accepted, Done
      <3>2. Kept
        BY <1>1, <2>5, <3>1, PromotedFacts DEF CompleteStage, Done
      <3>3. ASSUME WellFormed(dag), NEW a \in Artifacts, artifact[a].origin = "stage"
            PROVE  /\ artifact'[a].refs <= artifact[a].refs
                   /\ artifact[a].freed => artifact'[a].freed
        <4>1. a # Out(s)  BY <1>1, <3>1, <3>3 DEF IInv, Origins
        <4>2. Stored(s)[a] = artifact[a]
          BY <1>1, <4>1 DEF Stored, Out, IInv, TypeOK
        <4>3. Mentions(dag, s, a) \in Nat
          BY <1>1, <3>1, RegisteredShape, MentionsCount
        <4>4. artifact'[a] = Consumed(artifact[a], Mentions(dag, s, a))
          BY <2>5, <4>2 DEF CompleteStage
        <4>5. Consumed(artifact[a], Mentions(dag, s, a)).refs <= artifact[a].refs
          BY <2>0, <4>3 DEF Consumed, Artifact
        <4>6. artifact[a].freed => Consumed(artifact[a], Mentions(dag, s, a)).freed
          BY Zenon DEF Consumed
        <4> QED  BY <4>4, <4>5, <4>6
      <3> QED  BY <3>2, <3>3
    <2> QED  BY <1>1, <2>1, <2>2, <2>3, <2>4, <2>5 DEF Next
  <1>2. ASSUME UNCHANGED vars, IInv PROVE Once
    BY <1>2 DEF vars, IInv, TypeOK, Artifact
  <1>3. IInv /\ [Next]_vars => [Once]_vars  BY <1>1, <1>2
  <1> QED  BY Invariance, <1>3, PTL DEF Spec, CompletedOnce

=============================================================================
