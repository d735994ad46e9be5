------------------------------- MODULE DagEngine -------------------------------
(***************************************************************************)
(* The multi-stage DAG engine (core/src/dag_engine.ts): the stages of one  *)
(* registered DAG, their attempts, and the buffers of the artifacts that   *)
(* flow between them, with the reference counts that decide when a buffer  *)
(* is freed.                                                               *)
(*                                                                         *)
(* Every method is synchronous, so each is one action.  The engine has no  *)
(* loop of its own: its caller assigns the stages and reports how they     *)
(* ended.  A report names the worker and the attempt it is about; it may   *)
(* be late, repeated, or made up by a timeout while the worker still runs. *)
(* Reports the engine rejects change nothing and are not steps.            *)
(***************************************************************************)
EXTENDS Integers, Sequences, FiniteSets

CONSTANTS
  Stages,       \* the stage identifiers, the same for every descriptor
  Artifacts,    \* artifact identifiers
  Workers,      \* worker identifiers the caller uses
  NoWorker,     \* no assignedWorkerId
  NoDag,        \* no DAG registered
  Descriptors,  \* the descriptors the caller may try to register
  MaxAttempts   \* maxStageAttempts: 3 in the code

Descriptor == [dependencies       : [Stages -> SUBSET Stages],
               inputArtifactRefs  : [Stages -> Seq(Artifacts)],
               outputArtifactRef  : [Stages -> Artifacts],
               inputArtifacts     : SUBSET Artifacts,
               outputArtifactRefs : SUBSET Artifacts]

ASSUME DagEngineAssumption ==
  /\ IsFiniteSet(Stages) /\ Stages # {}
  /\ NoWorker \notin Workers
  /\ NoDag \notin Descriptors
  /\ Descriptors \subseteq Descriptor
  /\ MaxAttempts \in Nat \ {0}

VARIABLES
  dag,        \* the descriptor that is registered
  cancelled,  \* isCancelled
  stage,      \* the stages: status, worker, attempt
  artifact,   \* the artifacts: where they come from, who counts on them
  handed,     \* history: the attempts handed to the caller by assignStage
  failures    \* history: the attempts the caller reported as failed

vars == <<dag, cancelled, stage, artifact, handed, failures>>

Statuses == {"PENDING", "READY", "RUNNING", "COMPLETED", "FAILED", "CANCELLED"}

Stage == [status  : Statuses \cup {"ABSENT"},
          worker  : Workers \cup {NoWorker},
          attempt : 0 .. MaxAttempts]

\* origin: not in the map, an input of the DAG ('__INPUT__'), or a stage.
Artifact == [origin : {"absent", "input", "stage"}, refs : Nat, freed : BOOLEAN]

NoStage == [status |-> "ABSENT", worker |-> NoWorker, attempt |-> 0]
NoArtifact == [origin |-> "absent", refs |-> 0, freed |-> FALSE]

-----------------------------------------------------------------------------

Refs(d, s) == d.inputArtifactRefs[s]
Inputs(d, s) == {Refs(d, s)[i] : i \in DOMAIN Refs(d, s)}

\* How often stage s names artifact a, and how many stages name it at all.
Mentions(d, s, a) == Cardinality({i \in DOMAIN Refs(d, s) : Refs(d, s)[i] = a})
Consumers(d, a) == {s \in Stages : a \in Inputs(d, s)}

Produced(d) == d.inputArtifacts \cup {d.outputArtifactRef[s] : s \in Stages}

\* Mutant: a stage that waits for itself is not seen as a cycle.
AcyclicButSelf(d) ==
  \A S \in (SUBSET Stages) \ {{}} :
    \E s \in S : d.dependencies[s] \cap (S \ {s}) = {}

\* What detectCycles decides: every set of stages has one that waits for none
\* of the others.
Acyclic(d) ==
  \A S \in (SUBSET Stages) \ {{}} : \E s \in S : d.dependencies[s] \cap S = {}

\* An artifact may come from any stage, upstream or not.
Valid(d) ==
  /\ \A s \in Stages : Inputs(d, s) \subseteq Produced(d)
  /\ Acyclic(d)
  /\ d.outputArtifactRefs \subseteq Produced(d)

-----------------------------------------------------------------------------

Init ==
  /\ dag = NoDag
  /\ cancelled = FALSE
  /\ stage = [s \in Stages |-> NoStage]
  /\ artifact = [a \in Artifacts |-> NoArtifact]
  /\ handed = {}
  /\ failures = {}

\* The references of an input are counted per mention; nothing reads them.
InputArtifact(d, a) ==
  [origin |-> "input",
   refs   |-> Cardinality(UNION {{<<s, i>> : i \in {j \in DOMAIN Refs(d, s) :
                                  Refs(d, s)[j] = a}} : s \in Stages}),
   freed  |-> FALSE]

RegisterDag(d) ==
  /\ dag = NoDag
  /\ Valid(d)
  /\ dag' = d
  /\ artifact' = [a \in Artifacts |->
       IF a \in d.inputArtifacts THEN InputArtifact(d, a) ELSE NoArtifact]
  /\ stage' = [s \in Stages |-> [NoStage EXCEPT !.status =
       IF d.dependencies[s] = {} THEN "READY" ELSE "PENDING"]]
  /\ UNCHANGED <<cancelled, handed, failures>>

AssignStage(s, w) ==
  /\ ~cancelled
  /\ stage[s].status = "READY"
  /\ stage' = [stage EXCEPT ![s] =
       [status |-> "RUNNING", worker |-> w, attempt |-> stage[s].attempt + 1]]
  /\ handed' = handed \cup {<<s, w, stage[s].attempt + 1>>}
  /\ UNCHANGED <<dag, cancelled, artifact, failures>>

\* Mutant: a completed stage is completed again by a repeated report.
AcceptedTwice(s, w, k) ==
  /\ stage[s].worker \in {NoWorker, w}
  /\ stage[s].attempt = k

\* Cancellation is not looked at, nor that the stage is running.
Accepted(s, w, k) ==
  /\ stage[s].status # "COMPLETED"
  /\ stage[s].worker \in {NoWorker, w}
  /\ stage[s].attempt = k

\* The output is stored with one reference per consuming stage.
Stored(s) ==
  [artifact EXCEPT ![dag.outputArtifactRef[s]] =
     [origin |-> "stage",
      refs   |-> Cardinality(Consumers(dag, dag.outputArtifactRef[s])),
      freed  |-> FALSE]]

\* Mutant: the buffer goes when one reference is left.
ConsumedEarly(art, n) ==
  IF art.origin = "stage" /\ n > 0
  THEN LET left == IF art.refs <= n THEN 0 ELSE art.refs - n
       IN [origin |-> "stage", refs |-> left, freed |-> art.freed \/ left <= 1]
  ELSE art

\* Mutant: the count is tested before it is decremented.
ConsumedLate(art, n) ==
  IF art.origin = "stage" /\ n > 0
  THEN LET left == IF art.refs <= n THEN 0 ELSE art.refs - n
       IN [origin |-> "stage", refs |-> left, freed |-> art.freed \/ art.refs = 0]
  ELSE art

\* Each mention among the inputs gives one reference back; at zero the buffer
\* goes.  The inputs of the DAG itself are kept.
Consumed(art, n) ==
  IF art.origin = "stage" /\ n > 0
  THEN LET left == IF art.refs <= n THEN 0 ELSE art.refs - n
       IN [origin |-> "stage", refs |-> left, freed |-> art.freed \/ left = 0]
  ELSE art

\* Mutant: a stage is ready as soon as one of its parents is completed.
PromotedByOne(s) ==
  [t \in Stages |->
     IF t = s THEN [status |-> "COMPLETED", worker |-> stage[s].worker,
                    attempt |-> stage[s].attempt]
     ELSE IF stage[t].status = "PENDING" /\ s \in dag.dependencies[t]
     THEN [status |-> "READY", worker |-> stage[t].worker,
           attempt |-> stage[t].attempt]
     ELSE stage[t]]

Promoted(s) ==
  [t \in Stages |->
     IF t = s THEN [status |-> "COMPLETED", worker |-> stage[s].worker,
                    attempt |-> stage[s].attempt]
     ELSE IF /\ stage[t].status = "PENDING"
             /\ \A p \in dag.dependencies[t] :
                  p = s \/ stage[p].status = "COMPLETED"
     THEN [status |-> "READY", worker |-> stage[t].worker,
           attempt |-> stage[t].attempt]
     ELSE stage[t]]

CompleteStage(s, w, k) ==
  /\ <<s, w, k>> \in handed
  /\ Accepted(s, w, k)
  /\ artifact' = [a \in Artifacts |-> Consumed(Stored(s)[a], Mentions(dag, s, a))]
  /\ stage' = Promoted(s)
  /\ UNCHANGED <<dag, cancelled, handed, failures>>

\* Neither the worker nor the attempt of the report is compared.
FailStage(s, w, k) ==
  /\ <<s, w, k>> \in handed
  /\ stage[s].status # "COMPLETED"
  /\ stage' = [stage EXCEPT ![s] =
       IF stage[s].attempt < MaxAttempts
       THEN [status |-> "READY", worker |-> NoWorker, attempt |-> stage[s].attempt]
       ELSE [status |-> "FAILED", worker |-> stage[s].worker,
             attempt |-> stage[s].attempt]]
  /\ failures' = failures \cup {<<s, k>>}
  /\ UNCHANGED <<dag, cancelled, artifact, handed>>

CancelDag ==
  /\ dag # NoDag
  /\ cancelled' = TRUE
  /\ stage' = [s \in Stages |->
       IF stage[s].status \in {"PENDING", "READY", "RUNNING"}
       THEN [status |-> "CANCELLED", worker |-> stage[s].worker,
             attempt |-> stage[s].attempt]
       ELSE stage[s]]
  /\ artifact' = [a \in Artifacts |->
       IF artifact[a].origin = "absent" THEN artifact[a]
       ELSE [origin |-> artifact[a].origin, refs |-> artifact[a].refs, freed |-> TRUE]]
  /\ UNCHANGED <<dag, handed, failures>>

Next ==
  \/ \E d \in Descriptors : RegisterDag(d)
  \/ \E s \in Stages, w \in Workers : AssignStage(s, w)
  \/ \E s \in Stages, w \in Workers, k \in 1 .. MaxAttempts :
       CompleteStage(s, w, k) \/ FailStage(s, w, k)
  \/ CancelDag

Spec == Init /\ [][Next]_vars

-----------------------------------------------------------------------------

Registered == dag # NoDag
Live == Registered /\ ~cancelled
Done(s) == stage[s].status = "COMPLETED"

\* A descriptor with nothing odd about its artifacts: each stage has an output
\* of its own, names no input twice, and takes it from a stage it waits for.
WellFormed(d) ==
  /\ \A s, t \in Stages : d.outputArtifactRef[s] = d.outputArtifactRef[t] => s = t
  /\ \A s \in Stages : d.outputArtifactRef[s] \notin d.inputArtifacts
  /\ \A s \in Stages, a \in Artifacts : Mentions(d, s, a) \in {0, 1}
  /\ \A s, t \in Stages :
       d.outputArtifactRef[t] \in Inputs(d, s) => t \in d.dependencies[s]

\* Every variable has its type; no attempt number exceeds maxStageAttempts,
\* whatever reports of failed attempts come late or twice (failStage).
TypeOK ==
  /\ dag \in Descriptors \cup {NoDag}
  /\ cancelled \in BOOLEAN
  /\ stage \in [Stages -> Stage]
  /\ artifact \in [Artifacts -> Artifact]
  /\ handed \subseteq Stages \X Workers \X (1 .. MaxAttempts)
  /\ failures \subseteq Stages \X (1 .. MaxAttempts)

\* No stage runs, has run or may be assigned before every stage it depends on
\* is completed, although failStage makes a stage READY whatever it was before
\* (completeStage's promotion, failStage).
DependenciesFirst ==
  \A s \in Stages :
    \/ stage[s].status \in {"READY", "RUNNING", "COMPLETED", "FAILED"}
    \/ \E w \in Workers, k \in 1 .. MaxAttempts : <<s, w, k>> \in handed
    => \A p \in dag.dependencies[s] : Done(p)

\* A DAG that is neither cancelled, nor completed, nor has a failed stage has a
\* stage to assign or to wait for: no promotion is ever missed and no cycle gets
\* past validateDag (completeStage, detectCycles).
NeverStuck ==
  Live /\ (\A s \in Stages : stage[s].status # "FAILED") /\ (\E s \in Stages : ~Done(s))
    => \E s \in Stages : stage[s].status \in {"READY", "RUNNING"}

\* What a stage may be assigned with is there: in a well-formed DAG each input
\* of a stage that is ready or running has a buffer, however often the stage or
\* another consumer was retried (completeStage's reference counts).
InputsHeld ==
  Live /\ WellFormed(dag) =>
    \A s \in Stages : stage[s].status \in {"READY", "RUNNING"} =>
      \A a \in Inputs(dag, s) : artifact[a].origin # "absent" /\ ~artifact[a].freed

\* In a well-formed DAG the buffer of a stage's output is freed exactly when it
\* has consumers and all of them are completed: neither early nor never
\* (completeStage's reference counts).
FreedWhenConsumed ==
  Live /\ WellFormed(dag) =>
    \A a \in Artifacts : artifact[a].origin = "stage" =>
      (artifact[a].freed <=>
         Consumers(dag, a) # {} /\ \A s \in Consumers(dag, a) : Done(s))

\* A completed stage stays completed by the worker and the attempt that
\* completed it, and no later report gives its output new references or its
\* buffer back (completeStage, failStage, cancelDag).
CompletedOnce ==
  [][/\ \A s \in Stages : Done(s) => stage'[s] = stage[s]
     /\ Registered /\ WellFormed(dag) =>
          \A a \in Artifacts : artifact[a].origin = "stage" =>
            /\ artifact'[a].refs <= artifact[a].refs
            /\ artifact[a].freed => artifact'[a].freed]_vars

-----------------------------------------------------------------------------
\* CLAIM of the class comment: a stage is given up after each of its attempts was
\* reported as failed ("handles failure recovery", :32).
FailedAfterItsAttempts ==
  \A s \in Stages : stage[s].status = "FAILED" =>
    \A k \in 1 .. MaxAttempts : <<s, k>> \in failures

=============================================================================
