------------------------- MODULE OnnxBackendProofs -------------------------
(***************************************************************************)
(* The invariants of OnnxBackend, for every set of models, chunks and      *)
(* replies and any number of calls.  The metadata invariant is inductive   *)
(* as it stands, since it also says how far inspection has come; the       *)
(* counts need the type invariant, and what process returns needs the      *)
(* metadata.                                                               *)
(***************************************************************************)
EXTENDS OnnxBackend, TLAPS

\* Every variable keeps its type, and the loop of a warm-up ends: each action.
THEOREM TypeCorrect == Spec => []TypeOK
<1>1. Init => TypeOK
  <2> SUFFICES ASSUME Init PROVE TypeOK
    OBVIOUS
  <2>1. calls \in 0 .. MaxCalls /\ step = "idle" /\ ~InProcess
    BY CountAssumption DEF Init, InProcess
  <2>2. modelLoaded \in BOOLEAN /\ session \in Models \cup {NoModel} /\ model \in Models \cup {NoModel}
    BY DEF Init
  <2>3. processedChunks \in Nat /\ warmupRuns \in Nat /\ runsLeft \in Nat /\ runCount \in Nat
    BY DEF Init
  <2> QED
    BY <2>1, <2>2, <2>3 DEF Init, TypeOK
<1>2. TypeOK /\ [Next]_vars => TypeOK'
  <2> SUFFICES ASSUME TypeOK, [Next]_vars PROVE TypeOK'
    OBVIOUS
  <2> USE CountAssumption DEF TypeOK, InProcess, LoadSteps
  <2>1. CASE LoadEmptyPath
    BY <2>1 DEF LoadEmptyPath, NewCall, Returns, stats, loop
  <2>2. ASSUME NEW m \in Models, Load(m) PROVE TypeOK'
    <3>1. calls' \in 0 .. MaxCalls
      BY <2>2 DEF Load, NewCall
    <3>2. step' = "create" /\ ~InProcess' /\ UNCHANGED <<session, loop, result>>
      BY <2>2 DEF Load
    <3>3. model' \in Models \cup {NoModel} /\ modelLoaded' \in BOOLEAN
      BY <2>2 DEF Load
    <3>4. processedChunks' \in Nat /\ warmupRuns' \in Nat
      BY <2>2 DEF Load
    <3> QED
      BY <3>1, <3>2, <3>3, <3>4 DEF loop
  <2>3. CASE CreateSession
    BY <2>3 DEF CreateSession, stats, loop
  <2>4. CASE InspectNames \/ InspectInput \/ InspectOutput
    BY <2>4 DEF InspectNames, InspectInput, InspectOutput, stats, loop
  <2>5. CASE FinishLoad
    BY <2>5 DEF FinishLoad, Returns, loop
  <2>6. CASE LoadFails
    BY <2>6 DEF LoadFails, Returns, ResetMetadata, loop
  <2>7. ASSUME NEW c \in Chunks, Process(c) PROVE TypeOK'
    BY <2>7 DEF Process, NewCall, stats
  <2>8. ASSUME NEW c \in Chunks, NEW n \in Iterations, WarmUp(c, n) PROVE TypeOK'
    BY <2>8 DEF WarmUp, NewCall, stats
  <2>9. CASE FillTensor
    BY <2>9 DEF FillTensor, stats, loop
  <2>10. ASSUME NEW dims \in ReplyDims, Run(dims) PROVE TypeOK'
    BY <2>10 DEF Run, stats, loop
  <2>11. CASE TakeReply
    BY <2>11 DEF TakeReply, loop
  <2>12. CASE ProcessFails \/ OutputThrows
    BY <2>12 DEF ProcessFails, OutputThrows, Returns, stats, loop
  <2>13. CASE NextRun
    BY <2>13 DEF NextRun, stats
  <2>14. CASE Finish
    BY <2>14 DEF Finish, Returns, loop
  <2>15. CASE UNCHANGED vars
    BY <2>15 DEF vars, stats, loop
  <2> QED
    BY <2>1, <2>2, <2>3, <2>4, <2>5, <2>6, <2>7, <2>8, <2>9, <2>10, <2>11, <2>12, <2>13, <2>14,
       <2>15 DEF Next
<1> QED
  BY <1>1, <1>2, PTL DEF Spec

\* Outside loadModel there is a whole model or none: each step of inspection adds what
\* it read, and the three ways out of a failed load take all of it back.
LEMMA MetadataStep ==
  MetadataAreOfSession /\ [Next]_vars => MetadataAreOfSession'
<1> SUFFICES ASSUME MetadataAreOfSession, [Next]_vars PROVE MetadataAreOfSession'
  OBVIOUS
<1> USE NoModelAssumption DEF MetadataAreOfSession, LoadSteps
<1>1. CASE LoadEmptyPath
  BY <1>1 DEF LoadEmptyPath, NewCall, Returns, metadata, stats, MetadataAreOf, NoMetadata, EmptyTensor
<1>2. ASSUME NEW m \in Models, Load(m) PROVE MetadataAreOfSession'
  BY <1>2 DEF Load, NewCall, ResetMetadata
<1>3. CASE CreateSession
  BY <1>3 DEF CreateSession, metadata, stats
<1>4. CASE InspectNames
  BY <1>4 DEF InspectNames, stats
<1>5. CASE InspectInput
  BY <1>5 DEF InspectInput, stats
<1>6. CASE InspectOutput
  BY <1>6 DEF InspectOutput, stats
<1>7. CASE FinishLoad
  <2>1. session # NoModel /\ IsAccepted(session)
    BY <1>7 DEF FinishLoad, IsAccepted
  <2>2. MetadataAreOf(session)'
    BY <1>7 DEF FinishLoad, MetadataAreOf
  <2> QED
    BY <1>7, <2>1, <2>2 DEF FinishLoad, Returns
<1>8. CASE LoadFails
  BY <1>8 DEF LoadFails, Returns, ResetMetadata, NoMetadata
<1>9. ASSUME NEW c \in Chunks, Process(c) PROVE MetadataAreOfSession'
  BY <1>9 DEF Process, NewCall, metadata, stats, MetadataAreOf, NoMetadata
<1>10. ASSUME NEW c \in Chunks, NEW n \in Iterations, WarmUp(c, n) PROVE MetadataAreOfSession'
  BY <1>10 DEF WarmUp, NewCall, metadata, stats, MetadataAreOf, NoMetadata
<1>11. CASE FillTensor
  BY <1>11 DEF FillTensor, stats, MetadataAreOf, NoMetadata
<1>12. ASSUME NEW dims \in ReplyDims, Run(dims) PROVE MetadataAreOfSession'
  BY <1>12 DEF Run, metadata, stats, MetadataAreOf, NoMetadata
<1>13. CASE TakeReply
  BY <1>13 DEF TakeReply, metadata, MetadataAreOf, NoMetadata
<1>14. CASE ProcessFails \/ OutputThrows
  <2>1. /\ step \in {"check", "run", "reply"} /\ step' = "idle"
        /\ UNCHANGED <<session, metadata, modelLoaded>>
    BY <1>14 DEF ProcessFails, OutputThrows, Returns, stats
  <2> QED
    BY <2>1 DEF metadata, MetadataAreOf, NoMetadata
<1>15. CASE NextRun
  BY <1>15 DEF NextRun, metadata, stats, MetadataAreOf, NoMetadata
<1>16. CASE Finish
  BY <1>16 DEF Finish, Returns, metadata, MetadataAreOf, NoMetadata
<1>17. CASE UNCHANGED vars
  BY <1>17 DEF vars, metadata, stats, MetadataAreOf, NoMetadata
<1> QED
  BY <1>1, <1>2, <1>3, <1>4, <1>5, <1>6, <1>7, <1>8, <1>9, <1>10, <1>11, <1>12, <1>13, <1>14,
     <1>15, <1>16, <1>17 DEF Next

\* The backend is loaded, with a session and the metadata of its model, or it is not
\* loaded and has neither, wherever a load failed.
THEOREM MetadataCorrect == Spec => []MetadataAreOfSession
<1>1. Init => MetadataAreOfSession
  BY DEF Init, MetadataAreOfSession, LoadSteps, NoMetadata
<1> QED
  BY <1>1, MetadataStep, PTL DEF Spec

\* The counts are those of the loaded model, and warm-up runs are processed chunks.
\* A process that is under way has a session, so only a loaded backend counts.
THEOREM CountsCorrect == Spec => []CountsAreOfModel
<1>1. Init => CountsAreOfModel
  BY DEF Init, CountsAreOfModel, RunsDone, InProcess
<1>2. TypeOK /\ MetadataAreOfSession /\ CountsAreOfModel /\ [Next]_vars => CountsAreOfModel'
  <2> SUFFICES ASSUME TypeOK, MetadataAreOfSession, CountsAreOfModel, [Next]_vars
               PROVE  CountsAreOfModel'
    OBVIOUS
  <2>0. /\ processedChunks \in Nat /\ warmupRuns \in Nat /\ runsLeft \in Nat /\ runCount \in Nat
        /\ InProcess => runsLeft > 0 /\ (runCount = 0 \/ runsLeft <= runCount)
        /\ step \in {"run", "reply", "processed"} => modelLoaded
    BY DEF TypeOK, MetadataAreOfSession
  <2> USE <2>0 DEF CountsAreOfModel, RunsDone, InProcess
  <2>1. CASE LoadEmptyPath
    BY <2>1 DEF LoadEmptyPath, NewCall, Returns, stats, loop
  <2>2. ASSUME NEW m \in Models, Load(m) PROVE CountsAreOfModel'
    BY <2>2 DEF Load, NewCall, loop
  <2>3. CASE CreateSession \/ InspectNames \/ InspectInput \/ InspectOutput
    BY <2>3 DEF CreateSession, InspectNames, InspectInput, InspectOutput, stats, loop
  <2>4. CASE FinishLoad
    BY <2>4 DEF FinishLoad, Returns, loop
  <2>5. CASE LoadFails
    <3>1. ~modelLoaded
      BY <2>5 DEF LoadFails, MetadataAreOfSession
    <3> QED
      BY <2>5, <3>1 DEF LoadFails, Returns, loop
  <2>6. ASSUME NEW c \in Chunks, Process(c) PROVE CountsAreOfModel'
    BY <2>6 DEF Process, NewCall, stats
  <2>7. ASSUME NEW c \in Chunks, NEW n \in Iterations, WarmUp(c, n) PROVE CountsAreOfModel'
    BY <2>7, CountAssumption DEF WarmUp, NewCall, stats
  <2>8. CASE FillTensor
    BY <2>8 DEF FillTensor, stats, loop
  <2>9. ASSUME NEW dims \in ReplyDims, Run(dims) PROVE CountsAreOfModel'
    BY <2>9 DEF Run, stats, loop
  <2>10. CASE TakeReply
    BY <2>10 DEF TakeReply, loop
  <2>11. CASE ProcessFails \/ OutputThrows
    BY <2>11 DEF ProcessFails, OutputThrows, Returns, stats, loop
  <2>12. CASE NextRun
    BY <2>12 DEF NextRun, stats
  <2>13. CASE Finish
    BY <2>13 DEF Finish, Returns, loop
  <2>14. CASE UNCHANGED vars
    BY <2>14 DEF vars, stats, loop
  <2> QED
    BY <2>1, <2>2, <2>3, <2>4, <2>5, <2>6, <2>7, <2>8, <2>9, <2>10, <2>11, <2>12, <2>13, <2>14
       DEF Next
<1> QED
  BY <1>1, <1>2, TypeCorrect, MetadataCorrect, PTL DEF Spec

\* What is run is this call's chunk, and what is returned is made from it, in the shapes
\* of the loaded model: the metadata that shape the tensor are those of the session.
THEOREM OutputCorrect == Spec => []OutputIsOfInput
<1>1. Init => OutputIsOfInput
  BY DEF Init, OutputIsOfInput
<1>2. MetadataAreOfSession /\ OutputIsOfInput /\ [Next]_vars => OutputIsOfInput'
  <2> SUFFICES ASSUME MetadataAreOfSession, OutputIsOfInput, [Next]_vars
               PROVE  OutputIsOfInput'
    OBVIOUS
  <2> USE DEF OutputIsOfInput
  <2>1. CASE LoadEmptyPath
    BY <2>1 DEF LoadEmptyPath, Returns
  <2>2. ASSUME NEW m \in Models, Load(m) PROVE OutputIsOfInput'
    BY <2>2 DEF Load
  <2>3. CASE CreateSession \/ InspectNames \/ InspectInput \/ InspectOutput
    BY <2>3 DEF CreateSession, InspectNames, InspectInput, InspectOutput
  <2>4. CASE FinishLoad \/ LoadFails
    BY <2>4 DEF FinishLoad, LoadFails, Returns
  <2>5. ASSUME NEW c \in Chunks, Process(c) PROVE OutputIsOfInput'
    BY <2>5 DEF Process
  <2>6. ASSUME NEW c \in Chunks, NEW n \in Iterations, WarmUp(c, n) PROVE OutputIsOfInput'
    BY <2>6 DEF WarmUp
  <2>7. CASE FillTensor
    <3>1. inputShape = StaticShape(session.in)
      BY <2>7 DEF FillTensor, MetadataAreOfSession, MetadataAreOf, LoadSteps
    <3> QED
      BY <2>7, <3>1 DEF FillTensor
  <2>8. ASSUME NEW dims \in ReplyDims, Run(dims) PROVE OutputIsOfInput'
    BY <2>8 DEF Run, metadata
  <2>9. CASE TakeReply
    <3>1. outputShape = StaticShape(session.out)
      BY <2>9 DEF TakeReply, MetadataAreOfSession, MetadataAreOf, LoadSteps
    <3> QED
      BY <2>9, <3>1 DEF TakeReply, WriteOutput, metadata
  <2>10. CASE ProcessFails \/ OutputThrows
    BY <2>10 DEF ProcessFails, OutputThrows, Returns
  <2>11. CASE NextRun
    BY <2>11 DEF NextRun
  <2>12. CASE Finish
    BY <2>12 DEF Finish, Returns
  <2>13. CASE UNCHANGED vars
    BY <2>13 DEF vars, metadata
  <2> QED
    BY <2>1, <2>2, <2>3, <2>4, <2>5, <2>6, <2>7, <2>8, <2>9, <2>10, <2>11, <2>12, <2>13 DEF Next
<1> QED
  BY <1>1, <1>2, MetadataCorrect, PTL DEF Spec
=============================================================================
