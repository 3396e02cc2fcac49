--------------------------- MODULE XFileLogProofs ---------------------------
(***************************************************************************)
(* Proofs about the file logger (XFileLog).  With os.OpenFile succeeding,  *)
(* the handles the logging goroutines read are open and not yet handed to  *)
(* delayClose until the program closes the logger.  The argument: ReOpen   *)
(* opens handles numbered from nextH, above every handle in open or        *)
(* delayed, so the fresh pair is neither; only Close cancels the spliter,  *)
(* so the spliter's deferred Close never nils the handles before the       *)
(* program's Close.                                                        *)
(***************************************************************************)
EXTENDS XFileLog, TLAPS

\* clean only removes rotated files.
LEMMA CleanSubset == \A fs : Clean(fs) \subseteq fs
BY DEF Clean

\* The rotated files rename adds are of the kinds and hours of the model.
LEMMA RemoveFileType ==
    ASSUME NEW k \in Kinds, NEW hr \in Hours
    PROVE  RemoveFile(k, hr) \subseteq Rotated
BY DEF RemoveFile, Rotated

LEMMA LogInvInit == Init => LogInv
<1>. USE XFileLogAssumption
<1> SUFFICES ASSUME Init PROVE LogInv
  OBVIOUS
<1>1. MaxHandles \in Nat /\ MaxHandles >= 2 /\ MaxHour \in Nat
  OBVIOUS
<1>2. /\ file \in Handles \cup {Nil} /\ errFile \in Handles \cup {Nil}
      /\ open \subseteq Handles /\ delayed \subseteq Handles
      /\ nextH \in 1 .. MaxHandles + 1
  BY <1>1 DEF Init, Handles
<1>3. preHour \in Hours /\ now \in Hours
  BY <1>1 DEF Init, Hours
<1>4. wr \in [Writers -> WriterState]
  BY DEF Init, WriterState, Kinds, Nil, Handles
<1>5. active \in [Kinds -> BOOLEAN] /\ rotated \subseteq Rotated
  BY DEF Init
<1>6. LogTypeOK
  BY <1>2, <1>3, <1>4, <1>5 DEF Init, LogTypeOK
<1>. QED
  BY <1>6, <1>1 DEF Init, LogInv, CurrentHandlesLive, Handles

\* Every step keeps LogInv when os.OpenFile cannot fail.
LEMMA LogInvStep ==
    ASSUME ~OpenMayFail, LogInv, [Next]_logVars
    PROVE  LogInv'
<1>. USE XFileLogAssumption
<1>0. OpenOutcomes = {TRUE}
  BY DEF OpenOutcomes
<1>t. LogTypeOK
  BY DEF LogInv
<1>1. CASE ClockTick
  BY <1>1, <1>t DEF ClockTick, LogInv, LogTypeOK, Hours, CurrentHandlesLive
<1>2. CASE SpliterTick
  <2>1. rotated' \subseteq Rotated
    BY <1>2, <1>t, CleanSubset DEF SpliterTick, LogTypeOK
  <2>. QED
    BY <1>2, <1>t, <2>1 DEF SpliterTick, LogInv, LogTypeOK, CurrentHandlesLive
<1>3. CASE Rename
  <2>1. ReOpen(TRUE, TRUE)
    BY <1>0, <1>3 DEF Rename
  <2>2. /\ delayed' = delayed \cup ({file, errFile} \ {Nil})
        /\ file' = nextH /\ errFile' = nextH + 1
        /\ open' = open \cup {nextH, nextH + 1}
        /\ nextH' = nextH + 2
    BY <2>1 DEF ReOpen
  <2>3. nextH + 1 <= MaxHandles /\ nextH \in Nat
    BY <1>3, <1>t DEF Rename, LogTypeOK
  <2>4. rotated' \subseteq Rotated
    <3>1. Clean(rotated) \subseteq Rotated
      BY <1>t, CleanSubset DEF LogTypeOK
    <3>2. preHour \in Hours
      BY <1>t DEF LogTypeOK
    <3>3. UNION {RemoveFile(k, preHour) : k \in Kinds} \subseteq Rotated
      BY <3>2, RemoveFileType
    <3>. QED
      BY <1>3, <3>1, <3>3 DEF Rename
  <2>5. active' \in [Kinds -> BOOLEAN]
    BY <1>3, <1>t DEF Rename, LogTypeOK, RemoveFileKeeps
  <2>6. LogTypeOK'
    BY <1>3, <1>t, <2>2, <2>3, <2>4, <2>5 DEF Rename, LogTypeOK, Handles, Nil, Hours
  <2>7. (\A h \in open \cup delayed \cup ({file, errFile} \ {Nil}) : h < nextH)'
    BY <2>2, <2>3, <1>t DEF LogInv, LogTypeOK, Handles, Nil
  <2>8. CurrentHandlesLive'
    <3>1. /\ nextH \notin open \cup delayed \cup ({file, errFile} \ {Nil})
          /\ nextH + 1 \notin open \cup delayed \cup ({file, errFile} \ {Nil})
      BY <2>3, <1>t DEF LogInv, LogTypeOK, Handles, Nil
    <3>. QED
      BY <1>3, <2>2, <3>1 DEF Rename, CurrentHandlesLive
  <2>. QED
    BY <1>3, <2>6, <2>7, <2>8 DEF Rename, LogInv
<1>4. CASE LoggerClose
  BY <1>4, <1>t DEF LoggerClose, CloseHandles, LogInv, LogTypeOK, CurrentHandlesLive, Handles, Nil
<1>5. CASE SpliterExit
  <2>1. closeCalled
    BY <1>5 DEF SpliterExit, LogInv
  <2>. QED
    BY <1>5, <1>t, <2>1 DEF SpliterExit, CloseHandles, LogInv, LogTypeOK, CurrentHandlesLive, Handles, Nil
<1>6. ASSUME NEW h \in Handles, DelayClose(h) PROVE LogInv'
  <2>1. h \notin {file, errFile} \/ closeCalled
    BY <1>6 DEF DelayClose, LogInv, CurrentHandlesLive
  <2>. QED
    BY <1>6, <1>t, <2>1 DEF DelayClose, LogInv, LogTypeOK, CurrentHandlesLive
<1>7. ASSUME NEW w \in Writers, WriteStart(w) PROVE LogInv'
  <2>1. wr' \in [Writers -> WriterState]
    BY <1>7, <1>t DEF WriteStart, LogTypeOK, WriterState, Kinds
  <2>. QED
    BY <1>7, <1>t, <2>1 DEF WriteStart, LogInv, LogTypeOK, CurrentHandlesLive
<1>8. ASSUME NEW w \in Writers, WriteDone(w) PROVE LogInv'
  <2>1. wr' \in [Writers -> WriterState] /\ active' \in [Kinds -> BOOLEAN]
    BY <1>8, <1>t DEF WriteDone, LogTypeOK, WriterState, Kinds, Nil
  <2>. QED
    BY <1>8, <1>t, <2>1 DEF WriteDone, LogInv, LogTypeOK, CurrentHandlesLive
<1>9. CASE UNCHANGED logVars
  BY <1>9 DEF logVars, LogInv, LogTypeOK, CurrentHandlesLive
<1>. QED
  BY <1>1, <1>2, <1>3, <1>4, <1>5, <1>6, <1>7, <1>8, <1>9 DEF Next

\* With os.OpenFile succeeding, every state the logger reaches satisfies
\* LogInv, for any number of writers, handles, hours and keep counts.
THEOREM LogInvHolds == ~OpenMayFail => (Spec => []LogInv)
<1> SUFFICES ASSUME ~OpenMayFail PROVE Spec => []LogInv
  OBVIOUS
<1>1. LogInv /\ [Next]_logVars => LogInv'
  BY LogInvStep
<1>. QED
  BY LogInvInit, <1>1, PTL DEF Spec

\* Until the program closes the logger, a rotation never leaves Warn or
\* Notice writing to nil or to a handle delayClose is about to close,
\* provided os.OpenFile succeeds (ReOpen with a failed open breaks it).
THEOREM CurrentHandlesLiveHolds == ~OpenMayFail => (Spec => []CurrentHandlesLive)
<1> SUFFICES ASSUME ~OpenMayFail PROVE Spec => []CurrentHandlesLive
  OBVIOUS
<1>1. LogInv => CurrentHandlesLive
  BY DEF LogInv
<1>. QED
  BY LogInvHolds, <1>1, PTL

\* Every state the logger reaches is well typed.
THEOREM LogTypeCorrect == ~OpenMayFail => (Spec => []LogTypeOK)
<1> SUFFICES ASSUME ~OpenMayFail PROVE Spec => []LogTypeOK
  OBVIOUS
<1>1. LogInv => LogTypeOK
  BY DEF LogInv
<1>. QED
  BY LogInvHolds, <1>1, PTL
=============================================================================
