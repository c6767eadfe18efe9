--------------------------- MODULE Fake6502Proofs ---------------------------
(***************************************************************************)
(* Theorems about the target: it uses the remote API as RemoteConnection   *)
(* says a target may, so that what is proved of the API holds for it; and  *)
(* the stopped CPU executes one instruction for each Step it is told.      *)
(***************************************************************************)
EXTENDS Fake6502, RemoteConnectionProofs

-----------------------------------------------------------------------------
(* The target is one that RemoteConnection allows.                          *)

\* The reply of the plugin has one of the sizes a plugin may reply.
LEMMA ReplySizes == StateReply \in ReplySize \union {0}
  BY CpuAssumption DEF StateReply

LEMMA StepImplements == CpuNext => [Next]_vars
<1> SUFFICES ASSUME CpuNext PROVE [Next]_vars
  OBVIOUS
<1>1. CASE Execute
  BY <1>1 DEF Execute, CallRunning, SkipUpdate, StepOn, EnterLoop, LeaveLoop, TraceInLoop,
              CallInLoop, Next
<1>2. CASE DoAction
  BY <1>2, ReplySizes DEF DoAction, Next
<1>3. CASE Transfer \/ Network
  BY <1>3 DEF Next
<1> QED  BY <1>1, <1>2, <1>3 DEF CpuNext, Target

\* The CPU with its plugin is an implementation of the remote API over any plugin: each of its
\* steps is a step of PDRemote_update, of the network, or leaves both alone.
THEOREM ImplementsRemote == CpuSpec => Spec
<1>1. CpuInit => Init
  BY DEF CpuInit
<1>2. [CpuNext]_cpuVars => [Next]_vars
  BY StepImplements DEF cpuVars
<1> QED  BY <1>1, <1>2, PTL DEF CpuSpec, Spec

\* So the commands the CPU obeys are those its clients sent, whole and in order, while no recv
\* on the connection came back short.
THEOREM CpuCallsInOrder == CpuSpec => []CommandsInOrder
  BY ImplementsRemote, CallsInOrder, PTL

-----------------------------------------------------------------------------
(* One instruction for each Step.                                           *)

\* A call that has not reached the plugin yet was made by a CPU that is stopped, when it was
\* made in the loop.
CalledStopped == at = "loop" /\ pc \in {"stream", "plugin"} => runState = "StopException"

CpuIInv == CpuTypeOK /\ OneInstructionPerStep /\ CalledStopped

LEMMA InitCpuIInv == CpuInit => CpuIInv
  BY CpuAssumption DEF CpuInit, Init, CpuIInv, CpuTypeOK, OneInstructionPerStep, CalledStopped

\* The counter is masked.
LEMMA ExecutedTypes ==
    ASSUME CpuTypeOK, Executed
    PROVE  instructions' \in 0..(CheckEvery - 1)
<1>1. CheckEvery \in Nat /\ CheckEvery > 0 /\ instructions + 1 \in Nat
  BY CpuAssumption DEF CpuTypeOK
<1>2. (instructions + 1) % CheckEvery \in 0..(CheckEvery - 1)
  BY <1>1
<1> QED  BY <1>2 DEF Executed

LEMMA NextCpuIInv == CpuIInv /\ [CpuNext]_cpuVars => CpuIInv'
<1> SUFFICES ASSUME CpuIInv, [CpuNext]_cpuVars PROVE CpuIInv'
  OBVIOUS
<1> USE DEF CpuIInv, CpuTypeOK, OneInstructionPerStep, CalledStopped
<1>1. CASE CallRunning
  BY <1>1 DEF CallRunning
<1>2. CASE SkipUpdate
  BY <1>2 DEF SkipUpdate
<1>3. CASE StepOn
  <2>1. instructions' \in 0..(CheckEvery - 1)
    BY <1>3, ExecutedTypes DEF StepOn
  <2> QED  BY <1>3, <2>1 DEF StepOn
<1>4. CASE EnterLoop
  BY <1>4 DEF EnterLoop, vars, update
<1>5. CASE LeaveLoop
  BY <1>5 DEF LeaveLoop
<1>6. CASE TraceInLoop
  <2>1. instructions' \in 0..(CheckEvery - 1)
    BY <1>6, ExecutedTypes DEF TraceInLoop
  <2>2. owed = 1 /\ owed' = 0
    BY <1>6 DEF TraceInLoop
  <2> QED  BY <1>6, <2>1, <2>2 DEF TraceInLoop
<1>7. CASE CallInLoop
  BY <1>7 DEF CallInLoop, cpu
<1>8. CASE DoAction
  <2>1. pc = "plugin" /\ pc' \in {"idle", "send"}
    BY <1>8 DEF DoAction, PluginUpdate
  <2>2. at' = at /\ instructions' = instructions /\ runState' = NextState
        /\ owed' = IF Commanded = Step /\ at = "loop" THEN owed + 1 ELSE owed
    BY <1>8 DEF DoAction
  <2>3. NextState \in {"Running", "StopException", "Trace"}
    BY DEF NextState
  <2>4. at = "loop" => owed = 0 /\ (NextState = "Trace" <=> Commanded = Step)
    BY <2>1 DEF NextState, Break, Run, Step
  <2> QED  BY <2>1, <2>2, <2>3, <2>4
<1>9. CASE Transfer /\ UNCHANGED cpu
  <2>1. pc' \in {"stream", "plugin"} => pc = "stream"
    BY <1>9 DEF Transfer, RecvBlock, RecvLost, SendBlock, SendFails
  <2> QED  BY <1>9, <2>1 DEF cpu
<1>10. CASE Network /\ UNCHANGED cpu
  <2>1. pc' = pc
    BY <1>10 DEF Network, Connect, Post, Arrive, Leave, update
  <2> QED  BY <1>10, <2>1 DEF cpu
<1>11. CASE UNCHANGED cpuVars
  BY <1>11 DEF cpuVars, vars, update, cpu
<1> QED
  BY <1>1, <1>2, <1>3, <1>4, <1>5, <1>6, <1>7, <1>8, <1>9, <1>10, <1>11
     DEF CpuNext, Target, Execute

\* The invariant of the CPU.
THEOREM CpuInvariance == CpuSpec => []CpuIInv
  BY InitCpuIInv, NextCpuIInv, PTL DEF CpuSpec

\* The counter stays below the number it is masked by, and at most one Step is owed, for any
\* number of clients and commands.
THEOREM CpuTypeCorrect == CpuSpec => []CpuTypeOK
  BY CpuInvariance, PTL DEF CpuIInv

\* A stopped CPU owes one instruction exactly when it was told to Step and has not executed it.
THEOREM OneInstruction == CpuSpec => []OneInstructionPerStep
  BY CpuInvariance, PTL DEF CpuIInv
=============================================================================
