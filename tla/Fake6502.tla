------------------------------ MODULE Fake6502 ------------------------------
(***************************************************************************)
(* The target that uses the remote API: an emulated 6502 whose main loop   *)
(* calls execute6502 for ever, and the plugin PDRemote_update calls.  The  *)
(* CPU and PDRemote_update run on one thread; the clients do not.          *)
(***************************************************************************)
EXTENDS RemoteConnection

CONSTANTS
    CheckEvery,     \* instructions between two looks for a client: 128
    StateSize       \* bytes of the stream sendState writes

ASSUME CpuAssumption == CheckEvery \in Nat \ {0} /\ StateSize \in ReplySize

\* The members of PDAction the plugin knows; it ignores the others.
Break == 2
Run   == 3
Step  == 4

VARIABLES
    runState,       \* g_debugger->runState
    at,             \* where execute6502 is: at its "entry", at its last "step", in its "loop"
    instructions,   \* instructions executed, as far as the code looks at it
    owed            \* Step commands without an instruction since the loop began (history)

cpu     == <<runState, at, instructions, owed>>
cpuVars == <<vars, cpu>>

\* createInstance: running.
CpuInit ==
    /\ Init
    /\ runState = "Running"
    /\ at = "entry"
    /\ instructions = 0
    /\ owed = 0

-----------------------------------------------------------------------------
(* execute6502.                                                             *)

\* Mutant: the counter is not masked.
ExecutedUnmasked == instructions' = instructions + 1

Executed == instructions' = (instructions + 1) % CheckEvery

Idle == pc = "idle"

Connected == socket # NoClient

\* Not stopped: updateDebugger, with a client on every instruction.
CallRunning ==
    /\ Idle /\ at = "entry" /\ runState # "StopException"
    /\ Connected \/ instructions = 0
    /\ BeginUpdate
    /\ at' = "step"
    /\ UNCHANGED <<runState, instructions, owed>>

SkipUpdate ==
    /\ Idle /\ at = "entry" /\ runState # "StopException"
    /\ ~Connected /\ instructions # 0
    /\ at' = "step"
    /\ UNCHANGED <<vars, runState, instructions, owed>>

\* The step6502 at the end of execute6502.
StepOn ==
    /\ Idle /\ at = "step"
    /\ Executed
    /\ at' = "entry"
    /\ UNCHANGED <<vars, runState, owed>>

\* The CPU is stopped: execute6502 stays in its loop.
EnterLoop ==
    /\ Idle /\ at = "entry" /\ runState = "StopException"
    /\ at' = "loop"
    /\ owed' = 0
    /\ UNCHANGED <<vars, runState, instructions>>

\* Running: goto go_on.
LeaveLoop ==
    /\ Idle /\ at = "loop" /\ runState = "Running"
    /\ at' = "step"
    /\ UNCHANGED <<vars, runState, instructions, owed>>

\* Mutant: the state stays Trace.
TraceInLoopOn ==
    /\ Idle /\ at = "loop" /\ runState = "Trace"
    /\ Executed
    /\ owed' = owed - 1
    /\ UNCHANGED <<vars, at, runState>>

\* Trace: one instruction, then stopped again.
TraceInLoop ==
    /\ Idle /\ at = "loop" /\ runState = "Trace"
    /\ Executed
    /\ runState' = "StopException"
    /\ owed' = owed - 1
    /\ UNCHANGED <<vars, at>>

\* Mutant: a stopped CPU does not look for a client.
CallInLoopConnected ==
    /\ Idle /\ at = "loop" /\ runState = "StopException"
    /\ Connected
    /\ BeginUpdate
    /\ UNCHANGED cpu

CallInLoop ==
    /\ Idle /\ at = "loop" /\ runState = "StopException"
    /\ BeginUpdate
    /\ UNCHANGED cpu

-----------------------------------------------------------------------------
(* The plugin's update: doAction.  It does not look at its reader.          *)

Commanded == IF call.kind = "action" THEN call.value ELSE 0

\* Break and Step send the state of the CPU as it is now.
StateReply == IF Commanded \in {Break, Step} THEN StateSize ELSE 0

NextState ==
    CASE Commanded = Break -> "StopException"
      [] Commanded = Run   -> "Running"
      [] Commanded = Step  -> "Trace"
      [] OTHER             -> runState

DoAction ==
    /\ PluginUpdate(StateReply)
    /\ runState' = NextState
    /\ owed' = IF Commanded = Step /\ at = "loop" THEN owed + 1 ELSE owed
    /\ UNCHANGED <<at, instructions>>

-----------------------------------------------------------------------------
Execute == CallRunning \/ SkipUpdate \/ StepOn \/ EnterLoop \/ LeaveLoop
             \/ TraceInLoop \/ CallInLoop

Target == Execute \/ DoAction \/ (Transfer /\ UNCHANGED cpu)

CpuNext == Target \/ (Network /\ UNCHANGED cpu)

CpuSpec == CpuInit /\ [][CpuNext]_cpuVars

\* The target goes on, and what a client has sent arrives.  Nothing is assumed of what
\* clients do.
CpuFairSpec ==
    /\ CpuSpec
    /\ WF_cpuVars(Target)
    /\ \A c \in Client : WF_cpuVars(Arrive(c) /\ UNCHANGED cpu)

-----------------------------------------------------------------------------
CpuTypeOK ==
    /\ runState \in {"Running", "StopException", "Trace"}
    /\ at \in {"entry", "step", "loop"}
    /\ instructions \in 0..(CheckEvery - 1)
    /\ owed \in 0..1

\* In its loop the CPU executes one instruction for each Step it was told, no more and no
\* less: PDRemote_update takes one command at a time and the loop is back at Trace before the
\* next, so that no two Steps fall together.
OneInstructionPerStep ==
    at = "loop" => owed = (IF runState = "Trace" THEN 1 ELSE 0)

\* What a client sends is obeyed, unless it goes, another one is there, a short recv has spoilt
\* its connection, or one that went before it within a stream or a reply took the process with
\* it: a running CPU that has no client looks for one every CheckEvery instructions and a stopped
\* one all the time, the socket of a client that has gone between two commands is closed so that
\* the next one is accepted, and no call of PDRemote_update lasts for ever.
MessagesObeyed ==
    \A c \in Client :
        Len(obeyed[c]) < Len(posted[c]) ~>
            \/ Len(obeyed[c]) = Len(posted[c])
            \/ phase[c] # "open" \/ torn[c] \/ \E d \in Client \ {c} : phase[d] = "open"
            \/ pc = "ended"
=============================================================================
