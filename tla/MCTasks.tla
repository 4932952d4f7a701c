------------------------------ MODULE MCTasks ------------------------------
(* TLC instance of the parts tasks talk through and share: the ambient        *)
(* context, the parallel and race calls, a channel, a pipeline, atoms and      *)
(* global maps, the program's global stacks, generators and streams.  These    *)
(* share no state here, so part names the one a behaviour is about and the     *)
(* others keep their initial state.                                            *)
EXTENDS TaskCtx, ParRace, Chan, Pipeline, Atoms, GlobalStacks, Streams

VARIABLE part

sharedVars == <<atomVars, gsVars, generatorVars, pullVars>>
tasksVars == <<vars, parVars, chanVars, pipeVars, sharedVars, part>>

TasksInit ==
  /\ part \in {"ctx", "par", "chan", "pipe", "atoms", "stacks", "gens", "pull"}
  /\ Init /\ ChanInit /\ PipeInit
  /\ ParInit /\ (part # "par" => call = "race")
  /\ AtomInit /\ GeneratorInit /\ PullInit
  /\ GsInit /\ (part # "stacks" => gruns = CHOOSE t \in GsTasks : TRUE)

Talks == UNCHANGED <<atomVars, gsVars, generatorVars, pullVars, part>>
Ctx   == part = "ctx"   /\ Next     /\ UNCHANGED <<parVars, chanVars, pipeVars>> /\ Talks
Par   == part = "par"   /\ ParNext  /\ UNCHANGED <<vars, chanVars, pipeVars>> /\ Talks
Chans == part = "chan"  /\ ChanNext /\ UNCHANGED <<vars, parVars, pipeVars>> /\ Talks
Pipe  == part = "pipe"  /\ PipeNext /\ UNCHANGED <<vars, parVars, chanVars>> /\ Talks

Shares == UNCHANGED <<vars, parVars, chanVars, pipeVars, part>>
Shared == part = "atoms"  /\ AtomNext /\ UNCHANGED <<gsVars, generatorVars, pullVars>> /\ Shares
Stacks == part = "stacks" /\ GsNext /\ UNCHANGED <<atomVars, generatorVars, pullVars>> /\ Shares
Yields == part = "gens"   /\ GeneratorNext /\ UNCHANGED <<atomVars, gsVars, pullVars>> /\ Shares
Pulls  == part = "pull"   /\ PullNext /\ UNCHANGED <<atomVars, gsVars, generatorVars>> /\ Shares

\* These may come to rest: their steps are bounded.
Rest == part \notin {"ctx", "par"} /\ UNCHANGED tasksVars

TasksNext == Ctx \/ Par \/ Chans \/ Pipe \/ Shared \/ Stacks \/ Yields \/ Pulls \/ Rest

\* The fairness of ChanSpec and PipeSpec, each for its own part.
TasksFair ==
  /\ \A f \in Fibers : WF_chanVars(part = "chan" /\ FiberStep(f))
  /\ WF_pipeVars(part = "pipe" /\ ShellStep)
  /\ \A i \in St : WF_pipeVars(part = "pipe" /\ StageStep(i))

TasksSpec == TasksInit /\ [][TasksNext]_tasksVars /\ TasksFair
=============================================================================
