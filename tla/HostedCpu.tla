------------------------------ MODULE HostedCpu ------------------------------
(***************************************************************************)
(* The hosted runtime from EarlyInit to Shutdown: one thread for each      *)
(* simulated core, each with a context (an io_service) of its own, that    *)
(* meet three times before AppMain runs.  hosted/Cpu.cc, Runtime.cc,       *)
(* Context.cc and the Spawn of EventManager.cc.                            *)
(***************************************************************************)
EXTENDS Integers, Sequences, FiniteSets

CONSTANTS N,       \* DefaultPhysCpus_
          None

VARIABLES pc,      \* where the thread of each core is
          main,    \* how many threads EarlyInit has made; N + 1 when it has returned
          created, inited, running,   \* created_, inited_, running_
          index,   \* the index of the context of each core, in order of construction
          initialized,
          queue,   \* what is posted to each io_service
          doing,   \* the event of each core that spins
          stopped, \* the io_services that are stopped
          shutdown, ran, signalled

hostedVars == <<pc, main, created, inited, running, index, initialized, queue, doing, stopped,
                shutdown, ran, signalled>>

Cores == 0..(N - 1)

HostedInit ==
  /\ pc = [c \in Cores |-> "none"] /\ main = 0
  /\ created = 0 /\ inited = 0 /\ running = 0
  /\ index = [c \in Cores |-> None] /\ initialized = 0
  /\ queue = [c \in Cores |-> <<>>] /\ doing = [c \in Cores |-> None]
  /\ stopped = {} /\ shutdown = FALSE /\ ran = <<>> /\ signalled = FALSE

\* Cpu::EarlyInit: makes the threads, then spins until all of them run.
EarlyInit ==
  /\ \/ main < N /\ pc' = [pc EXCEPT ![main] = "start"]
     \/ main = N /\ running = N /\ pc' = pc
  /\ main' = main + 1
  /\ UNCHANGED <<created, inited, running, index, initialized, queue, doing, stopped, shutdown, ran, signalled>>

\* Runtime::Initialize: the first context initialises, the others wait for it.
Initialize(i) == IF i = 0 THEN initialized' = initialized + 1 ELSE initialized > 0 /\ UNCHANGED initialized

\* Cpu::run with init_lock_: Create, Init and created_.
Create(c) ==
  /\ pc[c] = "start"
  /\ index' = [index EXCEPT ![c] = Cardinality({d \in Cores : index[d] # None})]
  /\ Initialize(index'[c])
  /\ created' = created + 1
  /\ pc' = [pc EXCEPT ![c] = "created"]
  /\ UNCHANGED <<main, inited, running, queue, doing, stopped, shutdown, ran, signalled>>

\* Cpu::run, when all are created: Spawn on its own context.
Spawn(c) ==
  /\ pc[c] = "created" /\ created >= N
  /\ queue' = [queue EXCEPT ![c] = Append(@, "sync")]
  /\ running' = running + 1
  /\ pc' = [pc EXCEPT ![c] = "spawned"]
  /\ UNCHANGED <<main, created, inited, index, initialized, doing, stopped, shutdown, ran, signalled>>

\* Context::Run, when all have spawned.
Run(c) ==
  /\ pc[c] = "spawned" /\ running >= N
  /\ pc' = [pc EXCEPT ![c] = "loop"]
  /\ UNCHANGED <<main, created, inited, running, index, initialized, queue, doing, stopped, shutdown, ran, signalled>>

\* io_service::run takes a handler: the event of run starts and adds itself to
\* inited_, AppMain runs, or the handler of SIGINT begins to shut down.
Dispatch(c, i) ==
  /\ pc[c] = "loop" /\ c \notin stopped /\ doing[c] = None
  /\ i \in DOMAIN queue[c] /\ (i = 1 \/ queue[c][i] = "signal")
  /\ LET task == queue[c][i]
     IN  /\ queue' = [queue EXCEPT ![c] = SubSeq(@, 1, i - 1) \o SubSeq(@, i + 1, Len(@))]
         /\ inited' = IF task = "sync" THEN inited + 1 ELSE inited
         /\ doing' = [doing EXCEPT ![c] = CASE task = "sync" -> "sync"
                                            [] task = "signal" /\ ~shutdown -> "stop"
                                            [] OTHER -> None]
         /\ shutdown' = (shutdown \/ task = "signal")
         /\ ran' = IF task = "app" THEN Append(ran, [core |-> c, ready |-> inited]) ELSE ran
  /\ UNCHANGED <<pc, main, created, running, index, initialized, stopped, signalled>>

\* The event spins until all are here; on the first core Main spawns AppMain.
Sync(c) ==
  /\ doing[c] = "sync" /\ inited >= N
  /\ doing' = [doing EXCEPT ![c] = None]
  /\ queue' = IF c = 0 THEN [queue EXCEPT ![c] = Append(@, "app")] ELSE queue
  /\ UNCHANGED <<pc, main, created, inited, running, index, initialized, stopped, shutdown, ran, signalled>>

\* Cpu::Shutdown: stops one io_service after the other.
Shutdown(c) ==
  /\ doing[c] = "stop"
  /\ stopped' = stopped \cup {Cardinality(stopped)}
  /\ doing' = [doing EXCEPT ![c] = IF stopped' = Cores THEN None ELSE "stop"]
  /\ UNCHANGED <<pc, main, created, inited, running, index, initialized, queue, shutdown, ran, signalled>>

\* io_service::run returns.
Return(c) ==
  /\ pc[c] = "loop" /\ c \in stopped /\ doing[c] = None
  /\ pc' = [pc EXCEPT ![c] = "returned"]
  /\ UNCHANGED <<main, created, inited, running, index, initialized, queue, doing, stopped, shutdown, ran, signalled>>

\* Ctrl-C, once the first core has set up its handler.
Signal ==
  /\ index[0] # None /\ ~signalled /\ signalled' = TRUE
  /\ queue' = [queue EXCEPT ![0] = Append(@, "signal")]
  /\ UNCHANGED <<pc, main, created, inited, running, index, initialized, doing, stopped, shutdown, ran>>

HostedNext ==
  \/ EarlyInit \/ Signal
  \/ \E c \in Cores : \/ Create(c) \/ Spawn(c) \/ Run(c) \/ Sync(c) \/ Shutdown(c) \/ Return(c)
                      \/ \E i \in DOMAIN queue[c] : Dispatch(c, i)

HostedSpec == HostedInit /\ [][HostedNext]_hostedVars

-----------------------------------------------------------------------------
\* The cores start together: the runtime is initialised once, before any second
\* context exists; AppMain runs at most once, on the first core, when every
\* core runs its event loop; and the three meetings never lock each other out,
\* so without an interrupt AppMain has run when nothing is left to do, and
\* after one the first core, whose thread the process waits for, returns.
StartsTogether ==
  /\ initialized <= 1 /\ (created > 0 => initialized = 1)
  /\ \A c, d \in Cores : index[c] # None /\ index[c] = index[d] => c = d
  /\ Len(ran) <= 1
  /\ \A i \in DOMAIN ran : ran[i].core = 0 /\ ran[i].ready = N
  /\ (~ ENABLED HostedNext) => main > N /\ pc[0] = "returned"

=============================================================================
