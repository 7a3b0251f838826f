# Verification of the Operating System Simulator

TLA+ modules of the simulator of `src/`, the TLC configurations that check them on small instances,
and theorems about the kernel, the CPU, the memory and the file system that TLAPS checks for every
value of the constants. Definitions keep the code's Spanish names; `PROJECT.json` gives, for each
definition, the lines it translates.

## 1. The system

Four programs talk over sockets. All the logic is in `src/utils/src/*`; each
program's `main.c` starts its threads.

| Part | State | Operations | Interacts with |
|---|---|---|---|
| Kernel: console (`kernel.c:114-300`) | `planificacion_activa`, `multiprogramacion`, `idPCB` | create, kill, stop, resume, list, resize | every queue, under every mutex; semaphores; the CPU's interrupt socket |
| Kernel: long-term scheduler, carnicero (`302-361`) | `cNEW`, `cEXIT`, `semPLP`, `semEXIT`, `sMultiprogramacion` | admit or reject a process; free a process and its resources | console, memory, resources |
| Kernel: short-term scheduler FIFO / RR / VRR, timer threads (`363-729`) | `cREADY`, `cREADY_PLUS`, `semPCP`, `pidRunning`, `hilo_timer` | pop, dispatch, receive, switch on the motive | CPU (dispatch and interrupt sockets), resources, I/O threads |
| Kernel: resources (`733-816`) | `recursos[i].instancias`, `cBloqueados`, the list `recursos` of each process | `pedir_recurso`, `liberar_recurso` | called by the scheduler and by the carnicero |
| Kernel: I/O attention (`820-971`) | `lBlocked`, `lista_conexiones_IO`, one mutex per interface | one thread per request | scheduler (hand-off of `mBLOCKED`), console, interfaces |
| CPU: cycle and interrupts (`cpu/src/main.c`, `cpu.c:120-136, 206-282`) | the PCB, `seVa`, `cIntr` | fetch, decode, execute, drain interrupts; receive interrupts | kernel, memory |
| CPU: registers (`cpu.c:139-204, 328-349`) | `pcb.registros` | SET, SUM, SUB, JNZ | the cycle |
| CPU: MMU, TLB, memory instructions (`cpu.c:15-95, 376-613`) | `tlb` | translate, RESIZE, MOV_IN, MOV_OUT, COPY_STRING, I/O | memory |
| Memory (`memoria.c`) | `bitmap`, page tables, `memoria_contigua` | create and free processes, pages, reads and writes | one thread per client: kernel, CPU, interfaces |
| DialFS (`entradasalida.c:221-1022`) | `bitmap.dat`, `bloques.dat`, metadata files, `FAT` | create, delete, truncate (with compaction), read, write, start | kernel, memory |
| STDIN, STDOUT, generic interfaces (`entradasalida.c:22-211`) | none between requests | serve a request and answer | kernel, memory |
| Sockets (`sockets.c`) | what was sent and not read | send and receive an operation, an int, a pointer, a PCB | everyone |
| Logs, configuration | none that the properties tell apart | | |

What is hard in it:

* the kernel has five kinds of thread that move a process from list to list, each list
  under its own mutex and each move followed by the post of a semaphore;
* stopping locks all but one of those mutexes in the console and keeps them;
* the scheduler and the I/O threads read the same dispatch socket;
* counters and queues are read again after the unlock (`751`, `790`);
* timers are cancelled with `pthread_cancel`, which does not take back an interrupt;
* kills arrive at any moment: while a process waits for a resource, for an interface, or
  while it is in a thread's hand;
* the CPU caches translations that another program invalidates; interfaces use
  physical addresses later than they were translated;
* the context of a process is copied from program to program (kernel, socket, CPU, socket,
  kernel), and a pointer into memory's heap travels with it;
* requests that nobody waits for, and a connection that two threads of the kernel share;
* a file system that rearranges itself, with three copies of where a file is, two of which
  outlive its death at any point of that.

What makes each part correct is the list of properties in section 4. `PROJECT.json`
lists 40 hazards at their lines, each with the properties that would catch it, or why none does.

## 2. Modules

```
Cpu  <-  Planificacion  <-  LargoPlazo ----------------\
                        <-  AtencionIO <- CortoPlazo ----> Kernel <- KernelInv <- KernelProofs
                        <-  Consola -------------------/     |                         <- LugaresProofs
                                                             |                            <- RecursosProofs <- BajasProofs
                                                             |        <- MCKernel
                                                             `--- implements CicloDeVida

Registros <- Contexto <- MCContexto           implements Maquina
                      <- ContextoProofs
Memoria <- Direccionamiento <- MCMemoria      implements Espacios
                            <- MemoriaProofs  (and Comunes)
DialFS  <- MCDialFS                           implements Almacen
        <- Cortes <- MCCortes
                  <- DialFSProofs             (and Comunes)
```

**Cpu** is the CPU as the kernel sees it. `enCpu` is the PCB it holds, `dispatch` what
travels back, `canalIntr` the interrupt socket and `cIntr` the queue of interrupts. An
instruction is the motive it leaves in `seVa`; `SeVa` is the drain at the end of the
cycle (`main.c:80-100`).

**Planificacion** has the state the kernel's threads share, and the operations that
several of them perform: `matadero` in its two halves, `liberar_recurso`, and the pushes into
the ready queues with their `sem_post`. Each thread has a program counter `pc[h]` and its
local `proceso` in `mano[h]`. A process in a thread's hand is in no list.

**LargoPlazo**, **CortoPlazo**, **AtencionIO** and **Consola** have one action per
stretch of a thread between two points where another thread can be told apart: a wait, a
critical section, a message, an unlocked read. `CortoPlazo` is the three
`planificadorCP_*` in one, with `Algoritmo` as a parameter. **Kernel** interleaves them
all and states the properties.

*Locking.* A critical section that locks, works and unlocks is one step. The
mutexes that are held across steps are kept: those of `detener_planificacion`
(`planificacion`), `mBLOCKED` as the scheduler hands it to the I/O thread, and each
interface's. `PrimerosLibres` and `UltimosLibres` are the guards these put on
the critical sections of the other threads.

*Undefined behaviour.* A NULL or dangling pointer that is used ends the kernel
(`Caer`). A freed PCB read by a late timer gives any pid. Two list operations that race without a
common mutex may lose an element (`ListasAtomicas = FALSE`, `IngresaReadyPerdido`,
`ReingresaPerdido` and the second disjuncts of `Repone` and `CreaHiloIO`).

**Contexto** follows one thing, the execution context of a process, through the four
programs' code that touches it, with every message a step of its own. The kernel's table of PCBs
is `pcbs`; `despacho` and `vueltas` are the two directions of the dispatch socket; `pcb`, `fase` and
`cIntr` are the CPU's main loop; `aMemoria` and `deMemoria` the socket over which the CPU sets
memory's global pointer `proceso` and fetches; `conexion` and `punteros` the one that PLP and
the carnicero share. A pointer is the pid it was allocated for, and `cargados` says which are
allocated. What Kernel models in detail (queues, mutexes, resources, I/O) is reduced to
the states a context can be in, with one ready queue as in RR. **Registros** has the registers,
their widths and the instructions that use nothing else; `Ciclo` is `execute` and the `PC++` after it.

**Memoria** is the memory with its frames, page tables and bytes. A request of one
client is one step, but for the three loops over the bitmap, which two threads use without a lock:
`liberar_proceso` (kernel's) and `aniadir_paginas` and `sacar_paginas` (CPU's). These go frame by
frame, and each change of a bit is two steps, the read of its byte (`LeeByte`) and the write
(`EscribeByte`); `cambia` is the byte each thread has read and not written back. `faltan` is what a
RESIZE has still to add or, below zero, to take away. A process that memory sent back for lack of
frames is `"saliendo"`: the kernel ends it and does not dispatch it again.
**Direccionamiento** adds the CPU's MMU and TLB, the instructions that
reach memory, and the interfaces, which keep the physical addresses of a request until they
serve it. Of the kernel it has only loading, dispatching and releasing a process.

**DialFS** has the four stores of the file system: the bitmap, the blocks and the metadata outlive
the interface, the FAT does not. Each operation is one step: the interface serves one at a time.
`Discos` gives the disk each time the loop of `compactar` reaches a block, `Compactado` the one at
its end, and `Reiniciar` is `iniciar_fs` on the files found. `leido` is what `leer_fs` copied.
In this module and in Direccionamiento `peticion` is a history variable, the request that the last
step served, as it was asked for: who or which file, where, how much. Nothing reads it but the
properties, so the runs take it out of the fingerprint (`VIEW Vista`).
**Cortes** breaks every operation at each of its writes: `CortesCrear`, `CortesMudar` and the others
give the disks that a death of the interface in the middle may leave, in the order in which the code
writes bits, bytes and metadata (`config_save` empties the file first), and `Arranca` is
`iniciar_fs` on one of them.

**Comunes** has the facts about naturals and sequences that the proofs about DialFS and memory share.

**Abstract specifications.** `CicloDeVida` is the lifecycle of `src/README.md:10`: five states, one
process on the CPU, no more admitted than the degree of multiprogramming (the highest one the
operator sets). `Espacios` gives every process bytes of its own, and `Almacen` every file. Both take
the request with the effect: what a step reads or changes is what the request of that step names,
of the process or file it names, at the place it names, and everybody else's bytes stay. A step
that serves no request changes and reads nothing. `Maquina` gives every process a machine: its
program runs in order on registers that only it writes, with each instruction as `cpu.h` documents
it. Each is checked as a property of the detailed specification through a refinement mapping
(`CumpleCicloDeVida`, `CumpleEspacios`, `CumpleAlmacen` and `CumpleMaquina`), which is also proved
under the assumptions of section 5. `Contexto` takes, of the five copies of a process's registers,
the one that counts (`RegistrosDe`). The mapping of the lifecycle reads a process that SIGNAL put
back in a ready queue as READY, although its `estado` stays RUNNING (`kernel.c:686-692`).

## 3. Assumptions, each a constant

* `Disciplina`, what programs respect in a run of the kernel. `"senal"`: a program signals
  only what it holds. `"salida"`: it ends, or asks for I/O, holding nothing.
* `Cuidados` of DialFS. `"nombres"`: a program creates what does not exist and uses what
  does. `"dimensiona"`: a new file is given a size before anything else, and none is
  truncated to zero. `"entra"`: no truncation exceeds the disk. `"dentro"`: a read stays within
  the file.
* `Cuidados` of Contexto. `"sirve_antes"`: memory has served what a process asked for without
  waiting by the time it frees it. `"mata_cargado"`: no process is killed while it is NEW.
* `Cuidados` of Memoria and Direccionamiento. `"byte"`: the kernel's thread and the CPU's are never both
  between the read and the write of one byte of the bitmap. `"tlb"`: no program gives back a page that the TLB
  holds. `"vive"`: nobody kills a process while an interface serves it. `"entrega"`: a process
  is not resumed before memory has handled what its interface wrote.
* Memory starts zeroed. Data registers hold values below 256. A program uses addresses
  of its own space, so that memory's answer to a page that does not exist (`memoria.c:219-220`) and the
  MMU's -1 for it are not in the models (`EnSuEspacio`). MENOS_PAGINA has no answer; memory's thread
  is taken to have served it before the process leaves the CPU (`Vuelve`).

These are not guarantees of the code: they delimit where a property is true. Section 7 says what
happens without them, and TLC finds it when one is taken out of `Cuidados` in the cfg of the run:

| Without | Run | TLC then finds violated |
|---|---|---|
| `"byte"` | `memoria` | `MarcosExactos`: the bit that one of the two threads had just changed is lost |
| `"tlb"` | `memoria` | `CumpleEspacios` (this is run `tlb_vieja`) |
| `"vive"`, or `"entrega"` | `memoria` | `CumpleEspacios`: an interface writes where the process no longer is, or after it went on |
| `"dimensiona"` | `dialfs` | `BitmapExacto`: deleting an empty file leaks its block; `SinNulos`: compacting with an empty file |
| `"entra"` | `dialfs` | `BitmapExacto`: a truncation without room has already freed the file's blocks |
| `"dentro"` | `dialfs` | `CumpleAlmacen`: the bound on a read forgets the offset |
| `"sirve_antes"` | `contexto` | `MemoriaEnPie`: memory serves a process it has freed |

*Bounds.* `MaxPid` (processes created), `MaxCanal` (interrupts in the socket), `MaxTimers`
(live timers per process) and `MaxInstancias` (the counter a SIGNAL may reach) bound the
kernel. Memory and DialFS are finite through their sizes. A byte of the bitmap has `BITS` frames, 8 in the
code and 2 in the runs: with 3 frames there are then two bytes, and the threads may be in one or in both. `MODULO32` of Contexto is 2^16 in its
run, since no program of it counts higher; `MODULO8` is 2^8. Its sockets hold what their senders do
not wait for, and nothing bounds them.

*Fairness* (`ContextoFairness`, in `contexto`): weak fairness of PLP, scheduler, carnicero, the
CPU's cycle and memory's two threads, each waiting only for a message; of the timer of the
process that runs (`usleep` ends); and of the end of what a process is blocked for. None of the
operator. A process that runs for ever leaves the CPU only by its timer.

*Fairness* (`SpecJusta`, in `rr_turnos`): weak fairness of every thread of the
kernel, of each timer and I/O thread, of the CPU's interrupt thread, and of the CPU's cycle
once it has received an interrupt. They are threads of the operating system that never wait
but on what the model has as a guard, and the CPU ends every cycle that finds an interrupt
by returning the process. A program is under no obligation to end, nor is the operator to type, and
interfaces are not used in that run.

## 4. Runs

| Run | Instance | Checks |
|---|---|---|
| `fifo_recursos` | FIFO, 3 processes, 1 resource with 1 instance, degree 1 or 2, PROCESO_ESTADO | `TypeOK`; `UnSoloLugar`: a live process is in exactly one list or hand; `TokensPCP`: one token of `semPCP` per ready process; `CuposMultiprogramacion`: slots and admitted processes add up to the degree; `InstanciasConservadas`: a counter is what nobody holds, waits for or is handling; `CumpleCicloDeVida` |
| `rr_turnos` | RR, 3 processes that compute, 2 admitted, memory refuses the third, up to 2 live timers of a process; fair | `TurnoDeTodos`: READY leads to RUNNING; `FinalizadoSeLibera`: FINISHED leads to freed |
| `vrr_io` | VRR, 2 processes, 1 resource, 1 interface with address vectors | `SinCaida`, `UnSoloLugar`, `TokensPCP`; `LecturaEnOrden`: the dispatch socket's next message is for who is about to read it; `EsperaJustificada`: as many waiters as the counter is below zero; `RecursosExclusivos`; `CumpleCicloDeVida` |
| `carreras` | VRR, unlocked lists may lose elements, the interface may disconnect | `LecturaEnOrden`, `AtencionSecuencial`: an interface works for one process at a time |
| `consola` | FIFO, 2 processes with I/O and signals, kills, stop and resume | `CuposMultiprogramacion`; `DetenidaCongela`: what stopping locks stays as it was; `MuertoNoRevive` |
| `dialfs` | 3 files, 8 blocks of 2 bytes, restarts | `DialFSTypeOK`; `BitmapExacto`: files disjoint, bitmap exactly their blocks; `FatEnDisco`: a restart reads the FAT; `SinNulos`; `CumpleAlmacen`: an operation changes the file it names as asked and no other, a read returns that file's bytes |
| `dialfs_cortes` | 3 files, 8 blocks of 1 byte, sizes 2 and 4 that may find no room; one death inside any operation | `CorteAcotado`: only the file the operation names, and if it was compacting at most one more, may be harmed; `CorteSinCruces`: no block is of two of the files that come back, but for the one lifted from a disk that was being compacted |
| `memoria` | 2 processes, 3 frames of 2 bytes, LRU TLB of 2, all four cares | `TypeOK`; `MarcosExactos`: frames neither leaked nor shared; `TLBCoherente`; `CumpleEspacios`: a request reads and changes the bytes of the process that made it, where it said, and nobody else's |
| `contexto` | 3 programs: without file; endless, with requests memory does not answer; with sums that wrap and two ends | `ContextoTypeOK`: also that every copy of a register is within its width; `MemoriaEnPie`: memory uses no struct it freed; `CumpleMaquina`; `TodosAvanzan`: each live process keeps running |

Three runs show where the code does not do what its documentation or comments say; TLC
must find the property violated:

| Run | Property | What happens |
|---|---|---|
| `recurso_doble` | `RecursosExclusivos` | `pedir_recurso` reads the counter after unlocking; the carnicero returns an instance in between, and the instance is granted both to the asker and to the first waiter |
| `dialfs_datos` | `TruncarConserva` | a file that moves to grow loses its bytes (`memcpy` with its arguments exchanged, `entradasalida.c:600`) |
| `tlb_vieja` | `CumpleEspacios` | RESIZE shrinks and grows; MOV_IN then reads through a TLB entry of the old frame |

*Why the bounds are enough.* Two processes already race for one slot, one instance, one
interface and one socket; the third of `fifo_recursos` and `rr_turnos` is the one that waits
behind a waiter. One instance is the boundary where grant and block meet. In memory, an
unaligned access of 4 bytes spans three pages of 2, which is all the frames there
are and more than the TLB holds, so replacement and exhaustion happen within one
instruction. In the file system 3 files of sizes 3 and 8 need at most 12 of the 16 bytes of
the disk, in pieces of 1, 2 and 4 blocks, which is enough for holes that force moves and
compaction. With a death, blocks of 1 byte keep the same holes, and 2 and 4 blocks for three
files (12 of 8) are enough for a compaction that moves two files and for truncations that find
no room; longer files only repeat the same loops. In `contexto` one context is on
the CPU, one in the ready queue and one on its way in or out, which is every place there
is; the sum of what `malloc` left (128 or 255) wraps to zero or not, so that both ends of the program are
taken. The passing runs together fire every action. One exception of
principle: actions in which the kernel crashes are reached in the runs that do
not check `SinCaida`.

`CHECK_DEADLOCK FALSE` is in every run of the kernel (with `MaxPid` processes ended the
system is idle, and the console's deadlock of section 7 exists), of the memory (both
processes may be released), in `contexto` (all may be freed) and in `dialfs_cortes` (a behaviour ends with the
start after a death). `dialfs` is checked for deadlock.

Every property has a mutant in `PROJECT.json`: a definition that changes one mapped
definition as a plausible bug would, under which TLC finds that property violated.

## 5. Proofs

`KernelProofs` (about the `Spec` of `Kernel`, without fairness; assumptions: those of the modules,
and nothing on how many processes, resources, interfaces or programs there are) proves:

| Theorem | Statement |
|---|---|
| `TiposCorrectos` | `Spec => []TypeOK` |
| `SocketCompartido` | `Spec => []LecturaEnOrden` |
| `PausaCongela` | `Algoritmo # "VRR" => (Spec => DetenidaCongela)` |
| `InterfazDeAUno` | `Spec => []AtencionSecuencial` |
| `Invariante` | `Spec => []IInv` |

*The inductive invariant* is `IInv` of `KernelInv`. Types alone are not inductive: the carnicero
pops `cEXIT` without looking (a pop that finds nothing is typed too: `mano` is then `Nadie`), so
`TokensEXIT` ties the semaphore to the queue's length; lowering the degree must stop in time
(`BajaPendiente`); cancelling a timer takes one away, so `TimerVivo` says that the handle names one;
and a location where a thread uses a local must imply the local is set (`LocalesEnUso`,
`Recorridos`). That is `ITipo`. The order of the socket needs two facts more: the console never
unlocks the `mBLOCKED` that the scheduler locked for an I/O thread (`CerrojosDeConsola`), and
`SocketEnOrden`, which says for every location of the scheduler what exactly is on the socket.

The proof has one lemma per action, grouped by thread. `ITipo` is shown first, then
`CerrojosDeConsola`, then `SocketEnOrden`, each from the previous ones. `DetenidaCongela` follows
from `IInv`: all who move what stopping locked need a mutex the console holds. It is
proved for FIFO and RR only: under VRR `pedir_recurso` pushes to `cREADY` with `mREADY_PLUS`
(`kernel.c:765-766`), which stopping does not lock. `InterfazDeAUno` has an invariant of
its own, `MutexDeInterfaz`: a thread that writes to an interface holds its mutex, and asked
for an interface that exists.

`LugaresProofs` and `RecursosProofs` prove, for any processes, programs, resources, interfaces and
degrees, under `Supuestos`: the operator does not use FINALIZAR_PROCESO, and list operations that race lose
nothing (`ListasAtomicas`). Without the first a kill may leave a process in no list and a
token without process; without the second a queue may lose an element (section 7).

| Theorem | Statement |
|---|---|
| `TokensExactos` | `Spec => []TokensPCP` |
| `InvarianteDeLugares` | `Spec => []ILugares` |
| `CadaUnoEnSuLugar` | `Spec => []UnSoloLugar` |
| `CuposExactos` | with `SinArchivo = {}`: `Spec => []CuposMultiprogramacion` |
| `KernelImplementaCiclo` | with `GradosAcotados`: `Spec => CumpleCicloDeVida` |
| `NadieSeVaConRecursos` | with `"salida"`: `Spec => []ISalida` |
| `NadieCae` | with `"salida"` and no DESCONEXION: `Spec => []SinCaida` |
| `EsperaExacta` | with `"salida"` and no negative `INSTANCIAS_RECURSOS`: `Spec => []EsperaJustificada` |
| `NingunaInstanciaSePierde` | with `"senal"`: `Spec => []InstanciasConservadas` |
| `NadieTieneDeMas` | with both and no negative `INSTANCIAS_RECURSOS`: `Spec => []RecursosExclusivos` |

*Places.* `UnSoloLugar` counts; the proof does not. `Donde` gives for every place (`Sitios`: queues,
lists, a thread's hand, an I/O thread) what is in it, and `Repartidos` says that no two positions
hold the same process and that those that are somewhere are the live ones. This is not inductive:
whether a push adds a process that is already in another place depends on what the pusher took.
`ILugares` adds where each `estado` may be (`EstadosSegunSitio`), that pids not given yet are
`SIN_CREAR` (`PorCrear`), that a thread about to take a process has none in hand (`ManosLibres`),
that a request under way is in `lBlocked` (`EnListaDeIO`), and that the process whose vector is
awaited is not RUNNING (`CedeSinCPU`). Every action is then a move between two places, and one lemma
for each kind of move (`Toma`, `Deja`, `Pasa`, `PasoEntra`, `PasoSale`, `PasoMarca`, `PasoQuieto`)
gives `Ubicados'`; `UnLugarCadaUno` turns it into the count.

*Lives.* `PasoDeVida` says what a step does to `Vida` and to the occupied slots: nothing, or the
life of one process changes in one of six ways (`Nace`, `Entra`, `SeRechaza`, `Corre`, `Cede`,
`Muere`). It needs `ILugares`, which says in what `estado` a thread finds the process it took. Both
results follow from it. `Sobrantes`, the slots occupied by nobody, never decreases, and does not
change unless a process is rejected: it stays 0 if all are found (`CuposExactos`). As it is never
negative, an admission finds fewer processes than the degree in force (`PasoDelGrado`: at most the
largest one), and each of the six ways is a step of `CicloDeVida` (`CicloPaso`). `GradosAcotados`
only says that `Cupo` exists.

*Resources.* `pedir_recurso` and `liberar_recurso` look at the counter and at the queue again after
they unlock the mutex. With two threads inside, what they saw may be stale: a waiter is missed or an
empty queue popped. The carnicero calls `liberar_recurso` only for what a dead process held, so
`ISalida` says that who has ended, waits for an interface or is about to do either holds nothing
(`SinDeudas`), that nobody but timers writes to the CPU (`SoloQuantum`: an INTERRUPCION would end a
process that holds something), and hence that the scheduler is alone (`UnoSolo`). Then
`EsperanLosQueFaltan`, which counts for each location the instance taken from the counter or added
to it of which the queue does not know yet (`EnTramite`), is inductive: this is `EsperaExacta`.

*Instances.* `InstanciasConservadas` counts the instances held (`Tenencias`, the positions of a
resource in the lists `tenidos`), waited for, and on their way in a thread (`Tramitan`). Every
action moves an instance between two of the accounts, or between one and the counter, and `Balance`
adds up the change; `UnaTenenciaMas` and `UnaTenenciaMenos` say what an `Append` and a
`list_remove_element` do to the first account, whatever the rest of the lists. Only a SIGNAL of what
the process does not hold would make up an instance, so the invariant says of a SIGNAL that travels
from the CPU to `liberar_recurso` that its resource is still in the list (`DevuelveLoSuyo`). That
nobody holds too much follows from both accounts of the waiters: held + waiting + under way is what
the counter lacks, and there are as many waiters as the counter is below zero
(`EsperanLosQueFaltan`). With a negative `INSTANCIAS_RECURSOS` it would be false at once.

*Crashes.* Every step that crashes the kernel is an action of the model with `Caer`, and
`SigueEnPie` shows that none of them can be taken. It needs that a thread about to pop finds
somebody (`HayQuien`, from the exact tokens of `semPLP` and `semPCP` and from `UnoSolo`), that no
connection is freed (`SinCortes`), and that a request that waits is of a live process (`ILugares`).

`BajasProofs` keeps neither assumption: kills, failed requests, disconnections and lost list elements
are all allowed, and only VRR is excluded.

| Theorem | Statement |
|---|---|
| `LosMuertosNoReviven` | with `Algoritmo # "VRR"`: `Spec => MuertoNoRevive` |

*Deaths.* With kills and racing lists a process may be in two places, or in none, so `ILugares` is
no longer true. What remains is about the places from which a thread takes a process to give it
another `estado` (`EnJuego`: the queues but `cEXIT`, the hand of PLP and of the scheduler, `desbl`,
and an I/O thread that is about to wake its process up): nobody is there twice and all who are there
are alive (`ActivosVivos`), and none of them has an I/O request whose answer may end it
(`PendientesAparte`). Each step takes some out of these places and puts some into them (`Efecto`);
`Mantiene` shows that this is enough for both, and for the theorem. The console is the hard case: it
finds its victim in one step, takes it out of the queues in another and, if it is READY, ends it in
a third, so in between the victim must not get into anybody's hands (`VictimaQuieta`). It does not
because scheduling is stopped: the queues the console locked do not move (`PasoCongelado`, of
`KernelProofs`) and no step puts anybody into play (`DetenidaSinEntradas`). Under VRR this is false:
the console does not lock `mREADY_PLUS`, the scheduler may pop the victim from `cREADY_PLUS` after
the console found it, and gives the dead process another `estado` (TLC finds it in seconds when the
run `consola` is given VRR).

`MemoriaProofs` proves, for any processes, frames, bytes per frame and entries of the TLB, with FIFO or LRU:

| Theorem | Statement |
|---|---|
| `MarcosSinFuga` | with `"byte"`: `Spec => []MarcosExactos` |
| `DireccionamientoTipos` | `Spec => []TypeOK` |
| `TLBSinMarcosAjenos` | with `"tlb"`: `Spec => []TLBCoherente` |
| `MemoriaEsPrivada` | with `"byte"`, `"tlb"`, `"vive"` and `"entrega"`: `Spec => CumpleEspacios` |

*Frames.* `Base` has the types, that who executes is alive (`CpuBuena`), and that a RESIZE never takes
away more pages than there are (`Achicando`, from the arithmetic of `PaginasDeMas`). What a
thread has read of the bitmap must still be there when it writes it back: `EnMano` says that the
byte in each hand is the bitmap's, that the two are different bytes, and that the frame a RESIZE is
about to add is free. A read keeps it because of `"byte"` (`LeeEnMano`), a write because the other
hand has another byte (`EscribeEnMano`); so a write back changes one bit and no other (`EscribeUnBit`). `MarcoAMarco` restates `MarcosExactos` frame by frame, and
`QuedaUnTramo` covers both losses, the first and the last page of a table.

*Accesses.* An access is cut in pieces, none of which leaves its page: the first to the end of the
page, whole pages, and a remainder. `LosTramos` is the arithmetic: the pieces start where the
previous one ends, are not empty, and add up to what was asked. `MMUEs` says what one translation
answers and what it leaves in the TLB, for a hit, a miss with and without replacement, and no TLB.
`TraducirEs` is the induction over the pieces: in an access within the space, byte k is translated
to the frame of its page, and the TLB is at the end as good as it was. It is also needed for the
types: that a physical address is one of memory's depends on the TLB's frames being frames.

*The TLB.* `TLBCoherente` alone is not inductive. The entries of a process of which memory knows
nothing yet would become wrong when it loads with an empty table, so `TlbBuena` says that there are
none; and a page is only translated for a process that memory has not released (`CpuBuena`: who
executes is alive). `InvTlb` is both, with the types. Entries of the dead stay, and do no harm
because pids are not used again. `"tlb"` is needed only in the step in which RESIZE shrinks
(`InvTlbTablas`).

*The spaces.* The mapping reads the bytes of a process through its page table. That no byte of
memory is two bytes of processes (`FisicaInyectiva`, from `MarcosExactos`) makes a store at the
addresses of one space leave the others alone (`EscribirEnSuEspacio`) and a load return what the
space has (`LeerDeSuEspacio`). The addresses are those of a space for the CPU because of `InvTlb`,
and for an interface, which translates nothing, because of `PedidosBuenos`: the addresses it was
given are still those of bytes its process has. This is what a kill (`"vive"`) and a RESIZE by a
process that was resumed too early (`"entrega"`, which gives `CpuSinPedido`) would break. One lemma
per action maps it, with the request it served as the witness: a page given back is `Achicar`, one added
`Agrandar`, the end of a process and OOM `Terminar`, a load `Cargar`, a store `Guardar`, COPY_STRING
`Copiar`, STDOUT `Mostrar`, STDIN `Recibir`; the rest serves nothing and leaves every space as it was
(`Quieto`). For an interface the request is tied to the place by `dl` of `pedido`, a history of the
logical address its process gave: `PedidosBuenos` says that the physical addresses are still those of it.

`ContextoProofs` proves, for any processes, programs and moduli:

| Theorem | Statement |
|---|---|
| `TiposContexto` | `ContextoSpec => []ContextoTypeOK` |
| `MemoriaNoUsaLiberados` | with `"sirve_antes"` and `"mata_cargado"`: `ContextoSpec => []MemoriaEnPie` |
| `ContextoImplementaMaquina` | with both and programs without SUB (`SinRestas`): `ContextoSpec => CumpleMaquina` |

`ContextoTypeOK` is inductive once `%` is known to keep a value below the modulus
(`SetRegistroTipo`, `CicloTipo`). `MemoriaEnPie` is not: that what a FETCH finds behind the global
pointer is allocated depends on where each process is. Its invariant, also called `IInv`, adds: a
process is in one place only (`Unicos`: one process loading, one running); the pointer of a process
is its own from the moment memory gave it to the kernel until memory has read its release
(`PunterosBuenos`); every release on the kernel's connection is of an allocated process, and no two
are of the same one (`ConexionBuena`); what travels between kernel and CPU is of the process that is
RUNNING (`ContextoBueno`); and the requests on the CPU's socket are a pointer, then one fetch, then
at most those nobody waits for, all about that process (`PedidosBuenos`). One lemma per conjunct
shows it is kept by every action.

The refinement needs, besides `IInv`, that the copies agree (`CopiasIguales`): what is dispatched is
what the table of PCBs has, the fetch that travels carries the PC of the CPU, and what memory
answers is the instruction of that process at that PC. With at most one context on its way back the
mapping says where the registers are (`Aqui`). Then every step of `Contexto` is mapped: `Ejecutar`
to `Paso` of the process that runs (`MaquinaEjecuta`), `RecibirPuntero` to `Cargar` or `Terminar`,
the kill of a process that waits to `Terminar` (`MaquinaKernel`), and all the others to a stutter
(`MaquinaVuelve`, `MaquinaQuieta`). That `Ejecutar` computes what `Maquina` documents is arithmetic:
the code cuts a register twice, when the instruction assigns it and again at PC++, `Maquina` once
(`RestoSiguiente`, `CicloSalida`). SUB is out because the code adds.

`DialFSProofs` proves, for any names, number and size of blocks, sizes and offsets, under `Prudentes`
(`"nombres"` and `"dimensiona"` of section 3) or `Cuidadosos` (`"entra"` as well):

| Theorem | Statement |
|---|---|
| `NingunBloqueSePierde` | `Cuidadosos`: `DialFSSpec => []BitmapExacto` |
| `LaFatEstaEnDisco` | `Cuidadosos`: `DialFSSpec => []FatEnDisco` |
| `NingunNulo` | `Cuidadosos`: `DialFSSpec => []SinNulos` |
| `DialFSTipos` | `Cuidadosos`: `DialFSSpec => []DialFSTypeOK` |
| `DialFSEsUnAlmacen` | `Cuidadosos` with `"dentro"`: `DialFSSpec => CumpleAlmacen` |
| `CorteSoloDanaLoSuyo` | `Prudentes`: `CortesSpec => CorteAcotado` |

*Files.* The first five share the invariant `IInv`: the names in the FAT are distinct, which the
properties do not say but "the first entry with that name" needs; no block belongs to two files; the
bitmap is their blocks; the metadata is the FAT. `Tabla(f, P, b)` says it of any list of entries, of
which only those in P are in the bitmap, so that each operation is a file lifted from the bitmap
(`Levanta`), an entry removed or appended (`Saca`, `Agrega`), or a file put in free blocks (`Pone`).
The restart gives the FAT in any order: that a list of distinct entries, as long as there are
entries, has them all is a count (`Permuta`). Each care is needed where section 7 says what happens
without it.

*Compaction.* `Compactando(d, i, p)` is the loop's invariant: when block i is reached with the file
at p lifted, each file is either below the hole already or where it was, at i or beyond; below the
hole every block is taken; as many blocks are taken as at the start; the metadata follow. `Avanza`
shows that one turn keeps it, `SeMueve` and `MoverEs` when the block starts a file; the loop finds
it because no file but the lifted one is empty. `Conserva`, that every file has its bytes at its new
place, is kept as well: what a move overwrites is the hole and the file itself (`BytesAparte`).
`Compacta` is the induction over the blocks; at the end the free blocks are one run (`AlFinal`), and
there is room for the file.

*The store.* The mapping gives each name the bytes of its entry. `LibroBueno` says the same by the
metadata, where the order of the FAT and the positions of its entries are gone; then an operation on
n leaves the other files as they were if their entries still name the same bytes (`Quietos`), which
for a memcpy is that its destination is in the blocks of n (`NoToca`). One lemma per operation gives
the rest, with the request served as the witness: `Crear` and `Eliminar` of `Almacen`, a prefix when a
truncation shortens a file, exactly the range from the offset asked for on in a write, exactly that
stretch of the file named in a read.

*Deaths.* `CortesInv` says that `IInv` holds until a death, or a truncation without room, after
which `BitmapExacto` is false and the behaviour ends (`NoEntraPierde`): a death always falls on a
sound disk; `SeCompacta`, of the request and the disk before it, tells the truncations that compact.
`Tocado(r, d, e, g)` says what writes may have changed of the disk d: bits of e's blocks, bytes of
g, the metadata file of that name. One lemma per kind of write gives it (`TocadoLimpiando`,
`TocadoMarcando`, `TocadoCopiando`, `TocadoGuardando`), and a file of other blocks and another name
is then whole (`TocadoAparte`, `Sobrevive`). For an operation that does not compact, e and g are the
old entry of the file, also of one that is moved to a larger run: the `memcpy` writes over the old
place. In a compaction each move is on the disk of the loop, of which `Compactando` and `Conserva`
are known, with e the old entry of the file that moves and g the new one (`CorteMueve`); at the end
g is the new entry of the file that grows (`CorteFinal`). The restart builds the FAT in any order,
which a property of the files does not depend on (`Ordenados`, `Arrancado`).

*Induction.* The library's induction theorems take an operator and no prover here instantiates them.
`Induccion` (of `Comunes`) is the same over a set of naturals, and `MinEs` the least element of a
set; both come from the theorem that < is well-founded, which takes none. With them the loop of
`compactar` (`Discos`) and the pieces of an access (`TraducirTramos`) are recursive functions.

Only model-checked: liveness (it needs ENABLED), the slots with kills (run `consola`), and
`CorteSinCruces`.

## 6. Not modelled

The text of instructions and how it is split; strings, packets, handshakes and connections of the
socket library; logs and start-up; delays, so that the remaining quantum of VRR (`get_quantum`) is
abstracted by timers that expire at any moment. Two clients of memory racing within one request, but for
the bitmap, are not modelled. A process's struct is not given the address of one
that was freed: a pointer stands for its pid. After a death of DialFS, or a truncation that found no
room, a behaviour of `Cortes` ends: what later operations do to a damaged disk includes writes
outside the mappings. A pid that memory takes for an operation (2 or 12, see section 7) ends what is
followed of that connection.

## 7. What the models show that is not a property

The models do what the code does, also where no true property remains to be stated.

* Killing a NEW process leaves its token in `semPLP`: PLP later pops NULL and crashes
  (`TomaNuevo`, `AdmiteNadie`).
* When the two threads of memory change bits of one byte at once, one of the changes is lost (`EscribeByte`): a
  frame is given twice or is never given again.
* A load that memory refuses keeps its multiprogramming slot (`Rechaza`).
* Killing a READY process waits for a token with every mutex locked, while the scheduler may
  have it and wait for `mREADY` (`EsperaToken`): nothing moves any more.
* Killing a process that waits for a resource does not restore the counter.
* Killing an unknown pid resumes scheduling that the operator had stopped (`NoEncuentra`).
* A process that SIGNAL left with `estado` RUNNING in a ready queue is killed with a second
  `free` of the same block (`QuitaVictimaYaLibre`).
* Under VRR a process granted a resource is READY_PLUS but waits in `cREADY` (`ReingresaSinMutex`), and a process killed
  while it is popped from `cREADY_PLUS` goes on running (`TomaReadyPlus`, `EsperaToken`).
* Without `"salida"` the two threads in `liberar_recurso` and `pedir_recurso` lose a wake-up or
  pop an empty queue (`SacaNadie`).
* RESIZE to fewer bytes rounds the difference up and may leave less than asked for
  (`AchicaProceso`); MOV_OUT across pages stores the second byte three times (`EnMemoria`).
* Without `"vive"` an interface writes in frames given to another process; without
  `"entrega"` a process runs before its text has arrived. Both violate `CumpleEspacios`.
* Deleting an empty file leaks its block; compacting with an empty file uses NULL; a
  truncation that finds no room leaves the file without bits, and answers
  IO_SUCCESS (`EliminarFs`, `MoverArchivo`, `NoEntra`).
* A death of DialFS may leave a leaked block (creation), a file without some of its bits or bytes (truncation), or an
  empty metadata file, with which the interface does not start again (`Guardando`, `Arranca`).
* Without `"dentro"` a read returns the bytes of the next file, or goes past the mapping (`LeerFs`):
  `CumpleAlmacen` is violated.
* `exe_SUB` adds (`cpu.c:341-342`), where `cpu.h:139` says it subtracts: `exe_SUB` is modelled so, and
  `CumpleMaquina` is checked with programs without it.
* Registers other than PC, and the pointer, are what `malloc` left (`kernel.c:158-163`): a program that adds to a
  register it did not set gets any value (`Vacio`), and killing a NEW process sends any pointer to be freed (`Finalizar`).
* The carnicero's FINALIZACION may fall between the path and the pid of a load (`kernel.c:326-327`): memory reads it as
  the pid (the four bytes; its other words then read as operations nobody knows), its process is never released, and
  the pid that follows is taken as an operation (`RecibirProceso`, `IgnorarPid`).
* Without `"sirve_antes"` a process killed right after a request nobody answers is freed while memory still has to serve it.
* A FIN_DE_QUANTUM that was on its way when its timer was cancelled cuts the next quantum of the process
  short, and leaves that quantum's timer alive (`VenceTimer`, `Cpu`).

## 8. Plan

Done, in this order: the kernel (`Cpu` to `Kernel`), its proofs, DialFS, memory, the context of a
process through kernel, CPU and memory, the deaths of DialFS, the proofs about the context and its
refinement of `Maquina`, the proofs about the kernel's queues and slots and its refinement of
`CicloDeVida`, the proofs about waiting and crashes, those about instances and deaths, those about
DialFS and its refinement of `Almacen`, those about the TLB and the refinement of `Espacios`, those
about the deaths of DialFS, and the byte of the bitmap that two threads of memory share.

Next:
1. Prove the slots (`CuposMultiprogramacion`) with kills, under the conditions of run `consola`.
2. Model IO_FS_READ and IO_FS_WRITE between DialFS and memory.
3. Prove `CorteSinCruces`: `Compactando` already gives it for the disks at the top of compactar's loop.
