-------------------------------- MODULE Pci --------------------------------
(***************************************************************************)
(* The PCI bus (src/src/native/Pci.cc) and the set-up of a virtio network  *)
(* device on it (Virtio.h, VirtioNet.cc): the boot core enumerates the     *)
(* functions, sizes their BARs, finds the driver, enables MSI-X and the    *)
(* queues and starts the device, which can send an interrupt message       *)
(* between any two of the core's accesses to it.                           *)
(*                                                                         *)
(* A configuration register has Bits bits (32 in the code).  The command   *)
(* register, the capability pointers and the ports are not modelled beyond *)
(* the value they give.                                                    *)
(***************************************************************************)
EXTENDS Integers, Sequences, FiniteSets, SequencesExt

CONSTANTS Machines,  \* [Location -> what is there], the machines considered
          LastBus, LastDevice, LastFunc,  \* 7, 31 and 7
          Bits,
          Cores,     \* Cpu::Count()
          Left,      \* MSI-X entries earlier software may have left unmasked
          None

VARIABLES machine,
          regs,      \* of each function: its BARs 0..5 and the register after them
          found,     \* functions that are still to be constructed
          devices,   \* the constructed ones: where, and bars_
          loading,   \* index of the device LoadDrivers is at
          pc,        \* the next access of the core
          at,        \* loop index of that access
          control,   \* MSI-X control: [enable, mask]
          table,     \* MSI-X table: of each entry [dest, vector, masked]
          status,    \* device status bits
          select, vector,  \* kQueueSelect and, of each queue, kQueueVector
          ebb,       \* ebb_ is set
          got        \* history: interrupt messages the cores received

busVars == <<machine, regs, found, devices>>
setupVars == <<loading, pc, at, control, table, status, select, vector, ebb>>
pciVars == <<busVars, setupVars, got>>

Location == (0 .. LastBus) \X (0 .. LastDevice) \X (0 .. LastFunc)
Ones == 2 ^ Bits - 1
Wide == 2 ^ (2 * Bits)
Down(v, s) == v - (v % s)

-----------------------------------------------------------------------------
(* Functions of the bus.  Reading an absent one gives all ones.             *)

Absent(l) == machine[l] = None
IsMultifunc(l) == Absent(l) \/ machine[l].multi
IsBridge(l) == machine[l].bridge

EnumerateBus(bus) ==
  LET ofDevice(d) ==
        IF Absent(<<bus, d, 0>>) THEN <<>>
        ELSE SelectSeq([f \in 1 .. (IF IsMultifunc(<<bus, d, 0>>) THEN LastFunc + 1 ELSE 1) |->
                          <<bus, d, f - 1>>],
                       LAMBDA l : ~Absent(l))
  IN FlattenSeq([d \in 1 .. LastDevice + 1 |-> ofDevice(d - 1)])

\* With a host bridge of several functions the buses that are searched are those of
\* the functions that are NOT there: operator bool says that a function is absent.
EnumerateAllBuses ==
  IF ~IsMultifunc(<<0, 0, 0>>) THEN EnumerateBus(0)
  ELSE FlattenSeq([f \in 1 .. LastFunc + 1 |->
                     IF ~Absent(<<0, 0, f - 1>>) THEN <<>> ELSE EnumerateBus(f - 1)])

-----------------------------------------------------------------------------
(* BARs.                                                                    *)

\* external: what register i of a function reads after v has been written.
Register(c, i, v) ==
  LET s == IF i \in DOMAIN c.size THEN c.size[i] ELSE 0
  IN CASE c.kind[i] = "io" -> Down(v, s) + 1
       [] c.kind[i] = "mem32" -> Down(v, s) + 8
       [] c.kind[i] = "mem64" -> (IF s > Ones THEN 0 ELSE Down(v, s)) + 4
       [] c.kind[i] = "high" -> (IF s <= Ones + 1 THEN v ELSE Down(v, s \div (Ones + 1)))
       [] c.kind[i] = "fixed" -> s
       [] OTHER -> 0

\* The registers after the BAR has been sized, and the Bar.
Bar(c, r, i) ==
  LET raw == r[i]
      mmio == raw % 2 = 0
      masked(v) == Down(v, IF mmio THEN 16 ELSE 4)
      is_64 == mmio /\ (raw \div 2) % 4 = 2
      low_sz == masked(Register(c, i, Ones))
      high_sz == IF is_64 THEN Register(c, i + 1, Ones) ELSE Ones
      low == [r EXCEPT ![i] = Register(c, i, raw)]
  IN [regs |-> IF is_64 THEN [low EXCEPT ![i + 1] = Register(c, i + 1, r[i + 1])] ELSE low,
      bar |-> [addr |-> masked(raw) + (IF is_64 THEN r[i + 1] * (Ones + 1) ELSE 0),
               size |-> IF mmio THEN (Wide - (high_sz * (Ones + 1) + low_sz)) % Wide
                        ELSE Ones + 1 - low_sz,
               mmio |-> mmio, is_64 |-> is_64]]

\* The loop over the BARs: it runs to 6, past the end of bars_.
RECURSIVE Bars(_, _, _, _)
Bars(c, r, bars, i) ==
  IF i > 6 THEN [regs |-> r, bars |-> bars]
  ELSE IF r[i] = 0 THEN Bars(c, r, bars, i + 1)
  ELSE LET b == Bar(c, r, i)
       IN Bars(c, b.regs, [bars EXCEPT ![i] = b.bar], i + (IF b.bar.is_64 THEN 2 ELSE 1))

\* Device::Device, for the next function that was found.
NewDevice ==
  /\ pc = "enumerate" /\ found # <<>>
  /\ LET l == Head(found)
         d == Bars(machine[l], regs[l], [i \in 0 .. 6 |-> None], 0)
     IN IF IsBridge(l)
        THEN pc' = "aborted" /\ UNCHANGED <<regs, devices, found>>
        ELSE /\ pc' = IF d.bars[6] = None THEN pc ELSE "undefined"
             /\ regs' = [regs EXCEPT ![l] = d.regs]
             /\ devices' = Append(devices, [where |-> l, bars |-> d.bars])
             /\ found' = Tail(found)
  /\ UNCHANGED <<machine, loading, at, control, table, status, select, vector, ebb, got>>

-----------------------------------------------------------------------------
(* LoadDrivers and the driver.                                              *)

Dev == machine[devices[loading].where]

\* A step of the core that goes on to next.
Go(next) == pc' = next /\ at' = 0

\* LoadDrivers: the next device, offered to VirtioNetDriver::Probe; Create begins
\* with GetBar(0), SetBusMaster and MsixEnable up to its first write.
Probe ==
  /\ (pc = "enumerate" /\ found = <<>>) \/ pc = "next"
  /\ loading' = loading + 1
  /\ at' = 0
  /\ pc' = IF loading' > Len(devices) THEN "done"
           ELSE LET d == devices[loading'] IN
                LET c == machine[d.where] IN
                IF ~c.virtio THEN "next"
                ELSE IF d.bars[0] = None \/ ~Contains(c.caps, "msix") \/ d.bars[c.bir] = None
                THEN "aborted" ELSE "enable"
  /\ UNCHANGED <<busVars, control, table, status, select, vector, ebb, got>>

\* The end of MsixEnable: the whole function is masked while the entries are.
EnableMsix ==
  /\ pc = "enable"
  /\ control' = [enable |-> TRUE, mask |-> TRUE]
  /\ Go("mask")
  /\ UNCHANGED <<busVars, loading, table, status, select, vector, ebb, got>>

MsixMaskEntry ==
  /\ pc = "mask"
  /\ \/ /\ at < Dev.entries
        /\ table' = [table EXCEPT ![at].masked = TRUE] /\ at' = at + 1
        /\ UNCHANGED <<pc, control>>
     \/ /\ at = Dev.entries
        /\ control' = [control EXCEPT !.mask = FALSE]
        /\ Go("reset") /\ UNCHANGED table
  /\ UNCHANGED <<busVars, loading, status, select, vector, ebb, got>>

\* Reset, which makes the device forget its queues, and AddDeviceStatus.
Reset ==
  /\ pc = "reset"
  /\ status' = {"acknowledge", "driver"}
  /\ vector' = [q \in DOMAIN vector |-> None]
  /\ Go("features")
  /\ UNCHANGED <<busVars, loading, control, table, select, ebb, got>>

\* SetupFeatures, what the constructor insists on, and SelectQueue of the control queue.
SetupFeatures ==
  /\ pc = "features"
  /\ IF {"mq", "csum", "tso4"} \subseteq Dev.features /\ Dev.pairs >= Cores
     THEN select' = 2 * Dev.pairs /\ Go("control")
     ELSE pc' = "aborted" /\ UNCHANGED <<select, at>>
  /\ UNCHANGED <<busVars, loading, control, table, status, vector, ebb, got>>

\* InitializeQueue after SelectQueue; the command on the control queue is answered
\* while the core polls it.
ControlQueue ==
  /\ pc = "control"
  /\ vector' = [vector EXCEPT ![select] = select]
  /\ select' = 0
  /\ Go("receive")
  /\ UNCHANGED <<busVars, loading, control, table, status, ebb, got>>

\* The queues of core at: InitializeQueue of the receive queue and then of the send queue.
ReceiveQueue ==
  /\ pc = "receive"
  /\ vector' = [vector EXCEPT ![select] = select]
  /\ select' = select + 1
  /\ pc' = "send"
  /\ UNCHANGED <<busVars, loading, at, control, table, status, ebb, got>>

SendQueue ==
  /\ pc = "send"
  /\ vector' = [vector EXCEPT ![select] = select]
  /\ pc' = "address"
  /\ UNCHANGED <<busVars, loading, at, control, table, status, select, ebb, got>>

\* SetMsixEntry: the three writes.  The entry of a table that is too short stays masked.
Entry(field, value) ==
  table' = IF 2 * at \in DOMAIN table THEN [table EXCEPT ![2 * at][field] = value] ELSE table

EntryAddress ==
  /\ pc = "address"
  /\ Entry("dest", at) /\ pc' = "data"
  /\ UNCHANGED <<busVars, loading, at, control, status, select, vector, ebb, got>>

EntryData ==
  /\ pc = "data"
  /\ Entry("vector", "receive") /\ pc' = "unmask"
  /\ UNCHANGED <<busVars, loading, at, control, status, select, vector, ebb, got>>

MsixUnmaskEntry ==
  /\ pc = "unmask"
  /\ Entry("masked", FALSE)
  /\ at' = at + 1
  /\ IF at' < Cores THEN select' = 2 * at' /\ pc' = "receive"
     ELSE pc' = "create" /\ UNCHANGED select
  /\ UNCHANGED <<busVars, loading, control, status, vector, ebb, got>>

\* VirtioNetDriver::Create: the Ebb, and only then Start.
Create ==
  /\ pc = "create"
  /\ ebb' = TRUE /\ Go("start")
  /\ UNCHANGED <<busVars, loading, control, table, status, select, vector, got>>

Start ==
  /\ pc = "start"
  /\ status' = status \cup {"ok"} /\ Go("next")
  /\ UNCHANGED <<busVars, loading, control, table, select, vector, ebb, got>>

-----------------------------------------------------------------------------
\* external: the device sends the message of a queue's entry.
Interrupt(q) ==
  /\ "ok" \in status /\ control.enable /\ ~control.mask
  /\ vector[q] \in DOMAIN table /\ ~table[vector[q]].masked
  /\ got' = got \cup {[queue |-> q, dest |-> table[vector[q]].dest,
                       vector |-> table[vector[q]].vector, ebb |-> ebb]}
  /\ UNCHANGED <<busVars, setupVars>>

Virtio(c) == c # None /\ c.virtio

PciInit ==
  /\ machine \in Machines
  /\ regs = [l \in Location |-> IF machine[l] = None THEN [i \in 0 .. 6 |-> 0]
                                ELSE [i \in 0 .. 6 |-> Register(machine[l], i, machine[l].base[i])]]
  /\ found = EnumerateAllBuses
  /\ devices = <<>> /\ loading = 0 /\ pc = "enumerate" /\ at = 0
  /\ control = [enable |-> FALSE, mask |-> FALSE]
  /\ LET cards == {l \in Location : Virtio(machine[l])}
         card == machine[CHOOSE l \in cards : TRUE]
     IN IF cards = {} THEN table = <<>> /\ status = {} /\ vector = <<>>
        ELSE \E left \in SUBSET Left, st \in {{}, {"ok"}} :
               /\ table = [e \in 0 .. card.entries - 1 |->
                             [dest |-> None, vector |-> None, masked |-> e \notin left]]
               /\ status = st
               /\ vector = [q \in 0 .. 2 * card.pairs |-> IF st = {} THEN None ELSE q]
  /\ select = 0 /\ ebb = FALSE /\ got = {}

PciNext ==
  \/ NewDevice \/ Probe \/ EnableMsix \/ MsixMaskEntry \/ Reset \/ SetupFeatures
  \/ ControlQueue \/ ReceiveQueue \/ SendQueue \/ EntryAddress \/ EntryData
  \/ MsixUnmaskEntry \/ Create \/ Start
  \/ \E q \in DOMAIN vector : Interrupt(q)

PciSpec == PciInit /\ [][PciNext]_pciVars

-----------------------------------------------------------------------------
\* Sizing the BARs leaves every register as the firmware set it, and each Bar has the
\* address and the size of what it decodes (the upper half of a 64-bit BAR is no Bar of
\* its own); nothing is written behind bars_ unless the register behind the BARs is used.
\* Every interrupt message a core receives is the one set up for its own receive queue,
\* on the vector of the driver and after the Ebb it calls exists: what earlier software
\* left in the table is never sent.  Once the driver is done with a device every core
\* whose entry the table holds can be interrupted.
DevicesRight ==
  /\ \A l \in Location : machine[l] # None =>
       regs[l] = [i \in 0 .. 6 |-> Register(machine[l], i, machine[l].base[i])]
  /\ \A n \in DOMAIN devices : \A i \in 0 .. 5 :
       LET c == machine[devices[n].where] b == devices[n].bars[i] IN
       IF c.kind[i] \in {"none", "high"} THEN b = None
       ELSE /\ b.size = c.size[i]
            /\ b.addr = c.base[i] + (IF c.kind[i] = "mem64" THEN c.base[i + 1] * 2 ^ Bits ELSE 0)
  /\ pc = "undefined" => \E l \in Location : machine[l] # None /\ machine[l].kind[6] = "fixed"
  /\ \A g \in got : /\ g.queue \in {2 * i : i \in 0 .. Cores - 1}
                    /\ g.dest = g.queue \div 2 /\ g.vector = "receive" /\ g.ebb
  /\ ("ok" \in status /\ ebb) => \A i \in 0 .. Cores - 1 :
       2 * i \in DOMAIN table => ~table[2 * i].masked /\ vector[2 * i] = 2 * i
=============================================================================
