-------------------------- MODULE SerialDemoProofs --------------------------
(***************************************************************************)
(* Proofs about loading, probing and unloading the driver, and about the   *)
(* demo that runs on it, for any number of users of the device.            *)
(***************************************************************************)
EXTENDS SerialDemo, TLAPS

\* How far my_init got, and how far my_exit is, decides what is allocated.
Stage ==
  /\ region <=> at \in {"memset", "byte_fifo_init", "init_modbus_client", "setup_cdev",
                        "undo", "loaded", "cdev_del", "unregister_chrdev_region"}
  /\ at \in {"init_modbus_client", "setup_cdev", "loaded"} => fifo_ready
  /\ at \in {"setup_cdev", "loaded"} => nmbs_ready
  /\ cdev => at \in {"loaded", "cdev_del"}

\* Only a loaded module has open files.
Files ==
  /\ users \in Nat
  /\ users > 0 => at = "loaded"

\* Only a registered driver has a probed device, and only a probe opens a port.
Probes ==
  /\ at \in {"unloaded", "register", "cdev_del", "unregister_chrdev_region"} => ~registered
  /\ ~registered => probe = "no"
  /\ port_open => probe \in {"opened", "bound"}

LifeInv == Stage /\ Files /\ Probes

\* Before the module is loaded there is nothing.
LEMMA InitLife == Init => LifeInv
BY DEF Init, LifeInv, Stage, Files, Probes

\* Loading, unloading, the device and the users preserve it.
LEMMA NextLife == LifeInv /\ [Next]_vars => LifeInv'
<1> SUFFICES ASSUME LifeInv, [Next]_vars PROVE LifeInv'
  OBVIOUS
<1> USE DEF LifeInv, Stage, Files, Probes, kernel, memory, bus
<1>1. CASE Load
  BY <1>1 DEF Load
<1>2. CASE Register
  BY <1>2 DEF Register
<1>3. CASE Attached
  BY <1>3 DEF Attached
<1>4. CASE AllocRegion
  BY <1>4 DEF AllocRegion
<1>5. CASE Memset
  BY <1>5 DEF Memset
<1>6. CASE FifoInit
  BY <1>6 DEF FifoInit
<1>7. CASE ClientInit
  BY <1>7 DEF ClientInit
<1>8. CASE SetupCdev
  BY <1>8 DEF SetupCdev
<1>9. CASE SetupFailed
  BY <1>9 DEF SetupFailed
<1>10. CASE Unregister
  BY <1>10 DEF Unregister, Removed
<1>11. CASE CdevDel
  BY <1>11 DEF CdevDel
<1>12. CASE UnregisterRegion
  BY <1>12 DEF UnregisterRegion
<1>13. CASE Plug
  BY <1>13 DEF Plug
<1>14. CASE ProbeOpen
  BY <1>14 DEF ProbeOpen
<1>15. CASE ProbeStore
  BY <1>15 DEF ProbeStore
<1>16. CASE Unplug
  BY <1>16 DEF Unplug, Removed
<1>17. CASE Open
  BY <1>17 DEF Open
<1>18. CASE Release
  BY <1>18 DEF Release
<1>19. CASE UNCHANGED vars
  BY <1>19 DEF vars
<1> QED
  BY <1>1, <1>2, <1>3, <1>4, <1>5, <1>6, <1>7, <1>8, <1>9, <1>10, <1>11, <1>12,
     <1>13, <1>14, <1>15, <1>16, <1>17, <1>18, <1>19 DEF Next

\* What the properties of the module life cycle need.
LEMMA LifeImplies == LifeInv => UsersFindItReady /\ LeavesNothing
BY DEF LifeInv, Stage, Files, Probes, UsersFindItReady, LeavesNothing

\* Whoever has the character device open finds the fifo, the lock and the
\* client initialized, whatever the serial device does while my_init runs.
THEOREM LoadedWhenUsed == Spec => []UsersFindItReady
<1>1. Spec => []LifeInv
  BY InitLife, NextLife, PTL DEF Spec
<1> QED BY <1>1, LifeImplies, PTL

\* my_exit leaves no driver, port or device behind, and a my_init that fails
\* leaves no device number and no device.
THEOREM NothingLeftBehind == Spec => []LeavesNothing
<1>1. Spec => []LifeInv
  BY InitLife, NextLife, PTL DEF Spec
<1> QED BY <1>1, LifeImplies, PTL
-----------------------------------------------------------------------------
(* The demo.                                                               *)

\* Where the program is; its open file is one of the users of the module.
Running ==
  /\ pc \in 0 .. 11
  /\ fd <=> pc >= 2
  /\ fd => users > 0

\* The address of the file, whatever has failed, and while no call has.
Address ==
  /\ pc \in 2 .. 11 => start_address \in {0, 4}
  /\ pc \in 2 .. 5 => start_address = 0
  /\ ok /\ pc \in {6, 7} => start_address = 4
  /\ ok /\ pc \in 8 .. 11 => start_address = 0

\* What the device holds, while no call has failed.
Device ==
  /\ DOMAIN registers = 0 .. 68
  /\ ok /\ pc >= 4 => \A i \in 0 .. 3 : registers[i] = Script[3].arg[i + 1]
  /\ ok /\ pc >= 7 => \A i \in 0 .. 3 : registers[4 + i] = Script[6].arg[i + 1]

DemoInv == LifeInv /\ Running /\ Address /\ Device /\ ShowsItsWrites /\ WritesInPlace

\* The calls of main, one by one.
LEMMA Calls ==
  /\ Script[1].call = "open"
  /\ Script[2] = [call |-> "read", arg |-> 16]
  /\ Script[3].call = "write" /\ Len(Script[3].arg) = 4
  /\ Script[4] = [call |-> "read", arg |-> 16]
  /\ Script[5] = [call |-> "ioctl", arg |-> 4]
  /\ Script[6].call = "write" /\ Len(Script[6].arg) = 4
  /\ Script[7] = [call |-> "ioctl", arg |-> 0]
  /\ Script[8] = [call |-> "read", arg |-> 16]
  /\ Script[9] = [call |-> "ioctl", arg |-> 65536]
  /\ Script[10] = [call |-> "read", arg |-> 65]
  /\ Script[11].call = "cleanup"
BY DEF Script, UINT16_MAX

\* Which entry of the list the program is at, by the kind of its call.
LEMMA CallAt ==
  ASSUME Running
  PROVE  /\ At("open") => pc = 1
         /\ At("read") => pc \in {2, 4, 8, 10} /\ Arg = IF pc = 10 THEN 65 ELSE 16
         /\ At("write") => pc \in {3, 6} /\ Arg = Script[pc].arg /\ Len(Arg) = 4
         /\ At("ioctl") => pc \in {5, 7, 9}
         /\ pc = 5 => Arg = 4
         /\ pc = 7 => Arg = 0
         /\ pc = 9 => Arg = 65536
         /\ At("cleanup") <=> pc = 11
<1>1. pc \in {0, 1, 2, 3, 4, 5, 6, 7, 8, 9, 10, 11}
  BY DEF Running
<1> QED BY <1>1, Calls DEF At, Arg

\* Files are opened and released one at a time.
LEMMA OneUserAtATime ==
  ASSUME LifeInv, Next
  PROVE  users' \in {users - 1, users, users + 1}
BY DEF LifeInv, Files, Next, Load, Register, Attached, AllocRegion, Memset, FifoInit,
       ClientInit, SetupCdev, SetupFailed, Unregister, CdevDel, UnregisterRegion, Plug,
       ProbeOpen, ProbeStore, Unplug, Open, Release

\* Steps that do not write.
LEMMA NoWrite == WritesInPlace /\ UNCHANGED registers => WritesInPlace'
BY DEF WritesInPlace, Written

\* serial_demo starts before the module is loaded.
LEMMA InitDemo == DemoInit => DemoInv
<1> SUFFICES ASSUME DemoInit PROVE DemoInv
  OBVIOUS
<1>1. LifeInv
  BY InitLife DEF DemoInit
<1>2. Running /\ Address /\ Device /\ ShowsItsWrites /\ WritesInPlace
  BY DEF DemoInit, Running, Address, Device, ShowsItsWrites, WritesInPlace
<1> QED BY <1>1, <1>2 DEF DemoInv

\* Steps of the program that leave the module alone, or open or release it.
LEMMA CleanupDemo ==
  ASSUME DemoInv, cleanup
  PROVE  DemoInv'
<1>1. LifeInv'
  <2>1. [Next]_vars
    BY DEF cleanup, Next
  <2> QED BY <2>1, NextLife DEF DemoInv
<1>2. Running' /\ Address' /\ Device' /\ ShowsItsWrites' /\ WritesInPlace'
  BY NoWrite DEF cleanup, DemoInv, Running, Address, Device, ShowsItsWrites
<1> QED BY <1>1, <1>2 DEF DemoInv

\* A read fills the array from the address of the file.
LEMMA ReadDemo ==
  ASSUME DemoInv, read_from_modbus
  PROVE  DemoInv'
<1> USE DEF DemoInv
<1>1. /\ pc \in {2, 4, 8, 10} /\ Arg = IF pc = 10 THEN 65 ELSE 16
      /\ pc' = pc + 1 /\ (ok' => ok)
  BY CallAt DEF read_from_modbus
<1>2. UNCHANGED <<vars, fd, start_address, registers>>
  BY DEF read_from_modbus
<1>3. LifeInv'
  BY <1>2, NextLife
<1>4. Running' /\ Address' /\ Device'
  BY <1>1, <1>2 DEF Running, Address, Device, vars
<1>5. WritesInPlace'
  BY <1>2, NoWrite
<1>6. ShowsItsWrites'
  <2>1. CASE ok' /\ pc \in {4, 8, 10}
    <3>1. /\ start_address = 0
          /\ buf' = [i \in DOMAIN buf \cup 0 .. Arg - 1 |->
                       IF i < Arg THEN registers[start_address + i] ELSE buf[i]]
      BY <1>1, <2>1 DEF read_from_modbus, Address
    <3>2. \A i \in 0 .. 7 : buf'[i] = registers[i]
      BY <1>1, <3>1
    <3>3. ok /\ pc >= 4 /\ (pc' > 5 => pc >= 7)
      BY <1>1, <2>1
    <3> QED BY <3>2, <3>3 DEF Device, ShowsItsWrites
  <2>2. CASE ~(ok' /\ pc \in {4, 8, 10})
    BY <1>1, <2>2 DEF ShowsItsWrites
  <2> QED BY <2>1, <2>2
<1> QED BY <1>3, <1>4, <1>5, <1>6

\* A write stores its four values from the address of the file.
LEMMA WriteDemo ==
  ASSUME DemoInv, write_to_modbus
  PROVE  DemoInv'
<1> USE DEF DemoInv
<1>1. /\ pc \in {3, 6} /\ Arg = Script[pc].arg /\ Len(Arg) = 4
      /\ pc' = pc + 1 /\ (ok' => ok)
  <2>1. pc' = pc + 1 /\ At("write")
    BY DEF write_to_modbus
  <2>2. ok' => ok
    BY Zenon DEF write_to_modbus
  <2> QED BY <2>1, <2>2, CallAt
<1>2. UNCHANGED <<vars, fd, start_address>>
  BY DEF write_to_modbus
<1>3. LifeInv'
  BY <1>2, NextLife
<1>4. Running' /\ Address' /\ ShowsItsWrites'
  <2>1. Running'
    BY <1>1, <1>2 DEF Running, vars
  <2>2. Address'
    BY <1>1, <1>2 DEF Address
  <2>3. ShowsItsWrites'
    BY <1>1 DEF ShowsItsWrites
  <2> QED BY <2>1, <2>2, <2>3
<1>5. Device'
  <2>1. DOMAIN registers' = 0 .. 68
    BY DEF write_to_modbus, Device
  <2>2. ASSUME ok'
        PROVE  /\ \A i \in 0 .. 3 : registers'[start_address + i] = Arg[i + 1]
               /\ \A a \in 0 .. 68 : a \notin start_address .. start_address + 3 =>
                    registers'[a] = registers[a]
               /\ start_address = IF pc = 3 THEN 0 ELSE 4
    <3>1. registers' = [a \in DOMAIN registers |->
                          IF a - start_address \in 0 .. Len(Arg) - 1
                            THEN Arg[a - start_address + 1] ELSE registers[a]]
      BY <2>2 DEF write_to_modbus
    <3>2. start_address = IF pc = 3 THEN 0 ELSE 4
      BY <1>1, <2>2 DEF Address
    <3> QED BY <1>1, <3>1, <3>2 DEF Device
  <2>3. CASE pc = 3
    BY <1>1, <2>1, <2>2, <2>3 DEF Device
  <2>4. CASE pc = 6
    BY <1>1, <2>1, <2>2, <2>4 DEF Device
  <2> QED BY <1>1, <2>3, <2>4
<1>6. WritesInPlace'
  <2>1. CASE UNCHANGED registers
    BY <2>1, NoWrite
  <2>2. CASE registers' = [a \in DOMAIN registers |->
                             IF a - start_address \in 0 .. Len(Arg) - 1
                               THEN Arg[a - start_address + 1] ELSE registers[a]]
    <3>1. start_address \in {0, 4} /\ (pc = 3 => start_address = 0)
      BY <1>1 DEF Address
    <3>2. ASSUME NEW a \in DOMAIN registers'
          PROVE  registers'[a] \in {"x"} \cup Written(a)
      <4>1. a \in 0 .. 68 /\ registers[a] \in {"x"} \cup Written(a)
        BY <2>2 DEF Device, WritesInPlace
      <4>2. CASE a - start_address \in 0 .. 3
        <5>1. PICK i \in 0 .. 3 : i = a - start_address
          BY <4>2
        <5>2. registers'[a] = Script[pc].arg[i + 1]
          BY <1>1, <2>2, <4>2, <5>1
        <5>3. i \in {a, a - 4} /\ (pc = 3 => i = a)
          BY <3>1, <4>1, <5>1
        <5>4. CASE pc = 3
          <6>1. i \in {a} \cap 0 .. 3
            BY <5>3, <5>4
          <6> QED BY <5>2, <5>4, <6>1 DEF Written
        <5>5. CASE pc = 6
          <6>1. i \in {a, a - 4} \cap 0 .. 3
            BY <5>3
          <6> QED BY <5>2, <5>5, <6>1 DEF Written
        <5> QED BY <1>1, <5>4, <5>5
      <4>3. CASE a - start_address \notin 0 .. 3
        BY <1>1, <2>2, <4>1, <4>3
      <4> QED BY <4>2, <4>3
    <3> QED BY <3>2 DEF WritesInPlace, Written
  <2> QED BY <2>1, <2>2 DEF write_to_modbus
<1> QED BY <1>3, <1>4, <1>5, <1>6

\* Opening starts at address 0; a refused address leaves the file's alone.
LEMMA OpenIoctlDemo ==
  ASSUME DemoInv, Start \/ DemoOpen \/ set_modbus_address
  PROVE  DemoInv'
<1> USE DEF DemoInv
<1>1. LifeInv'
  <2>1. [Next]_vars
    BY DEF Start, DemoOpen, set_modbus_address, Next
  <2> QED BY <2>1, NextLife
<1>2. CASE Start
  BY <1>1, <1>2, NoWrite DEF Start, vars, Running, Address, Device, ShowsItsWrites
<1>3. CASE DemoOpen
  <2>1. pc = 1
    BY <1>3, CallAt DEF DemoOpen
  <2>2. Running'
    BY <1>3, <2>1 DEF DemoOpen, Open, vars, LifeInv, Files, Running
  <2>3. /\ registers' = registers
        /\ \/ pc' = 2 /\ start_address' = 0
           \/ pc' = 0
    BY <1>3, <2>1 DEF DemoOpen
  <2>4. Address' /\ Device' /\ ShowsItsWrites'
    BY <2>3 DEF Address, Device, ShowsItsWrites
  <2>5. WritesInPlace'
    BY <2>3, NoWrite
  <2> QED BY <1>1, <2>2, <2>4, <2>5
<1>4. CASE set_modbus_address
  <2>1. /\ pc \in {5, 7, 9} /\ pc' = pc + 1
        /\ pc = 5 => Arg = 4
        /\ pc = 7 => Arg = 0
        /\ pc = 9 => Arg = 65536
        /\ UNCHANGED <<vars, fd, buf, registers>>
    BY <1>4, CallAt DEF set_modbus_address
  <2>2. Running' /\ Device' /\ ShowsItsWrites' /\ WritesInPlace'
    BY <1>4, <2>1, NoWrite
       DEF set_modbus_address, UINT16_MAX, vars, Running, Device, ShowsItsWrites
  <2>3. Address'
    BY <1>4, <2>1 DEF set_modbus_address, UINT16_MAX, Running, Address
  <2> QED BY <1>1, <2>2, <2>3
<1> QED BY <1>2, <1>3, <1>4

\* Every step of the demo and of the rest of the system preserves it.
LEMMA NextDemo == DemoInv /\ [DemoNext]_allVars => DemoInv'
<1> SUFFICES ASSUME DemoInv, [DemoNext]_allVars PROVE DemoInv'
  OBVIOUS
<1>1. CASE World
  <2>1. LifeInv'
    BY <1>1, NextLife DEF World, DemoInv
  <2>2. Running'
    BY <1>1, OneUserAtATime DEF World, demo, DemoInv, Running, LifeInv, Files
  <2> QED
    BY <1>1, <2>1, <2>2, NoWrite DEF World, demo, DemoInv, Address, Device, ShowsItsWrites
<1>2. CASE UNCHANGED allVars
  <2>1. LifeInv'
    BY <1>2, NextLife DEF allVars, DemoInv
  <2> QED
    BY <1>2, <2>1, NoWrite
       DEF allVars, vars, demo, DemoInv, Running, Address, Device, ShowsItsWrites
<1> QED
  BY <1>1, <1>2, CleanupDemo, ReadDemo, WriteDemo, OpenIoctlDemo
     DEF DemoNext, DemoEnd, handle_signal

\* DemoInv holds in every state of the module and its user.
THEOREM DemoInvariance == DemoSpec => []DemoInv
BY InitDemo, NextDemo, PTL DEF DemoSpec

\* What the demo prints after its writes is what it wrote, if no call failed,
\* although the module and the device come and go and signals restart it.
THEOREM DemoShowsItsWrites == DemoSpec => []ShowsItsWrites
<1>1. DemoInv => ShowsItsWrites
  BY DEF DemoInv
<1> QED BY <1>1, DemoInvariance, PTL

\* Whatever fails or stops it, the demo writes in registers 0 .. 7 only, and
\* there the values meant for them.
THEOREM DemoWritesInPlace == DemoSpec => []WritesInPlace
<1>1. DemoInv => WritesInPlace
  BY DEF DemoInv
<1> QED BY <1>1, DemoInvariance, PTL

\* The module stays loaded and ready under the demo's open file.
THEOREM DemoFindsItReady == DemoSpec => [](UsersFindItReady /\ LeavesNothing)
<1>1. DemoInv => UsersFindItReady /\ LeavesNothing
  BY LifeImplies DEF DemoInv
<1> QED BY <1>1, DemoInvariance, PTL
=============================================================================
