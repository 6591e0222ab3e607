----------------------------- MODULE SerialDemo ------------------------------
(***************************************************************************)
(* serial_demo: a fixed list of calls on the character device, run against *)
(* a module that is loaded and unloaded and a serial device that comes and *)
(* goes (module ModuleLifecycle), with signals between any two calls.      *)
(*                                                                         *)
(* External: the driver's calls, as module ModbusDriver has them; the      *)
(* Modbus device, whose registers nobody else writes.                      *)
(***************************************************************************)
EXTENDS ModuleLifecycle, Sequences

VARIABLES
  pc,             \* the next entry of main's list; 0 when the program is not running
  fd,             \* the file is open
  start_address,  \* of the file
  buf,            \* the array on main's stack, and what follows it
  registers,      \* external: contents of the Modbus device
  ok              \* history: every call so far has succeeded that should

demo == <<pc, fd, start_address, buf, registers, ok>>
allVars == <<vars, demo>>

n_buf_len == 64
UINT16_MAX == 65535

\* The calls main makes after the open, with the values it writes.
Script ==
  << [call |-> "open",  arg |-> 0],
     [call |-> "read",  arg |-> 16],
     [call |-> "write", arg |-> << "F0C1", "F0C2", "F0C3", "F0C4" >>],
     [call |-> "read",  arg |-> 16],
     [call |-> "ioctl", arg |-> 4],
     [call |-> "write", arg |-> << "F0C5", "F0C6", "F0C7", "F0C8" >>],
     [call |-> "ioctl", arg |-> 0],
     [call |-> "read",  arg |-> 16],
     [call |-> "ioctl", arg |-> UINT16_MAX + 1],
     [call |-> "read",  arg |-> 65],
     [call |-> "cleanup", arg |-> 0] >>

Zeroes == [i \in 0 .. n_buf_len - 1 |-> "0"]

DemoInit ==
  /\ Init
  /\ pc = 0 /\ fd = FALSE /\ start_address = 0 /\ ok = TRUE
  /\ buf = Zeroes
  /\ registers = [a \in 0 .. 68 |-> "x"]

\* The program is at a call of this kind, with this argument.
At(call) == pc > 0 /\ Script[pc].call = call
Arg == Script[pc].arg

Start ==
  /\ pc = 0
  /\ pc' = 1
  /\ ok' = TRUE
  /\ UNCHANGED <<vars, fd, start_address, buf, registers>>

\* Mutant of DemoOpen: the file has the address of the last one.
DemoOpenKeepsAddress ==
  /\ At("open")
  /\ \/ Open /\ pc' = pc + 1 /\ fd' = TRUE /\ buf' = Zeroes
     \/ pc' = 0 /\ UNCHANGED <<vars, fd, buf>>
  /\ UNCHANGED <<start_address, registers, ok>>

\* open of /dev/serial_modbus; modbus_dev_open gives the file address 0.
DemoOpen ==
  /\ At("open")
  /\ \/ /\ Open
        /\ pc' = pc + 1 /\ fd' = TRUE /\ start_address' = 0
        /\ buf' = Zeroes
     \/ /\ pc' = 0
        /\ UNCHANGED <<vars, fd, start_address, buf>>
  /\ UNCHANGED <<registers, ok>>

\* A request gets to the Modbus device only through a port that is there.
Reaches == serdev /\ probe = "bound"

\* read_from_modbus: read(2) stores n registers, also behind the array.
read_from_modbus ==
  /\ At("read")
  /\ \/ /\ Reaches
        /\ buf' = [i \in DOMAIN buf \cup 0 .. Arg - 1 |->
                     IF i < Arg THEN registers[start_address + i] ELSE buf[i]]
        /\ UNCHANGED ok
     \/ ok' = FALSE /\ UNCHANGED buf
  /\ pc' = pc + 1
  /\ UNCHANGED <<vars, fd, start_address, registers>>

\* memset, the values, and write_to_modbus; a write may fail after the device
\* has carried it out.
write_to_modbus ==
  /\ At("write")
  /\ buf' = [i \in DOMAIN Zeroes |-> IF i < Len(Arg) THEN Arg[i + 1] ELSE "0"]
  /\ \/ /\ Reaches
        /\ registers' = [a \in DOMAIN registers |->
                           IF a - start_address \in 0 .. Len(Arg) - 1
                             THEN Arg[a - start_address + 1] ELSE registers[a]]
        /\ ok' \in {ok, FALSE}
     \/ ok' = FALSE /\ UNCHANGED registers
  /\ pc' = pc + 1
  /\ UNCHANGED <<vars, fd, start_address>>

\* set_modbus_address: the driver refuses UINT16_MAX and more.
set_modbus_address ==
  /\ At("ioctl")
  /\ \/ Arg < UINT16_MAX /\ start_address' = Arg /\ UNCHANGED ok
     \/ Arg < UINT16_MAX /\ ok' = FALSE /\ UNCHANGED start_address
     \/ Arg >= UINT16_MAX /\ UNCHANGED <<start_address, ok>>
  /\ pc' = pc + 1
  /\ UNCHANGED <<vars, fd, buf, registers>>

\* cleanup and the end of the program, at the end of main or in the handler of
\* SIGINT and SIGTERM: close, if the file is open.
cleanup ==
  /\ pc' = 0
  /\ fd' = FALSE
  /\ buf' = Zeroes
  /\ IF fd THEN Release ELSE UNCHANGED vars
  /\ UNCHANGED <<start_address, registers, ok>>

DemoEnd == At("cleanup") /\ cleanup
handle_signal == pc > 0 /\ cleanup

\* Other programs keep their hands off the demo's file.
World ==
  /\ Next
  /\ users' < users => users > IF fd THEN 1 ELSE 0
  /\ UNCHANGED demo

DemoNext ==
  \/ Start \/ DemoOpen
  \/ read_from_modbus \/ write_to_modbus \/ set_modbus_address
  \/ DemoEnd \/ handle_signal
  \/ World

DemoSpec == DemoInit /\ [][DemoNext]_allVars
-----------------------------------------------------------------------------
(* Properties.                                                             *)

\* If every call has succeeded, what the demo reads after its writes is what it
\* wrote, each block at the address set for it: the refused address 65536 did
\* not move the last read, and no module came and went under the open file.
ShowsItsWrites ==
  ok /\ pc \in {5, 9, 11} =>
    /\ \A i \in 0 .. 3 : buf[i] = Script[3].arg[i + 1]
    /\ pc > 5 => \A i \in 0 .. 3 : buf[4 + i] = Script[6].arg[i + 1]

\* The values the demo may leave in register a: those of its first write in
\* 0 .. 3, those of its second one in 4 .. 7, or in 0 .. 3 if the address could
\* not be set.
Written(a) ==
  {Script[3].arg[i + 1] : i \in {a} \cap 0 .. 3}
  \cup {Script[6].arg[i + 1] : i \in {a, a - 4} \cap 0 .. 3}

\* Whichever calls fail, wherever a signal ends a run, and however often the
\* demo is run again, it changes registers 0 .. 7 only, each to a value meant to
\* go there: no run starts at the address an earlier one was stopped at.
WritesInPlace == \A a \in DOMAIN registers : registers[a] \in {"x"} \cup Written(a)
=============================================================================
