-------------------------- MODULE ModuleLifecycle ---------------------------
(***************************************************************************)
(* Loading and unloading of the driver module (my_init, my_exit) while the *)
(* serial device comes and goes (probe, remove), bytes arrive and user     *)
(* programs use the character device.                                      *)
(*                                                                         *)
(* External: registering the serdev driver probes a device that is already *)
(* there before it returns; the module is not unloaded while a file is     *)
(* open; the port delivers bytes only between its open and its close.      *)
(***************************************************************************)
EXTENDS Naturals

CONSTANT MaxUsers   \* bound: files open at a time

VARIABLES
  at,          \* the next step of my_init or my_exit
  registered,  \* the serdev driver is registered
  region,      \* the device number is allocated
  cdev,        \* the character device is live
  fifo_ready,  \* rx_fifo is initialized
  nmbs_ready,  \* modbus_lock and nmbs are initialized
  serdev,      \* modbus_dev.serdev is set
  present,     \* external: the serial device exists
  probe,       \* external: how far its probe is
  port_open,   \* external: its port is open
  users        \* files open

memory == <<fifo_ready, nmbs_ready, serdev>>
kernel == <<registered, region, cdev>>
bus == <<present, probe, port_open>>
vars == <<at, kernel, memory, bus, users>>

Init ==
  /\ at = "unloaded"
  /\ registered = FALSE /\ region = FALSE /\ cdev = FALSE
  /\ fifo_ready = FALSE /\ nmbs_ready = FALSE /\ serdev = FALSE
  /\ present \in BOOLEAN /\ probe = "no" /\ port_open = FALSE
  /\ users = 0
-----------------------------------------------------------------------------
(* my_init.  The static data of the module is zero when it starts.         *)

Load ==
  /\ at = "unloaded"
  /\ at' = "register"
  /\ fifo_ready' = FALSE /\ nmbs_ready' = FALSE /\ serdev' = FALSE
  /\ UNCHANGED <<kernel, bus, users>>

Register ==
  /\ at = "register"
  /\ \/ at' = "attach" /\ registered' = TRUE
     \/ at' = "failed" /\ UNCHANGED registered
  /\ UNCHANGED <<region, cdev, memory, bus, users>>

\* serdev_device_driver_register returns.
Attached ==
  /\ at = "attach"
  /\ present => probe \in {"bound", "failed"}
  /\ at' = "alloc_chrdev_region"
  /\ UNCHANGED <<kernel, memory, bus, users>>

AllocRegion ==
  /\ at = "alloc_chrdev_region"
  /\ \/ at' = "memset" /\ region' = TRUE
     \/ at' = "failed" /\ UNCHANGED region
  /\ UNCHANGED <<registered, cdev, memory, bus, users>>

Memset ==
  /\ at = "memset"
  /\ at' = "byte_fifo_init"
  /\ serdev' = FALSE
  /\ UNCHANGED <<kernel, fifo_ready, nmbs_ready, bus, users>>

FifoInit ==
  /\ at = "byte_fifo_init"
  /\ at' = "init_modbus_client"
  /\ fifo_ready' = TRUE
  /\ UNCHANGED <<kernel, nmbs_ready, serdev, bus, users>>

\* mutex_init(&modbus_lock) and init_modbus_client, whose arguments are valid.
ClientInit ==
  /\ at = "init_modbus_client"
  /\ at' = "setup_cdev"
  /\ nmbs_ready' = TRUE
  /\ UNCHANGED <<kernel, fifo_ready, serdev, bus, users>>

\* Mutant of SetupCdev: the device is live before the fifo is initialized.
SetupCdevEarly ==
  /\ at \in {"byte_fifo_init", "setup_cdev"}
  /\ at' = IF at = "setup_cdev" THEN "loaded" ELSE at
  /\ cdev' = TRUE
  /\ UNCHANGED <<registered, region, memory, bus, users>>

\* modbus_dev_setup_cdev.
SetupCdev ==
  /\ at = "setup_cdev"
  /\ \/ at' = "loaded" /\ cdev' = TRUE
     \/ at' = "undo" /\ UNCHANGED cdev
  /\ UNCHANGED <<registered, region, memory, bus, users>>

\* cdev_add failed: the device number is given back.
SetupFailed ==
  /\ at = "undo"
  /\ at' = "failed"
  /\ region' = FALSE
  /\ UNCHANGED <<registered, cdev, memory, bus, users>>
-----------------------------------------------------------------------------
(* my_exit.                                                                *)

\* serdev_serial_remove closes the port and leaves modbus_dev.serdev alone.
Removed == port_open' = FALSE /\ probe' = "no"

\* Mutant of Unregister: the serdev driver stays registered.
UnregisterForgotten ==
  /\ at = "loaded"
  /\ users = 0
  /\ at' = "cdev_del"
  /\ UNCHANGED <<kernel, memory, bus, users>>

Unregister ==
  /\ at = "loaded"
  /\ users = 0
  /\ probe # "opened"
  /\ at' = "cdev_del"
  /\ registered' = FALSE
  /\ Removed
  /\ UNCHANGED <<region, cdev, memory, present, users>>

CdevDel ==
  /\ at = "cdev_del"
  /\ at' = "unregister_chrdev_region"
  /\ cdev' = FALSE
  /\ UNCHANGED <<registered, region, memory, bus, users>>

UnregisterRegion ==
  /\ at = "unregister_chrdev_region"
  /\ at' = "unloaded"
  /\ region' = FALSE
  /\ UNCHANGED <<registered, cdev, memory, bus, users>>
-----------------------------------------------------------------------------
(* The serial device.                                                      *)

Plug ==
  /\ ~present
  /\ present' = TRUE
  /\ UNCHANGED <<at, kernel, memory, probe, port_open, users>>

\* serdev_serial_probe up to serdev_device_open.
ProbeOpen ==
  /\ registered /\ present /\ probe = "no"
  /\ \/ probe' = "opened" /\ port_open' = TRUE
     \/ probe' = "failed" /\ UNCHANGED port_open
  /\ UNCHANGED <<at, kernel, memory, present, users>>

\* modbus_dev.serdev = serdev.
ProbeStore ==
  /\ probe = "opened"
  /\ probe' = "bound"
  /\ serdev' = TRUE
  /\ UNCHANGED <<at, kernel, fifo_ready, nmbs_ready, present, port_open, users>>

\* The device goes away.
Unplug ==
  /\ present
  /\ probe # "opened"
  /\ present' = FALSE
  /\ Removed
  /\ UNCHANGED <<at, kernel, memory, users>>
-----------------------------------------------------------------------------
(* User programs.                                                          *)

Open ==
  /\ cdev
  /\ at \notin {"cdev_del", "unregister_chrdev_region"}   \* try_module_get
  /\ users < MaxUsers
  /\ users' = users + 1
  /\ UNCHANGED <<at, kernel, memory, bus>>

Release ==
  /\ users > 0
  /\ users' = users - 1
  /\ UNCHANGED <<at, kernel, memory, bus>>

Next ==
  \/ Load \/ Register \/ Attached \/ AllocRegion \/ Memset \/ FifoInit
  \/ ClientInit \/ SetupCdev \/ SetupFailed
  \/ Unregister \/ CdevDel \/ UnregisterRegion
  \/ Plug \/ ProbeOpen \/ ProbeStore \/ Unplug
  \/ Open \/ Release

Spec == Init /\ [][Next]_vars

-----------------------------------------------------------------------------
(* Properties.                                                             *)

\* my_init makes the character device live last: whoever can call read or
\* write finds the fifo, the lock and the client initialized, however long
\* loading takes and whatever the serial device does meanwhile.
UsersFindItReady == users > 0 => fifo_ready /\ nmbs_ready /\ region

\* my_exit leaves nothing behind through which the kernel could call into the
\* module: no driver, no port with its receive callback, no device; a load that
\* fails gives the device number back and leaves no device live.
LeavesNothing ==
  /\ at \in {"unloaded", "failed"} => ~region /\ ~cdev /\ users = 0
  /\ at = "unloaded" => ~registered /\ ~port_open /\ probe = "no"

\* serial_modbus_main.c, 409: "Store a pointer to the serial device so we can
\* write to it later".  Once loaded, the driver can write to a probed device.
ProbedDeviceIsWritable == at = "loaded" /\ probe = "bound" => serdev
=============================================================================
