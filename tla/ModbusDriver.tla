---------------------------- MODULE ModbusDriver ----------------------------
(***************************************************************************)
(* The character device of serial_modbus_main.c: open, release, read,      *)
(* write and ioctl, called by several threads on several open files, over  *)
(* the one nanomodbus client that modbus_lock protects.  The client is the *)
(* transaction ModbusClient is shown to implement.                         *)
(*                                                                         *)
(* External: the kernel releases a file only when no call on it is under   *)
(* way, and memory allocation and user-space copies may fail.              *)
(***************************************************************************)
EXTENDS ModbusFrames, FiniteSets

CONSTANTS
  Proc,         \* threads
  File,         \* struct file objects
  None,         \* no thread
  Counts,       \* byte counts passed to read and write
  Fill,         \* bytes a writer fills its buffer with
  IoctlArgs,    \* addresses passed to ioctl
  Addresses,    \* registers the device has
  MaxRequests   \* bound: calls that get as far as the lock

ASSUME DriverAssumption ==
  /\ None \notin Proc
  /\ Counts \subseteq Nat
  /\ IoctlArgs \subseteq Nat

VARIABLES
  \* the client, see module Transaction
  phase, req, registers, err, quiet, device, inbox, answers, calls,
  handle,       \* filp->private_data: start_address, or -1 when not open
  modbus_lock,  \* its holder
  op,           \* the system call of each thread
  kbuffer,      \* the thread's call holds a kernel buffer
  result        \* what the thread's last call returned

client == <<phase, req, registers, err, quiet, device, inbox, answers, calls>>
vars == <<client, handle, modbus_lock, op, kbuffer, result>>

Request(fc, start_addr, n_regs, fill) ==
  [fc |-> fc, address |-> start_addr, quantity |-> n_regs,
   data |-> IF fc = 3 THEN <<>> ELSE [i \in 1 .. 2 * n_regs |-> fill]]

T == INSTANCE Transaction WITH Requests <- {}

UINT16_MAX == 65535

\* A thread outside the driver.
User == [at |-> "user", file |-> None, req |-> NoRequest, count |-> 0, data |-> <<>>]

Init ==
  /\ T!Init
  /\ handle = [f \in File |-> -1]
  /\ modbus_lock = None
  /\ op = [p \in Proc |-> User]
  /\ kbuffer = [p \in Proc |-> FALSE]
  /\ result = [p \in Proc |-> "0"]

\* The call of p returns r to user space.
Return(p, r) ==
  /\ op' = [op EXCEPT ![p] = User]
  /\ result' = [result EXCEPT ![p] = r]
-----------------------------------------------------------------------------
modbus_dev_open(p, f) ==
  /\ op[p].at = "user"
  /\ handle[f] = -1
  /\ \/ handle' = [handle EXCEPT ![f] = 0] /\ Return(p, "0")
     \/ Return(p, "ENOMEM") /\ UNCHANGED handle
  /\ UNCHANGED <<client, modbus_lock, kbuffer>>

modbus_dev_release(p, f) ==
  /\ op[p].at = "user"
  /\ handle[f] # -1
  /\ \A q \in Proc : op[q].file # f
  /\ handle' = [handle EXCEPT ![f] = -1]
  /\ Return(p, "0")
  /\ UNCHANGED <<client, modbus_lock, kbuffer>>

\* Mutant of modbus_dev_ioctl: the value is not checked.
IoctlUnchecked(p, f, new_address) ==
  /\ op[p].at = "user"
  /\ handle[f] # -1
  /\ handle' = [handle EXCEPT ![f] = new_address]
  /\ Return(p, "0")
  /\ UNCHANGED <<client, modbus_lock, kbuffer>>

modbus_dev_ioctl(p, f, new_address) ==
  /\ op[p].at = "user"
  /\ handle[f] # -1
  /\ \/ \E e \in {"ENOTTY", "EFAULT"} : Return(p, e) /\ UNCHANGED handle
     \/ /\ new_address >= UINT16_MAX
        /\ Return(p, "EINVAL")
        /\ UNCHANGED handle
     \/ /\ new_address < UINT16_MAX
        /\ handle' = [handle EXCEPT ![f] = new_address]
        /\ Return(p, "0")
  /\ UNCHANGED <<client, modbus_lock, kbuffer>>

\* The address and size checks modbus_dev_read and modbus_dev_write share.
ParametersOK(start_addr, n_regs) ==
  /\ start_addr + n_regs <= UINT16_MAX
  /\ n_regs <= 125

\* Calls that have got as far as the lock.
Admitted ==
  calls + Cardinality({p \in Proc : op[p].at \in {"copy_from_user", "mutex_lock"}})

\* modbus_dev_read up to mutex_lock, and modbus_dev_write up to copy_from_user.
\* The start address is read here, before the wait for the lock.
Enter(p, f, fc, count, fill) ==
  LET n_regs == count \div 2 IN
  /\ op[p].at = "user"
  /\ handle[f] # -1
  /\ \/ /\ ~ParametersOK(handle[f], n_regs)
        /\ Return(p, "EINVAL")
        /\ UNCHANGED kbuffer
     \/ /\ ParametersOK(handle[f], n_regs)
        /\ Return(p, "ENOMEM")
        /\ UNCHANGED kbuffer
     \/ /\ ParametersOK(handle[f], n_regs)
        /\ Admitted < MaxRequests
        /\ kbuffer' = [kbuffer EXCEPT ![p] = TRUE]
        /\ op' = [op EXCEPT ![p] =
                    [at |-> IF fc = 3 THEN "mutex_lock" ELSE "copy_from_user",
                     file |-> f, count |-> count, data |-> <<>>,
                     req |-> Request(fc, handle[f], n_regs, fill)]]
        /\ UNCHANGED result
  /\ UNCHANGED <<client, handle, modbus_lock>>

modbus_dev_read(p, f, count) == Enter(p, f, 3, count, <<0>>)
modbus_dev_write(p, f, count, fill) == Enter(p, f, 16, count, fill)

CopyFromUser(p) ==
  /\ op[p].at = "copy_from_user"
  /\ \/ op' = [op EXCEPT ![p].at = "mutex_lock"] /\ UNCHANGED <<kbuffer, result>>
     \/ kbuffer' = [kbuffer EXCEPT ![p] = FALSE] /\ Return(p, "EFAULT")
  /\ UNCHANGED <<client, handle, modbus_lock>>

\* Mutant of Lock: the start address is taken from the file after the wait.
LockReadsAddress(p) ==
  /\ op[p].at = "mutex_lock"
  /\ modbus_lock = None
  /\ modbus_lock' = p
  /\ T!Request([op[p].req EXCEPT !.address = handle[op[p].file]])
  /\ op' = [op EXCEPT ![p].at = "client"]
  /\ UNCHANGED <<handle, kbuffer, result>>

\* Mutant of Lock: the lock is not taken.
LockSkipped(p) ==
  /\ op[p].at = "mutex_lock"
  /\ T!Request(op[p].req)
  /\ op' = [op EXCEPT ![p].at = "client"]
  /\ UNCHANGED <<handle, modbus_lock, kbuffer, result>>

\* mutex_lock, and the call of the client.
Lock(p) ==
  /\ op[p].at = "mutex_lock"
  /\ modbus_lock = None
  /\ modbus_lock' = p
  /\ T!Request(op[p].req)
  /\ op' = [op EXCEPT ![p].at = "client"]
  /\ UNCHANGED <<handle, kbuffer, result>>

\* Mutant of Unlock: the error path of the read keeps the buffer.
UnlockLeaks(p) ==
  /\ op[p].at = "client"
  /\ T!Return
  /\ modbus_lock' = None
  /\ IF op[p].req.fc = 3 /\ err = "NONE"
       THEN /\ op' = [op EXCEPT ![p].at = "copy_to_user", ![p].data = registers]
            /\ UNCHANGED <<kbuffer, result>>
       ELSE /\ UNCHANGED kbuffer
            /\ Return(p, IF op[p].req.fc = 3 THEN "EIO"
                         ELSE IF err = "NONE" THEN "count" ELSE "ENODEV")
  /\ UNCHANGED handle

\* Mutant of Unlock: the error path returns with the lock held.
UnlockNotOnError(p) ==
  /\ op[p].at = "client"
  /\ T!Return
  /\ modbus_lock' = IF err = "NONE" THEN None ELSE modbus_lock
  /\ IF op[p].req.fc = 3 /\ err = "NONE"
       THEN /\ op' = [op EXCEPT ![p].at = "copy_to_user", ![p].data = registers]
            /\ UNCHANGED <<kbuffer, result>>
       ELSE /\ kbuffer' = [kbuffer EXCEPT ![p] = FALSE]
            /\ Return(p, IF op[p].req.fc = 3 THEN "EIO"
                         ELSE IF err = "NONE" THEN "count" ELSE "ENODEV")
  /\ UNCHANGED handle

\* The client is done: mutex_unlock, and what follows it up to the copy.
Unlock(p) ==
  /\ op[p].at = "client"
  /\ T!Return
  /\ modbus_lock' = None
  /\ IF op[p].req.fc = 3 /\ err = "NONE"
       THEN /\ op' = [op EXCEPT ![p].at = "copy_to_user", ![p].data = registers]
            /\ UNCHANGED <<kbuffer, result>>
       ELSE /\ kbuffer' = [kbuffer EXCEPT ![p] = FALSE]
            /\ Return(p, IF op[p].req.fc = 3 THEN "EIO"
                         ELSE IF err = "NONE" THEN "count" ELSE "ENODEV")
  /\ UNCHANGED handle

CopyToUser(p) ==
  /\ op[p].at = "copy_to_user"
  /\ kbuffer' = [kbuffer EXCEPT ![p] = FALSE]
  /\ \E r \in {"count", "EFAULT"} : Return(p, r)
  /\ UNCHANGED <<client, handle, modbus_lock>>

\* The client at work for the holder of the lock.
Client ==
  /\ T!Flush \/ T!Send \/ T!Fail \/ T!Succeed
  /\ UNCHANGED <<handle, modbus_lock, op, kbuffer, result>>

Device ==
  /\ T!Execute
  /\ UNCHANGED <<handle, modbus_lock, op, kbuffer, result>>
-----------------------------------------------------------------------------
Call(p, f) ==
  \/ modbus_dev_open(p, f)
  \/ modbus_dev_release(p, f)
  \/ \E a \in IoctlArgs : modbus_dev_ioctl(p, f, a)
  \/ \E c \in Counts : modbus_dev_read(p, f, c)
  \/ \E c \in Counts, b \in Fill : modbus_dev_write(p, f, c, b)

Next ==
  \/ \E p \in Proc : \/ \E f \in File : Call(p, f)
                     \/ CopyFromUser(p)
                     \/ Lock(p)
                     \/ Unlock(p)
                     \/ CopyToUser(p)
  \/ Client
  \/ Device

Spec == Init /\ [][Next]_vars

(***************************************************************************)
(* The holder of the lock runs, its client call ends (modules ReadSerial   *)
(* and ModbusBus show that it does), and a mutex goes to each of its       *)
(* waiters in turn.                                                        *)
(***************************************************************************)
Fairness ==
  /\ WF_vars(T!Fail /\ UNCHANGED <<handle, modbus_lock, op, kbuffer, result>>)
  /\ \A p \in Proc : /\ WF_vars(CopyFromUser(p))
                     /\ SF_vars(Lock(p))
                     /\ WF_vars(Unlock(p))
                     /\ WF_vars(CopyToUser(p))

FairSpec == Spec /\ Fairness
-----------------------------------------------------------------------------
TypeOK ==
  /\ phase \in {"idle", "busy", "sent", "done"}
  /\ handle \in [File -> -1 .. UINT16_MAX - 1]
  /\ modbus_lock \in Proc \cup {None}
  /\ DOMAIN op = Proc
  /\ \A p \in Proc : /\ op[p].at \in {"user", "copy_from_user", "mutex_lock", "client", "copy_to_user"}
                     /\ op[p].file \in File \cup {None}
  /\ kbuffer \in [Proc -> BOOLEAN]

\* modbus_lock: the client works for the holder of the lock and on the holder's
\* request, and it is idle whenever the lock is free, so that nobody enters it
\* in the middle of another thread's exchange.
LockProtectsClient ==
  /\ \A p \in Proc : op[p].at = "client" <=> modbus_lock = p
  /\ modbus_lock = None <=> phase = "idle"
  /\ modbus_lock # None => req = op[modbus_lock].req

\* Every kernel buffer is freed by the call that allocated it, on every path,
\* and no call outlives the handle of its file.
NothingLeaks ==
  \A p \in Proc : /\ kbuffer[p] <=> op[p].at # "user"
                  /\ op[p].at # "user" => handle[op[p].file] # -1

\* What a read hands to its user is what the device holds at the address the
\* file had when the call was made, whatever other threads do meanwhile; a
\* write that reports success was carried out there.  (Unless an answer to an
\* earlier call was still under way, see FreshAnswer in ModbusClient.)
AnswersOwnCall ==
  [][\A p \in Proc :
       op[p].at = "client" /\ op'[p].at # "client" /\ quiet /\ err = "NONE" =>
         Stored(device, op[p].req) =
           IF op[p].req.fc = 3 THEN op'[p].data ELSE op[p].req.data]_vars

\* Every read and write returns, also when several threads want the lock.
CallReturns == \A p \in Proc : op[p].at # "user" ~> op[p].at = "user"
=============================================================================
