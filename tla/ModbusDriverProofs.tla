------------------------- MODULE ModbusDriverProofs -------------------------
(***************************************************************************)
(* Proofs about the character device, for any number of threads and files, *)
(* any arguments and any bound.                                            *)
(***************************************************************************)
EXTENDS ModbusDriver, TLAPS

\* Types: the record of a system call has its five fields.
Shape ==
  /\ DOMAIN op = Proc
  /\ \A p \in Proc : op[p] = [at |-> op[p].at, file |-> op[p].file, req |-> op[p].req,
                              count |-> op[p].count, data |-> op[p].data]
  /\ \A p \in Proc : op[p].at # "user" =>
       op[p].file \in File /\ op[p].req.fc \in {3, 16}
  /\ DOMAIN handle = File
  /\ DOMAIN kbuffer = Proc
  /\ modbus_lock \in Proc \cup {None}

\* While the result of a call that began on a quiet line waits to be fetched,
\* it is true of the device, because no request is left that could change it.
ResultHolds ==
  phase = "done" /\ quiet /\ err = "NONE" =>
    inbox = <<>> /\ Truthful(err, req, registers, device)

IInv == Shape /\ LockProtectsClient /\ NothingLeaks /\ ResultHolds

\* No thread is in the driver when the module is loaded.
LEMMA InitIInv == Init => IInv
<1> SUFFICES ASSUME Init PROVE IInv
  OBVIOUS
<1> USE DriverAssumption DEF Init, T!Init, User
<1>1. Shape
  BY DEF Shape
<1>2. LockProtectsClient
  BY DEF LockProtectsClient
<1>3. NothingLeaks
  BY DEF NothingLeaks
<1>4. ResultHolds
  BY DEF ResultHolds
<1> QED BY <1>1, <1>2, <1>3, <1>4 DEF IInv

\* Calls that end before the lock leave the client and its owner alone.
LEMMA CallIInv ==
  ASSUME IInv, NEW p \in Proc, NEW f \in File, Call(p, f)
  PROVE  IInv'
<1> USE DriverAssumption DEF IInv
<1>1. /\ op[p].at = "user"
      /\ UNCHANGED client
      /\ modbus_lock' = modbus_lock
  BY DEF Call, modbus_dev_open, modbus_dev_release, modbus_dev_ioctl,
         modbus_dev_read, modbus_dev_write, Enter
<1>2. ResultHolds'
  BY <1>1 DEF client, ResultHolds
<1>3. ASSUME op' = [op EXCEPT ![p] = User], kbuffer' = kbuffer, DOMAIN handle' = File,
             \A q \in Proc : op[q].at # "user" =>
               (handle[op[q].file] # -1 => handle'[op[q].file] # -1)
      PROVE  IInv'
  <2>1. op'[p] = User /\ \A q \in Proc \ {p} : op'[q] = op[q]
    BY <1>3 DEF Shape
  <2>2. Shape'
    BY <1>1, <1>3, <2>1 DEF Shape, User
  <2>3. LockProtectsClient'
    BY <1>1, <2>1 DEF LockProtectsClient, Shape, client, User
  <2>4. NothingLeaks'
    BY <1>1, <1>3, <2>1 DEF NothingLeaks, User
  <2> QED BY <1>2, <2>2, <2>3, <2>4
<1>4. CASE modbus_dev_open(p, f)
  <2>1. /\ op' = [op EXCEPT ![p] = User] /\ kbuffer' = kbuffer
        /\ handle' = handle \/ handle' = [handle EXCEPT ![f] = 0]
    BY <1>4 DEF modbus_dev_open, Return
  <2> QED BY <1>3, <2>1 DEF Shape
<1>5. CASE modbus_dev_release(p, f)
  <2>1. /\ op' = [op EXCEPT ![p] = User] /\ kbuffer' = kbuffer
        /\ handle' = [handle EXCEPT ![f] = -1]
        /\ \A q \in Proc : op[q].file # f
    BY <1>5 DEF modbus_dev_release, Return
  <2> QED BY <1>3, <2>1 DEF Shape
<1>6. ASSUME NEW a \in IoctlArgs, modbus_dev_ioctl(p, f, a) PROVE IInv'
  <2>1. /\ op' = [op EXCEPT ![p] = User] /\ kbuffer' = kbuffer
        /\ handle' = handle \/ handle' = [handle EXCEPT ![f] = a]
    BY <1>6 DEF modbus_dev_ioctl, Return
  <2>2. a # -1
    OBVIOUS
  <2> QED BY <1>3, <2>1, <2>2 DEF Shape
<1>7. ASSUME NEW fc \in {3, 16}, NEW c, NEW b, Enter(p, f, fc, c, b) PROVE IInv'
  <2>1. CASE op' = [op EXCEPT ![p] = User] /\ kbuffer' = kbuffer
    BY <1>3, <1>7, <2>1 DEF Enter, Shape
  <2>2. CASE ~(op' = [op EXCEPT ![p] = User] /\ kbuffer' = kbuffer)
    <3> DEFINE r == Request(fc, handle[f], c \div 2, b)
               at == IF fc = 3 THEN "mutex_lock" ELSE "copy_from_user"
    <3>1. /\ kbuffer' = [kbuffer EXCEPT ![p] = TRUE]
          /\ op' = [op EXCEPT ![p] =
                      [at |-> at, file |-> f, count |-> c, data |-> <<>>,
                       req |-> r]]
          /\ handle' = handle /\ handle[f] # -1
      BY <1>7, <2>2 DEF Enter, Return
    <3>0. r.fc \in {3, 16} /\ at \in {"mutex_lock", "copy_from_user"}
      BY DEF Request
    <3> HIDE DEF r, at
    <3>2. /\ op'[p] = [at |-> at, file |-> f, count |-> c, data |-> <<>>,
                       req |-> r]
          /\ \A q \in Proc \ {p} : op'[q] = op[q]
      BY <3>1 DEF Shape
    <3>3. Shape'
      BY <1>1, <3>0, <3>1, <3>2 DEF Shape
    <3>4. LockProtectsClient'
      BY <1>1, <3>0, <3>2 DEF LockProtectsClient, Shape, client
    <3>5. NothingLeaks'
      BY <1>1, <3>0, <3>1, <3>2 DEF NothingLeaks, Shape
    <3> QED BY <1>2, <3>3, <3>4, <3>5
  <2> QED BY <2>1, <2>2
<1> QED
  BY <1>4, <1>5, <1>6, <1>7 DEF Call, modbus_dev_read, modbus_dev_write

\* copy_from_user, and kfree when it fails.
LEMMA CopyFromUserIInv ==
  ASSUME IInv, NEW p \in Proc, CopyFromUser(p)
  PROVE  IInv'
<1> USE DriverAssumption DEF IInv
<1>1. /\ op[p].at = "copy_from_user" /\ DOMAIN op' = Proc
      /\ \A q \in Proc \ {p} : op'[q] = op[q]
      /\ \/ /\ op'[p] = [at |-> "mutex_lock", file |-> op[p].file, req |-> op[p].req,
                         count |-> op[p].count, data |-> op[p].data]
            /\ kbuffer' = kbuffer
         \/ /\ op'[p] = User
            /\ kbuffer' = [kbuffer EXCEPT ![p] = FALSE]
  BY DEF CopyFromUser, Return, Shape
<1>2. UNCHANGED <<client, handle, modbus_lock>>
  BY DEF CopyFromUser
<1>3. Shape'
  BY <1>1, <1>2 DEF Shape, User
<1>4. LockProtectsClient'
  BY <1>1, <1>2 DEF LockProtectsClient, Shape, client, User
<1>5. NothingLeaks'
  BY <1>1, <1>2 DEF NothingLeaks, Shape, User
<1>6. ResultHolds'
  BY <1>2 DEF ResultHolds, client
<1> QED BY <1>3, <1>4, <1>5, <1>6

\* mutex_lock and the call of the client.
LEMMA LockIInv ==
  ASSUME IInv, NEW p \in Proc, Lock(p)
  PROVE  IInv'
<1> USE DriverAssumption DEF IInv
<1>1. /\ op'[p].at = "client" /\ op'[p].file = op[p].file /\ op'[p].req = op[p].req
      /\ \A q \in Proc \ {p} : op'[q] = op[q]
      /\ op[p].at = "mutex_lock"
  BY DEF Lock, Shape
<1>2. /\ modbus_lock = None /\ modbus_lock' = p
      /\ phase' \in {"busy", "done"} /\ req' = op[p].req
      /\ phase' = "done" => err' # "NONE"
      /\ handle' = handle /\ kbuffer' = kbuffer
  BY DEF Lock, T!Request
<1>3. Shape'
  BY <1>1, <1>2 DEF Lock, Shape
<1>4. LockProtectsClient'
  BY <1>1, <1>2 DEF LockProtectsClient
<1>5. NothingLeaks'
  BY <1>1, <1>2 DEF NothingLeaks
<1>6. ResultHolds'
  BY <1>2 DEF ResultHolds
<1> QED BY <1>3, <1>4, <1>5, <1>6

\* mutex_unlock and what follows, with and without an error.
LEMMA UnlockIInv ==
  ASSUME IInv, NEW p \in Proc, Unlock(p)
  PROVE  IInv'
<1> USE DriverAssumption DEF IInv
<1>1. /\ \A q \in Proc \ {p} : op'[q] = op[q]
      /\ DOMAIN op' = Proc
      /\ op[p].at = "client"
  BY DEF Unlock, Return, Shape
<1>2. modbus_lock' = None /\ phase' = "idle" /\ handle' = handle
  BY DEF Unlock, T!Return
<1>3. \/ /\ op'[p] = [at |-> "copy_to_user", file |-> op[p].file, req |-> op[p].req,
                      count |-> op[p].count, data |-> registers]
         /\ kbuffer' = kbuffer
      \/ /\ op'[p] = User
         /\ kbuffer' = [kbuffer EXCEPT ![p] = FALSE]
  <2>1. CASE op[p].req.fc = 3 /\ err = "NONE"
    BY <2>1 DEF Unlock, Shape
  <2>2. CASE ~(op[p].req.fc = 3 /\ err = "NONE")
    BY <2>2 DEF Unlock, Return, Shape
  <2> QED BY <2>1, <2>2
<1>4. Shape'
  BY <1>1, <1>2, <1>3 DEF Shape, User
<1>5. LockProtectsClient'
  <2>1. op'[p].at # "client"
    BY <1>3 DEF User
  <2>2. \A q \in Proc \ {p} : op[q].at # "client"
    BY <1>1 DEF LockProtectsClient
  <2> QED BY <1>1, <1>2, <2>1, <2>2 DEF LockProtectsClient
<1>6. NothingLeaks'
  BY <1>1, <1>2, <1>3 DEF NothingLeaks, Shape, User
<1>7. ResultHolds'
  BY <1>2 DEF ResultHolds
<1> QED BY <1>4, <1>5, <1>6, <1>7

\* copy_to_user and kfree.
LEMMA CopyToUserIInv ==
  ASSUME IInv, NEW p \in Proc, CopyToUser(p)
  PROVE  IInv'
<1> USE DriverAssumption DEF IInv
<1>1. /\ op'[p] = User
      /\ \A q \in Proc \ {p} : op'[q] = op[q]
      /\ op[p].at = "copy_to_user"
      /\ DOMAIN op' = Proc
  BY DEF CopyToUser, Return, Shape
<1>2. /\ UNCHANGED <<client, handle, modbus_lock>>
      /\ kbuffer' = [kbuffer EXCEPT ![p] = FALSE]
  BY DEF CopyToUser
<1>3. Shape'
  BY <1>1, <1>2 DEF Shape, User
<1>4. LockProtectsClient'
  BY <1>1, <1>2 DEF LockProtectsClient, Shape, client, User
<1>5. NothingLeaks'
  BY <1>1, <1>2 DEF NothingLeaks, Shape, User
<1>6. ResultHolds'
  BY <1>2 DEF ResultHolds, client
<1> QED BY <1>3, <1>4, <1>5, <1>6

\* The client at work for the holder of the lock, and the device.
LEMMA ClientIInv ==
  ASSUME IInv, Client \/ Device
  PROVE  IInv'
<1> USE DEF IInv
<1>1. UNCHANGED <<handle, modbus_lock, op, kbuffer, result>>
  BY DEF Client, Device
<1>2. Shape' /\ NothingLeaks'
  BY <1>1 DEF Shape, NothingLeaks
<1>3. req' = req /\ (phase = "idle" <=> phase' = "idle")
  BY DEF Client, Device, T!Flush, T!Send, T!Fail, T!Succeed, T!Execute
<1>4. LockProtectsClient'
  BY <1>1, <1>3 DEF LockProtectsClient
<1>5. ResultHolds'
  <2>1. CASE T!Flush \/ T!Send \/ T!Fail
    BY <2>1 DEF T!Flush, T!Send, T!Fail, T!Errors, ResultHolds
  <2>2. CASE T!Succeed
    BY <2>2 DEF T!Succeed, ResultHolds, T!Truthful, Truthful, T!Stored, Stored,
                T!Touched, Touched
  <2>3. CASE T!Execute
    BY <2>3 DEF T!Execute, ResultHolds
  <2> QED BY <2>1, <2>2, <2>3 DEF Client, Device
<1> QED BY <1>2, <1>4, <1>5

\* Every step of every thread, of the client and of the device.
LEMMA NextIInv == IInv /\ [Next]_vars => IInv'
<1> SUFFICES ASSUME IInv, [Next]_vars PROVE IInv'
  OBVIOUS
<1>1. ASSUME NEW p \in Proc, NEW f \in File, Call(p, f) PROVE IInv'
  BY <1>1, CallIInv
<1>2. ASSUME NEW p \in Proc, Lock(p) PROVE IInv'
  BY <1>2, LockIInv
<1>3. ASSUME NEW p \in Proc, Unlock(p) PROVE IInv'
  BY <1>3, UnlockIInv
<1>4. ASSUME NEW p \in Proc, CopyToUser(p) PROVE IInv'
  BY <1>4, CopyToUserIInv
<1>5. ASSUME NEW p \in Proc, CopyFromUser(p) PROVE IInv'
  BY <1>5, CopyFromUserIInv
<1>6. CASE Client \/ Device
  BY <1>6, ClientIInv
<1>7. CASE UNCHANGED vars
  BY <1>7 DEF vars, client, IInv, Shape, LockProtectsClient, NothingLeaks, ResultHolds
<1> QED BY <1>1, <1>2, <1>3, <1>4, <1>5, <1>6, <1>7 DEF Next

\* The conjunction of the driver's invariants holds in every reachable state.
THEOREM Invariance == Spec => []IInv
BY InitIInv, NextIInv, PTL DEF Spec

\* modbus_lock serializes the use of the client for any number of threads.
THEOREM LockSafety == Spec => []LockProtectsClient
<1>1. IInv => LockProtectsClient
  BY DEF IInv
<1> QED BY <1>1, Invariance, PTL

\* No call of read or write leaks its buffer or loses its file.
THEOREM NoLeaks == Spec => []NothingLeaks
<1>1. IInv => NothingLeaks
  BY DEF IInv
<1> QED BY <1>1, Invariance, PTL

\* No call stores an address, a lock holder or a state of its own that the
\* driver does not know.
LEMMA TypeNext == IInv /\ TypeOK /\ [Next]_vars => TypeOK'
<1> SUFFICES ASSUME IInv, TypeOK, [Next]_vars PROVE TypeOK'
  OBVIOUS
<1>1. IInv'
  BY NextIInv
<1>2. DOMAIN op' = Proc /\ modbus_lock' \in Proc \cup {None}
  BY <1>1 DEF IInv, Shape
<1>3. phase' \in {"idle", "busy", "sent", "done"}
  <2>1. CASE UNCHANGED phase
    BY <2>1 DEF TypeOK
  <2>2. CASE \E r : T!Request(r)
    BY <2>2 DEF T!Request
  <2>3. CASE T!Flush \/ T!Send \/ T!Execute \/ T!Fail \/ T!Succeed \/ T!Return
    BY <2>3 DEF T!Flush, T!Send, T!Execute, T!Fail, T!Succeed, T!Return, TypeOK
  <2>4. ASSUME NEW p \in Proc, NEW f \in File, Call(p, f) PROVE UNCHANGED phase
    BY <2>4 DEF Call, modbus_dev_open, modbus_dev_release, modbus_dev_ioctl, modbus_dev_read,
                modbus_dev_write, Enter, client
  <2>5. ASSUME NEW p \in Proc, Lock(p)
        PROVE  UNCHANGED phase \/ \E r : T!Request(r)
    BY <2>5 DEF Lock, client
  <2>6. ASSUME NEW p \in Proc, CopyFromUser(p) \/ Unlock(p) \/ CopyToUser(p)
        PROVE  UNCHANGED phase \/ T!Return
    BY <2>6 DEF CopyFromUser, Unlock, CopyToUser, client
  <2>7. CASE Client \/ Device
    BY <2>3, <2>7 DEF Client, Device
  <2>8. CASE UNCHANGED vars
    BY <2>1, <2>8 DEF vars, client
  <2> QED BY <2>1, <2>2, <2>3, <2>4, <2>5, <2>6, <2>7, <2>8 DEF Next
<1>4. handle' \in [File -> -1 .. UINT16_MAX - 1]
  <2>1. handle \in [File -> -1 .. UINT16_MAX - 1]
    BY DEF TypeOK
  <2>2. ASSUME NEW f \in File, NEW a \in -1 .. UINT16_MAX - 1, handle' = [handle EXCEPT ![f] = a]
        PROVE  handle' \in [File -> -1 .. UINT16_MAX - 1]
    BY <2>1, <2>2
  <2>3. ASSUME NEW p \in Proc, NEW f \in File, NEW a \in IoctlArgs, modbus_dev_ioctl(p, f, a)
        PROVE  handle' \in [File -> -1 .. UINT16_MAX - 1]
    <3>1. handle' = handle \/ (a < UINT16_MAX /\ handle' = [handle EXCEPT ![f] = a])
      BY <2>3 DEF modbus_dev_ioctl
    <3>2. a \in Nat
      BY DriverAssumption
    <3>3. a < UINT16_MAX => a \in -1 .. UINT16_MAX - 1
      <4>1. UINT16_MAX \in Nat
        BY DEF UINT16_MAX
      <4> QED BY <3>2, <4>1
    <3> QED BY <2>1, <2>2, <3>1, <3>3
  <2>4. ASSUME NEW p \in Proc, NEW f \in File, modbus_dev_open(p, f) \/ modbus_dev_release(p, f)
        PROVE  handle' \in [File -> -1 .. UINT16_MAX - 1]
    <3>1. \/ UNCHANGED handle
          \/ handle' = [handle EXCEPT ![f] = 0]
          \/ handle' = [handle EXCEPT ![f] = -1]
      BY <2>4 DEF modbus_dev_open, modbus_dev_release
    <3>2. 0 \in -1 .. UINT16_MAX - 1 /\ -1 \in -1 .. UINT16_MAX - 1
      <4>1. UINT16_MAX \in Nat /\ UINT16_MAX > 0
        BY DEF UINT16_MAX
      <4> QED BY <4>1
    <3> QED BY <2>1, <2>2, <3>1, <3>2
  <2>5. CASE UNCHANGED handle
    BY <2>5 DEF TypeOK
  <2>6. ASSUME NEW p \in Proc, NEW f \in File, Call(p, f)
        PROVE  handle' \in [File -> -1 .. UINT16_MAX - 1]
    <3>1. ASSUME NEW c, NEW b, modbus_dev_read(p, f, c) \/ modbus_dev_write(p, f, c, b)
          PROVE  UNCHANGED handle
      BY <3>1 DEF modbus_dev_read, modbus_dev_write, Enter
    <3> QED BY <2>3, <2>4, <2>5, <2>6, <3>1 DEF Call
  <2>7. ASSUME NEW p \in Proc, CopyFromUser(p) \/ Lock(p) \/ Unlock(p) \/ CopyToUser(p)
        PROVE  UNCHANGED handle
    BY <2>7 DEF CopyFromUser, Lock, Unlock, CopyToUser
  <2>8. CASE Client \/ Device \/ UNCHANGED vars
    BY <2>5, <2>8 DEF Client, Device, vars
  <2> QED BY <2>5, <2>6, <2>7, <2>8 DEF Next
<1>5. kbuffer' \in [Proc -> BOOLEAN]
  <2>1. ASSUME NEW p \in Proc, NEW b \in BOOLEAN, kbuffer' = [kbuffer EXCEPT ![p] = b]
        PROVE  kbuffer' \in [Proc -> BOOLEAN]
    BY <2>1 DEF TypeOK
  <2>2. ASSUME NEW p \in Proc, NEW f \in File, Call(p, f)
        PROVE  UNCHANGED kbuffer \/ kbuffer' = [kbuffer EXCEPT ![p] = TRUE]
    BY <2>2 DEF Call, modbus_dev_open, modbus_dev_release, modbus_dev_ioctl,
                modbus_dev_read, modbus_dev_write, Enter
  <2>3. ASSUME NEW p \in Proc, CopyFromUser(p) \/ Lock(p) \/ Unlock(p) \/ CopyToUser(p)
        PROVE  UNCHANGED kbuffer \/ kbuffer' = [kbuffer EXCEPT ![p] = FALSE]
    BY <2>3 DEF CopyFromUser, Lock, Unlock, CopyToUser
  <2>4. CASE UNCHANGED kbuffer
    BY <2>4 DEF TypeOK
  <2> QED BY <2>1, <2>2, <2>3, <2>4 DEF Next, Client, Device, vars
<1>6. ASSUME NEW q \in Proc
      PROVE  /\ op'[q].at \in {"user", "copy_from_user", "mutex_lock", "client", "copy_to_user"}
             /\ op'[q].file \in File \cup {None}
  <2> DEFINE Known(o) == /\ o.at \in {"user", "copy_from_user", "mutex_lock", "client", "copy_to_user"}
                         /\ o.file \in File \cup {None}
  <2>1. Known(op[q]) /\ Known(User) /\ DOMAIN op = Proc
    BY DEF TypeOK, User
  <2>2. ASSUME NEW p \in Proc, NEW f \in File, Call(p, f) PROVE Known(op'[q])
    <3>1. \/ op'[q] \in {op[q], User}
          \/ op'[q].at \in {"copy_from_user", "mutex_lock"} /\ op'[q].file = f
      BY <2>1, <2>2 DEF Call, modbus_dev_open, modbus_dev_release, modbus_dev_ioctl,
                        modbus_dev_read, modbus_dev_write, Enter, Return
    <3> QED BY <2>1, <3>1
  <2>3. ASSUME NEW p \in Proc, CopyFromUser(p) \/ Lock(p) \/ Unlock(p) \/ CopyToUser(p)
        PROVE  Known(op'[q])
    <3>1. \/ op'[q] \in {op[q], User}
          \/ op'[q].at \in {"mutex_lock", "client", "copy_to_user"} /\ op'[q].file = op[q].file
      <4>1. CASE q = p
        BY <2>1, <2>3, <4>1 DEF CopyFromUser, Lock, Unlock, CopyToUser, Return, IInv, Shape
      <4>2. CASE q # p
        BY <2>1, <2>3, <4>2 DEF CopyFromUser, Lock, Unlock, CopyToUser, Return
      <4> QED BY <4>1, <4>2
    <3> QED BY <2>1, <3>1
  <2>4. CASE UNCHANGED op
    BY <2>1, <2>4
  <2> QED BY <2>2, <2>3, <2>4 DEF Next, Client, Device, vars
<1> QED BY <1>2, <1>3, <1>4, <1>5, <1>6 DEF TypeOK

\* Type correctness of the driver: the address of an open file is one the ioctl
\* accepts, and a thread is always at one of the five points of its call.
THEOREM TypeCorrect == Spec => []TypeOK
<1>1. Init => TypeOK
  <2>1. -1 \in -1 .. UINT16_MAX - 1
    <3>1. UINT16_MAX \in Nat
      BY DEF UINT16_MAX
    <3> QED BY <3>1
  <2> QED BY <2>1, DriverAssumption DEF Init, T!Init, User, TypeOK
<1> QED BY <1>1, TypeNext, Invariance, PTL DEF Spec

\* A thread gets the answer to its own call.
THEOREM OwnAnswer == Spec => AnswersOwnCall
<1> DEFINE Own ==
      \A p \in Proc :
        op[p].at = "client" /\ op'[p].at # "client" /\ quiet /\ err = "NONE" =>
          Stored(device, op[p].req) =
            IF op[p].req.fc = 3 THEN op'[p].data ELSE op[p].req.data
<1>1. IInv /\ [Next]_vars => [Own]_vars
  <2> SUFFICES ASSUME IInv, Next, NEW p \in Proc, op[p].at = "client",
                      op'[p].at # "client", quiet, err = "NONE"
               PROVE  Stored(device, op[p].req) =
                        IF op[p].req.fc = 3 THEN op'[p].data ELSE op[p].req.data
    OBVIOUS
  <2>1. Unlock(p)
    <3>1. ASSUME NEW q \in Proc, NEW f \in File, Call(q, f) PROVE FALSE
      <4>1. op[q].at = "user" /\ \A r \in Proc \ {q} : op'[r] = op[r]
        BY <3>1 DEF Call, modbus_dev_open, modbus_dev_release, modbus_dev_ioctl,
                    modbus_dev_read, modbus_dev_write, Enter, Return, IInv, Shape
      <4> QED BY <4>1
    <3>2. ASSUME NEW q \in Proc, Lock(q) PROVE FALSE
      BY <3>2 DEF Lock, IInv, Shape
    <3>3. ASSUME NEW q \in Proc, q # p, Unlock(q) PROVE FALSE
      BY <3>3 DEF Unlock, IInv, LockProtectsClient
    <3>4. ASSUME NEW q \in Proc, CopyToUser(q) PROVE FALSE
      BY <3>4 DEF CopyToUser, Return, IInv, Shape
    <3>5. ASSUME NEW q \in Proc, CopyFromUser(q) PROVE FALSE
      BY <3>5 DEF CopyFromUser, Return, IInv, Shape
    <3>6. CASE Client \/ Device
      BY <3>6 DEF Client, Device
    <3> QED BY <3>1, <3>2, <3>3, <3>4, <3>5, <3>6 DEF Next
  <2>2. phase = "done" /\ Truthful(err, req, registers, device)
    BY <2>1 DEF Unlock, T!Return, IInv, ResultHolds
  <2>3. req = op[p].req
    BY DriverAssumption DEF IInv, LockProtectsClient, Shape
  <2>4. op[p].req.fc = 3 => op'[p].data = registers
    BY <2>1 DEF Unlock, IInv, Shape
  <2>5. op[p].req.fc = 3 \/ op[p].req.fc = 16
    BY DEF IInv, Shape
  <2> QED BY <2>2, <2>3, <2>4, <2>5 DEF Truthful
<1> QED BY <1>1, Invariance, PTL DEF Spec, AnswersOwnCall
=============================================================================
