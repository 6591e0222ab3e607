# A TLA+ verification of the serial Modbus driver and its tools

The repository holds a Linux kernel module that turns a serial Modbus (RTU)
device into the character device `/dev/serial_modbus`, and two user programs:
`serial_control`, which reads and writes named registers from the command line,
and `serial_demo`, a fixed sequence of calls. This directory models the program's
own logic, checks it with TLC on small instances and proves the main results
with TLAPS.

## The system

| Component | State | Operations | Interacts with |
|---|---|---|---|
| Receive fifo, `byte_fifo.c` | ring `data`, `write_index`, `read_index`, `n_elements`, a mutex | init, reset, is_available, write, read | written by the receive callback, read and reset by `read_serial` |
| Serial transport, `read_serial`/`write_serial` | the caller's buffer, the deadline | read with a timeout, flush (timeout 0), write | `platform.read`/`platform.write` of nanomodbus |
| nanomodbus client, `nanomodbus.c` | `nmbs.msg` (buffer, index), `byte_timeout_ms` | reads and writes of coils, registers and file records, device identification, raw PDUs | two of its functions are called by the character device under `modbus_lock` |
| nanomodbus server, `nanomodbus.c` | `nmbs.msg`, callbacks | `nmbs_server_poll`: receive a request, check it, call the callbacks, answer; receive the answers of other units | the other end of the client's bus; compiled out of the driver |
| Character device, `serial_modbus_main.c` | a start address per open file, `modbus_lock`, a kernel buffer per call | open, release, read, write, ioctl | user programs, the client |
| Module lifecycle, `my_init`, `my_exit`, probe, remove | what is registered, allocated, initialized; `modbus_dev.serdev` | load, unload, probe, remove | the kernel's serdev bus |
| Hash table, `ht.c` | `entries`, `capacity`, `length` | get, set (growing), iterate | the name map of `serial_control` |
| `serial_control.c` | buffer, table, list, fd; the mapping | read the mapping file, carry out commands, clean up on error or signal | driver, hash table, signals |
| `serial_demo.c` | `fd`, a buffer of 64 registers | a fixed sequence of calls, cleanup on a signal | driver |
| Scripts | none of their own | insmod, start-stop-daemon | driver, `serial_control` |

What is hard to test: reader, writer and reset interleave byte by byte in the
fifo; bytes arrive while `read_serial` polls and its deadline passes anywhere;
answers come late, in part, garbled or never; on a bus with several units the
server has to guess where the messages of the others end; several threads and files share one
client; the serial device is probed in the middle of loading; signals interrupt
`serial_control` between any two steps. `PROJECT.json` lists these hazards with
their source lines and the properties that watch them.

## Modules

```
ByteQueue  <= ByteFifo        refinement, proved and checked
              ByteFifoProofs
ReadSerial                    polls the queue ByteFifo implements
              ReadSerialProofs
ModbusFrames                  frames, checksum, the device's registers
Transaction <= ModbusClient   refinement, proved and checked; INSTANCEs ReadSerial
              ModbusClientProofs
ModbusDriver                  threads and files over Transaction
              ModbusDriverProofs
ModbusPdu                     every function of nanomodbus on bytes (extends ModbusFrames)
ModbusBus                     client, server, another unit and a line over ModbusPdu
              ModbusBusProofs
ModuleLifecycle               loading, unloading, probing
SerialDemo                    serial_demo over ModuleLifecycle
              SerialDemoProofs, about both
KeyMap     <= HashTable       refinement, proved and checked
              HashTableProofs
SerialControl                 the program over the map HashTable implements
              SerialControlProofs
```

Each `MC*` module extends one of these for TLC. Definitions named in a comment
"Mutant of X" are wrong versions of X, used to see that a property notices a
plausible bug; no specification uses them.

**ByteFifo.** One action per critical section: `byte_fifo_write` stores one byte
(`WriteStore`) or, when the ring is full, drops the oldest (`WriteDrop`) and only
then stores; `byte_fifo_read` takes one byte (`ReadTake`) or ends. The bytes are
their positions in the stream, so that order and loss can be stated. The producer
is the receive callback, the consumer the thread in `read_serial`, which reads or
resets. `delivered`, `overwritten` and `cleared` are history.

**ReadSerial.** `Start`, `While`, `Take`, `EndPoll`, `Return` are the lines of
`read_serial`; `Flush` is a call with timeout 0. The clock is only ever compared
with the call's deadline, so it is `before`, `at` or `after` it and moves at any
time. Each poll stores from the start of `buf`, as in the code.

**ModbusClient.** One stage per `recv` of an answer: unit id, function code, byte
count, registers or echo or exception, checksum; every error path of
`recv_res_header`, `recv_read_registers_res` and `recv_write_single_register_res`.
The registers are stored before the checksum is compared. `byte_timeout` follows
the swap in `recv_msg_header`. Device and line are external: the device answers
once, later or not at all; the line loses or garbles bytes. The checksum is ideal.

**Transaction** says what the client promises: a call ends; a request is carried
out at most once; a success hands out one whole answer of the device; and, when
nothing of an earlier call was under way at the flush, the true one.

**ModbusDriver.** `Enter` is `modbus_dev_read`/`modbus_dev_write` up to and with
`kmalloc` (the start address is read here, before the wait for the lock),
`CopyFromUser` the `copy_from_user` of a write with the `kfree` when it fails, `Lock`
and `Unlock` the client call, `CopyToUser` the rest of a read. The client is
`Transaction`, which `ModbusClient` is shown to implement.

**ModuleLifecycle.** One action per step of `my_init` and `my_exit`, in the code's
order; registration probes a present device before it returns. `ClientInit` has no
error path: `nmbs_client_create` fails only for a platform without functions or of
another transport, and `init_modbus_client` passes neither.

**ModbusPdu.** Messages are sequences of bytes. The client functions are operators
that give the refusal of their arguments, the bytes they send and the answer they
expect; a receiver is a pair of operators, how far it wants to get next
(`AnswerTarget`, `RequestTarget`) and what it makes of what it has (`AnswerCheck`,
`RequestCheck`), in the order of the code's `recv` calls and checks. A handler gives
the exception its checks end in, the answer, and the answer it would receive were
the request for another unit. Data is what the callbacks fill in, one byte `v`.

**ModbusBus.** A client, a server that is polled for ever and another unit on one
RTU line. `ClientRecv` and `ServerReceives` are the successful `recv`s,
`ClientTimeout` and `ServerTimeout` the others: a receiver may give up whenever it
has too few bytes, so every race of a timeout with a late answer is there. The
server's handling of a request is one step (`nmbs_server_poll` is sequential and
its callbacks see nothing of the line). `Page` is one round of the identification
loops. `sent`, `executed`, `served` and the `fresh`, `early`, `faults` of the client
are history. The line delivers a frame whole, without one byte, without all, or with
one byte garbled; frames keep their order. Unit 2 answers a complete request as the
server would, or with an exception, or not at all.

**SerialDemo.** `Script` is the list of calls in `main`; each may fail. The module
and the device of `ModuleLifecycle` live on beside it, and a signal ends the program
between any two calls; the next run starts with the registers the last one left. Only
the demo writes the device's registers.

**HashTable.** `ht_set` with growing entry by entry, every allocation may fail;
the hash function is chosen in `Init` among all functions into a small set.

**SerialControl.** `pc` walks through `read_map_file` and the loop of `main`;
`live` is what is allocated, the pointer variables are kept apart from it, so that
a pointer to freed memory can be seen. A signal starts `cleanup` at any point, also
inside `cleanup` started by an error or by the other signal. `%u` reads an `unsigned
long` and stores its lower 32 bits (`Scan`): a number above `ULONG_MAX` counts as
`ULONG_MAX`, which is 2^64 - 1 or, where `unsigned long` has 32 bits, `UINT_SIZE - 1`.
Both widths are constants, scaled down in the runs. The upper half of `data_t.addr` is
arbitrary. `"%30["` stores 31 bytes in `name[30]` for a name of 30 characters or more:
the store hits padding and has no effect, or the process ends in whatever way, which is
the outcome `smashed` (`Overrun`). `getline` may fail before the end of the file, which
the loop takes for its end.

## Runs

| Run | Expect | Shows |
|---|---|---|
| `fifo` | pass | the ring holds exactly the newest bytes in order; readers get them in order; every byte is in the ring, delivered, reported as overwritten, or cleared; refinement of `ByteQueue`; both loops end |
| `read_serial` | pass | no store outside the bytes asked for; exact if one poll finds everything; always returns |
| `read_serial_deliver` | violation | bytes of two polls overwrite each other, all are reported |
| `client` | pass | success means one intact answer, the true one unless an earlier answer was under way; refinement of `Transaction` |
| `client_store` | violation | the late answer to a longer read overruns the array of a shorter one, without any fault of the line |
| `driver` | pass | mutual exclusion, no leaked kernel buffer, each caller gets its own answer, each call returns |
| `bus` | pass | a result is the server's answer to this request; callbacks run only for requests sent to the server, and not more often; without faults the server always starts at the first byte of a message; on a calm bus every call is answered; what is received fits the buffer; every call returns |
| `lifecycle` | pass | the device is live only when everything is initialized; unloading and failed loading leave no device; the demo reads back what it wrote and, stopped anywhere and run again, writes only its eight registers, each with a value meant for it |
| `lifecycle_probe` | violation | the pointer a probe stores during loading is wiped by `memset` |
| `hash_table` | pass | a map under all collisions and allocation failures; probing ends; iteration is complete |
| `control` | pass | error exits release all; a signal that does not interrupt cleanup is harmless but for two windows; an access has the address and the value `%u` has read for its command, whatever was refused before; cleanup ends |
| `control_signal` | violation | a signal after `free(buffer)` frees it again |

The four violations are the findings in `PROJECT.json`. `IntactAnswer` holds
although `read_serial` overwrites: a mixed-up answer fails the checksum, so the
consequence is a failed call, not a wrong value.

Other disagreements met while modelling, not asserted by a run: `read_serial`
returns `-ETIMEDOUT` when the deadline passes in its last sleep although it has
read all bytes (`serial_modbus_main.c:102`); a silent device is reported as
`NMBS_ERROR_TRANSPORT` where `nanomodbus.h:273` says `NMBS_ERROR_TIMEOUT`; a read
of an odd count returns `count` and copies one byte less
(`serial_modbus_main.c:234`); the tail of a line refused as "Command too long" (`serial_control.c:114`) and "Invalid
command, ignored" (`serial_control.c:377`) is what the next read finds, and is carried
out when it begins with `!` or `?`; a value typed is reduced modulo 2^32 before it is
compared with `UINT16_MAX`, so that `!a=4294967297` writes 1 instead of "Invalid value
(bigger than UINT16_MAX)" (`serial_control.c:190` to `195`), and an address in the
mapping file is reduced alike (`serial_control.c:303`), which is why `AccessAsScanned`
speaks of what `%u` has read and not of the number typed or in the file; a name of
exactly 30 characters, which `serial_control.c:225` does not call too long, is stored
with its zero, 31 bytes, in `char name[30]` (`serial_control.c:188` with `190`, and
`297` with `303`); writes of 248 and
250 bytes pass the driver's limit of 125 registers (`serial_modbus_main.c:251`) and
are always refused by nanomodbus, whose limit is 123; function 16 receives up to 255
bytes after the first 7, two more than `msg.buf` holds, before it looks at the byte
count (`nanomodbus.c:1314`, the exception `RecvFitsBuffer` states); an `ids` array
that is exactly full is taken for "no values wanted", so that further ids are stored
behind it (`nanomodbus.c:878`, against `nanomodbus.h:496`); the objects of one
identification answer have no common bound (`nanomodbus.c:900`), and `order` is
indexed with an id the checksum has not confirmed (`nanomodbus.c:916`); the demo's
"Reading too much" is not refused by the driver and stores one register behind the
demo's buffer (`serial_demo.c:189`). Register 65535 cannot be addressed
(`serial_modbus_main.c:305`); bytes received before `byte_fifo_init` meet a mutex
that is not initialized (`serial_modbus_main.c:448`); the list item's `malloc` is not
checked (`serial_control.c:299`); functions 21 and 23 may have called one callback
when a later one fails (`nanomodbus.c:1585`); a broadcast read is answered with an
exception when a check fails (`nanomodbus.c:948`).

### Bounds

* `fifo`: ring of 3, batches of up to 4, a stream of 6 bytes: a batch is larger
  than the ring and the indices wrap twice. The theorems cover every size.
* `read_serial`: fifo and buffer of 3, two byte values, unlimited calls.
* `client`: two calls, so that the answer to the first can arrive in the second;
  one fault; reads of one, two and no registers, a write, a register that does not
  exist; noise bytes that look like a byte count below and above the limit.
* `driver`: two threads on one file, counts the driver takes and refuses, two
  admitted requests, ioctl on both sides of its limit. The safety properties are
  proved for any number of threads and files.
* `bus`: two plans. Without faults, every function to the server, to the other unit
  and as a broadcast, refused arguments and one malformed request for each check of
  each handler (64 calls), then a read that shows whether both ends are still in
  step. With one fault anywhere (a lost frame, a lost byte, a byte turned into 2 or
  255, a failed write), seven calls followed by a read or a write. 2 is the other
  unit's address and a small length, 255 more than every length limit. Answers
  to identifications have room for two objects (`PageSize` 7 for 246), so that
  every level takes several answers. One callback is missing for each kind of read.
* `client_store`: two reads, no faults.
* `lifecycle`: no bound but the number of open files; the demo runs any number of
  times.
* `hash_table`: initial capacity 2, three keys, two values, all hash functions
  into five values, growing to 8; symmetry in keys and values.
* `control`: files of up to two lines, two typed lines, each in one or two pieces;
  one name of exactly `MAX_NAME_LENGTH` characters and one longer one; `UINT16_MAX` 3,
  2^32 scaled to 8, so that of the numbers 1, 5 and 9 the second is too large for a
  register and the third is reduced to 1. Files with two names the program takes are
  left to the proofs. Deadlock is not checked: the process ends.

### Fairness

The fifo's loops and `read_serial` are weakly fair: a thread that can run does, and
the clock advances. Nothing is assumed of the device, the line or the producer's
demand. In `ModbusDriver` the client call ends (shown in `read_serial` for each `recv` and in
`bus` for whole calls) and
`mutex_lock` is strongly fair: kernel mutexes hand over to waiters in turn. In
`ModbusBus` only the client's thread is fair, and its `recv` returns because
`platform.read` has a timeout; nothing is assumed of the servers. In
`SerialControl` the process is scheduled; signals and typing are not fair.

## Proofs

`ByteFifoProofs` (for every ring size, batch length and read length): the
inductive invariant is `TypeOK /\ BatchContinues /\ RingHoldsNewest /\
DeliveredInOrder /\ Accounting`. `RingHoldsNewest` ties every occupied slot to a
stream position; it is not inductive alone, because the next store needs the
position of the batch under way (`BatchContinues`). `RefinesQueue` maps the ring to
the sequence of its contents and shows step by step that each critical section is
one step of `ByteQueue`.

`ReadSerialProofs` (for every fifo, buffer, count and any bytes): `IInv` is `TypeOK`,
`StaysInBuffer` and `OnePollStores`. `SinglePollExact` speaks of calls that return;
`OnePollStores` says what it needs on the way, that the buffer holds what the call
took as long as only one poll took something.

`ModbusClientProofs` (for any requests, device, fifo, delays, noise and number of
faults) proves type correctness, `IntactAnswer`, `FreshAnswer` and that the client
implements `Transaction`, the promise `ModbusDriverProofs` builds on. The theorems
assume `BufSize >= 260`, the size of `nmbs.msg.buf`; the runs take 12 bytes and noise
that fits them. `ClientAssumption` says that the requests are those the driver makes
(functions 3 and 16, as many data bytes as registers need) and that noise is a byte.
`IInv` has six parts: `SerialInv` and `WorldInv` say what bytes can be in the buffer,
the fifo and on the line; `StageInv` where in `msg.buf` each `recv` stores;
`HeaderInv` what the bytes before it have been found to be; `QuietInv` that after a
quiet flush only the answer to this request comes; `ResultInv` is the properties. The
argument is about the checksum: the byte compared in `recv_msg_footer` covers an
answer, an exception or, left in the buffer from sending, the request itself. An
exception has another function code, and a request another length, so success means
an answer of the device; on a quiet line the byte came with this very `recv`, so it
is the answer to this request. That read_serial overwrites its own bytes therefore
costs a call, never a wrong value. The checksum is ideal, as in the model.

`ModbusDriverProofs` (for any threads, files, counts and device): `IInv` is the
shape of the state, `LockProtectsClient`, `NothingLeaks`, and `ResultHolds`: while
the client has a result and was quiet, the result is true of the device. The last
is what `OwnAnswer` needs at the moment the lock is released. `TypeCorrect` adds
that an open file never holds an address the ioctl refuses.

`SerialDemoProofs` (any number of open files and of demo runs): `LifeInv` of
`ModuleLifecycle` says how far loading or unloading got (`Stage`), that only a loaded
module has open files (`Files`) and that only a registered driver has a device
(`Probes`). It carries over to `DemoSpec`, because every step of the demo is a step of
the module or leaves it alone. `DemoInv` adds which registers the calls so far have
written, and that an open file's address is 0 or 4, 0 until the first `ioctl`, which
`WritesInPlace` needs when calls have failed.

`HashTableProofs` (any keys, values, hash function, initial capacity and number of
growths): `IInv` is `TableInv`, `CallInv`, `ExpandInv` and `IterInv`. The heart is
`Table`: every key is at the slot where a search for it stops, that is, the slots
before it hold other keys. It survives a store in the first free slot because no
other search stopped there before its own key. `ExpandInv` says the same of the
array being filled and that it holds exactly the items moved so far. The load factor
`2 * length <= capacity` gives every search a free slot. `Slot` is a `CHOOSE` in the
model; the proofs show that it has a witness by taking the least probe distance that
stops.

`SerialControlProofs` (any names, numbers, mapping file, typed lines and signals):
`IInv` adds to the three safety properties where main is and who started `cleanup`
(`ControlInv`), the line of the file (`FileInv`), which pointers are set
(`PointerInv`), what is allocated while main runs (`HeldInv`) and while `cleanup` runs
(`CleanupInv`), what the table and the command in hand say (`DataInv`, `AccessInv`)
and the bound on memory (`BoundInv`). `InterruptIsSafe` speaks of the end; it needs
`CleanupInv`, which names the windows where a pointer is stale and says what `cleanup`
has still to free everywhere else. `AccessAsScanned` needs `DataInv` (the table leads to
the last line of each name) and `AccessInv` (a write on its way to the driver has passed
the comparison with `UINT16_MAX`). `ControlAssumption` asks of the scaled-down widths
only that `UINT16_MAX < UINT_SIZE <= ULONG_MAX + 1`.

`ModbusBusProofs` (any calls, objects, callbacks, noise and number of faults) proves
`RecvFitsBuffer`, `ExecutedWasSent`, `InSync` and the first half of `EndToEnd`.
`BusAssumption` gives the calls the types of
the functions' parameters (`WellFormed`: `uint8_t` and `uint16_t`, bytes as data), says
that callbacks fill in bytes and end in codes of a byte, that ids of objects are bytes,
and that each object fits an answer of `PageSize <= 246` bytes: a larger one would make
the server send the same page for ever. `IInv` has four parts. `ClientOK` and `ServerOK`
say where the two receivers can be: they wait for more bytes than they have, and a byte
count they go by has been compared with its limit, but for function 16, which receives
first (`Checked`). That gives `RecvFitsBuffer`, with the two bytes too many and without
a bound for identification, as the property says. `WorldInv` says that unit 2 has only
heard requests to itself. `BagsOK` is the argument for `ExecutedWasSent`, which is not
inductive alone: for every message `p` with address 1 or 0, the times it was executed
and the last checksum bytes of `p` in what the server has and will read add up to at
most the times it was sent. A handler uses up one such byte, since the checksum it
compared ends the message it received; sending a request adds one and counts as sent;
answers go to the client, and those of the server and of unit 2 that the server hears
are about other messages; a byte lost or garbled never makes such a byte, the checksum
being ideal. The length lemmas about `AnswerTarget` and `RequestTarget` (a receiver
never asks for less than it has, though the objects of an identification are found by
a recursive function) carry the first two parts.

`InSync` has an invariant of its own, `Sync`: while there has been no fault, what the
server has read and what it will read are whole messages one behind another. A message
is found by its last checksum byte, which occurs nowhere else in it. A request the
server accepts ends at such a byte, so what follows begins a message; every other end
of a poll flushes. That the server guesses the length of what it overhears, from a
table made for requests, therefore costs messages and never its place in the stream.

`AnswersRequest` is the first half of `EndToEnd` for every call that is not raw.
`Follows` is its invariant: once `msg_state_req` has flushed on a quiet bus, either the
server is reading what arrived of the request and the client has nothing (`Asked`), or
the server is idle and the client has nothing or what arrived of the server's last
answer (`Replied`). Whatever arrives, a receiver that finds its checksum right has the
whole message and nothing after it (`ArrivedWhole`): the end of a message occurs once in
what was sent and a fault never adds one, and no more arrives than was sent. The case
that needs care is a request whose function code was garbled into one the server does
not know: it answers with an exception after two bytes, before any checksum, and if the
garbled code is that of the request plus 128 the exception has the code of the request.
The client does not take it for an answer because it has five bytes and says that it
has one more (`UnknownRefused`).

Only model-checked:

* The rest of `EndToEnd`. Its first half holds for the raw calls of the run and not for
  every raw call: the server answers a function it does not know after the two bytes of
  the header, so `served.request` is then not the request, and a raw receiver with room
  for one byte takes the exception to a garbled code for the answer. Its second half,
  that an identification lists every object, is a fact about the concatenation of pages,
  which needs induction over data.
* `CalmCallAnswered`. It is true of the calls of the run, which carry as much data as
  their quantity says, leave room for the objects and meet exception codes 1 to 4, and
  false of others the types allow.
* All liveness (`TransfersEnd`, `CallReturns`, `CleanupEnds`). TLAPS handles neither
  fairness nor `ENABLED`, nor induction with an operator for the hypothesis.

## Not modelled

The TCP branch of nanomodbus (the driver creates an RTU client only); the bits of
CRC-16 (an undetected corruption is outside the model); the data of callbacks beyond
one value; the bytes behind a request that `handle_write_file_record` walks into
when a record is longer than the request (modelled as the refusal the walk ends in);
file-record answers longer than a message, and with them the overflow of `length * 2`
in 16 bits (`nanomodbus.c:815`); a limit of the server's flush, which empties the line
in the model: `flush` reads at most 260 bytes (`nanomodbus.c:191`), but does so with a
timeout of 0, for which this repository's `read_serial` resets the whole fifo
(`serial_modbus_main.c:70`), and no message of the run is that long; the error path of
`init_modbus_client`, which cannot be taken with the arguments passed
(`serial_modbus_main.c:453`); characters of names and formatting of
messages; baud rate and device-tree matching; the shell scripts, which keep no
state; reentrancy of the C library inside the signal handler.

## Plan

1. Done: fifo, transport, client, driver, lifecycle, hash table, `serial_control`;
   all client functions and the server on a shared bus; `serial_demo` over the
   lifecycle.
2. Done: theorems for every safety property of every module but the two of
   `ModbusBus` named above, and the three refinements.
3. Open: `CalmCallAnswered` for calls whose data have the length their quantity says,
   which takes one case for each function: its request passes the limits of its handler,
   and the answer those of the client.
