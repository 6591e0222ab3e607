--------------------------- MODULE SerialControl ----------------------------
(***************************************************************************)
(* The program serial_control (serial_control.c): it reads a mapping of    *)
(* names to registers, then carries out the commands typed at its standard *)
(* input.  SIGINT or SIGTERM may arrive between any two steps and run      *)
(* cleanup on whatever memory there is.                                    *)
(*                                                                         *)
(* The mapping is the map HashTable is shown to implement.  External: the  *)
(* terminal hands over a line in pieces when it does not fit the read; the *)
(* driver answers as in ModbusDriver; signal() blocks a signal only while  *)
(* its own handler runs.                                                   *)
(***************************************************************************)
EXTENDS Integers, Sequences, FiniteSets, SequencesExt

CONSTANTS
  Name,        \* names of registers
  FullName,    \* those of MAX_NAME_LENGTH characters
  LongName,    \* those of more
  NoName,
  Number,      \* numbers in the file and in commands
  NoNumber,    \* text where a number is expected
  UINT16_MAX,
  UINT_SIZE,   \* 2^32: what %u stores is a number modulo this
  ULONG_MAX,   \* the largest number the C library reads for it
  Upper,       \* what malloc may leave in the upper half of data_t.addr
  MaxLines,    \* bound: lines in the mapping file
  MaxTyped     \* bound: lines typed

ASSUME ControlAssumption ==
  /\ FullName \subseteq Name /\ LongName \subseteq Name /\ NoName \notin Name
  /\ Number \subseteq Int /\ NoNumber \notin Number
  /\ UINT16_MAX \in Nat \ {0} /\ UINT_SIZE \in Nat /\ UINT16_MAX < UINT_SIZE
  /\ ULONG_MAX \in Nat /\ UINT_SIZE - 1 <= ULONG_MAX
  /\ Upper \subseteq Nat
  /\ MaxLines \in Nat

VARIABLES
  pc,                         \* the next step of main and what it calls
  buffer, hash_table, fd,     \* the pointer is not NULL, the file is open
  list,                       \* the list_items from list_head to list_root
  live,                       \* external: what is allocated
  map,                        \* the contents of hash_table
  addr,                       \* data_t.addr of each list_item
  file, line_nr,              \* external: the mapping file; line read last
  stdin, typed,               \* external: pieces to read; lines typed
  piece,                      \* what buffer holds
  start_address, access,      \* external: the driver; the last access to it
  step, list_item, status,    \* cleanup: where it is; what exit will say
  blocked,                    \* signals whose handler runs
  reentered,                  \* history: a signal interrupted cleanup
  outcome                     \* how the process ended

pointers == <<buffer, hash_table, fd, list>>
mapping == <<map, addr, file, line_nr>>
input == <<stdin, typed>>
driver == <<start_address, access>>
ending == <<step, list_item, status, blocked, reentered>>
vars == <<pc, pointers, live, mapping, input, piece, driver, ending, outcome>>

Block(what) == <<what, 0>>
Item(n) == <<"item", n>>

\* Nothing is looked at in a line that is too long.
Line ==
  [name : Name, number : Number \cup {NoNumber}, too_long : {FALSE}]
  \cup [name : {NoName}, number : {NoNumber}, too_long : {TRUE}]

\* Nothing of a command, or the start of a line too long for one read.
NoPiece == [start |-> "none", name |-> NoName, number |-> NoNumber,
            newline |-> FALSE]

\* What the read of the end of a line, or of a line that fits one read, finds.
Piece ==
  [start : {"!"}, name : Name, number : Number \cup {NoNumber}, newline : {TRUE}]
  \cup [start : {"?"}, name : Name, number : {NoNumber}, newline : {TRUE}]
  \cup [start : {"x"}, name : {NoName}, number : {NoNumber}, newline : {TRUE}]

NoAccess == [piece |-> NoPiece, address |-> 0, value |-> 0]

Init ==
  /\ pc = "open"
  /\ buffer = FALSE /\ hash_table = FALSE /\ fd = FALSE
  /\ list = <<>> /\ live = {}
  /\ map = [n \in {} |-> 0] /\ addr = <<>>
  /\ file \in BoundedSeq(Line, MaxLines) /\ line_nr = 0
  /\ stdin = <<>> /\ typed = 0 /\ piece = NoPiece
  /\ start_address = 0 /\ access = NoAccess
  /\ step = "none" /\ list_item = <<>> /\ status = "running"
  /\ blocked = {} /\ reentered = FALSE
  /\ outcome = "running"

\* %u of sscanf: the C library reads an unsigned long, or ULONG_MAX for a
\* number that is none, and stores its lower 32 bits.
Scan(number) ==
  (IF number \in -ULONG_MAX .. ULONG_MAX THEN number ELSE ULONG_MAX) % UINT_SIZE

\* "%30[" stores 30 characters and a zero, one byte more than name[30] has, when
\* the name is that long.  The byte behind the array is padding, and the store
\* has no effect, or another one, and the process ends in whatever way.
Overrun(name) ==
  /\ name \in FullName \cup LongName
  /\ outcome' = "smashed"
  /\ UNCHANGED <<pc, live, ending>>

\* free() of the blocks S; undefined when one of them is not allocated, which
\* the C library answers with abort().
Free(S) ==
  /\ live' = live \ S
  /\ outcome' = IF S \subseteq live THEN outcome ELSE "aborted"

\* main may take its next step: it does not wait for a handler or cleanup().
At(p) == pc = p /\ step = "none"

\* terminate_with_error, after freeing S.
Fail(S) ==
  /\ Free(S)
  /\ step' = "buffer" /\ status' = "failure"
  /\ UNCHANGED <<pc, list_item, blocked, reentered>>

\* On to the next step of main, with the memory S.
Go(p, S) == pc' = p /\ live' = S /\ UNCHANGED <<ending, outcome>>
-----------------------------------------------------------------------------
(* main, up to its loop, and read_map_file.                                *)

Open ==
  /\ At("open")
  /\ \/ Go("ht_create", live \cup {Block("fd")}) /\ fd' = TRUE
     \/ outcome' = "failure" /\ UNCHANGED <<pc, live, ending, fd>>
  /\ UNCHANGED <<buffer, hash_table, list, mapping, input, piece, driver>>

CreateTable ==
  /\ At("ht_create")
  /\ \/ Go("fopen", live \cup {Block("table"), Block("entries")}) /\ hash_table' = TRUE
     \/ Fail({}) /\ UNCHANGED hash_table
  /\ UNCHANGED <<buffer, fd, list, mapping, input, piece, driver>>

OpenMap ==
  /\ At("fopen")
  /\ \/ Go("getline", live \cup {Block("map_file")})
     \/ Fail({})
  /\ UNCHANGED <<pointers, mapping, input, piece, driver>>

\* What read_map_file allocates for itself.
Local == live \cap {Block("line_buf"), Block("map_file")}

\* Mutant of GetLine: the line is freed, the file stays open.
GetLineKeepsFile ==
  /\ At("getline")
  /\ \/ Go("malloc", live \ Local) /\ UNCHANGED line_nr
     \/ /\ line_nr < Len(file)
        /\ line_nr' = line_nr + 1
        /\ IF file[line_nr + 1].too_long
             THEN Fail(Local \ {Block("map_file")})
             ELSE Go("malloc_item", live \cup {Block("line_buf")})
  /\ UNCHANGED <<pointers, map, addr, file, input, piece, driver>>

\* The end of the file, or an error of getline before it, ends the loop, a long
\* line the program.
GetLine ==
  /\ At("getline")
  /\ \/ Go("malloc", live \ Local) /\ UNCHANGED line_nr
     \/ /\ line_nr < Len(file)
        /\ line_nr' = line_nr + 1
        /\ IF file[line_nr + 1].too_long
             THEN Fail(Local)
             ELSE Go("malloc_item", live \cup {Block("line_buf")})
  /\ UNCHANGED <<pointers, map, addr, file, input, piece, driver>>

\* The result of malloc is not checked.
MallocItem ==
  /\ At("malloc_item")
  /\ \/ Go("link", live \cup {Item(line_nr)})
     \/ outcome' = "crashed" /\ UNCHANGED <<pc, live, ending>>
  /\ UNCHANGED <<pointers, mapping, input, piece, driver>>

Link ==
  /\ At("link")
  /\ list' = <<Item(line_nr)>> \o list
  /\ Go("sscanf", live)
  /\ UNCHANGED <<buffer, hash_table, fd, mapping, input, piece, driver>>

\* "%30[^,],%u" matches both fields.
LineOK(line) == line.name \notin LongName /\ line.number # NoNumber

\* Mutant of ScanLine: the number of matches is not checked.
ScanLineUnchecked ==
  /\ At("sscanf")
  /\ LET line == file[line_nr] IN
     IF LineOK(line)
       THEN \E u \in Upper : addr' = Append(addr, Scan(line.number) + u * UINT_SIZE)
       ELSE UNCHANGED addr
  /\ Go("ht_set", live)
  /\ UNCHANGED <<pointers, map, file, line_nr, input, piece, driver>>

\* The number goes into the lower half of a pointer that malloc left as it was.
ScanLine ==
  /\ At("sscanf")
  /\ LET line == file[line_nr] IN
     \/ /\ LineOK(line)
        /\ \E u \in Upper : addr' = Append(addr, Scan(line.number) + u * UINT_SIZE)
        /\ Go("ht_set", live)
     \/ /\ ~LineOK(line)
        /\ Fail(Local)
        /\ UNCHANGED addr
     \/ Overrun(line.name) /\ UNCHANGED addr
  /\ UNCHANGED <<pointers, map, file, line_nr, input, piece, driver>>

\* ht_expand frees the entries before table->entries points to the new ones.
GrowFree ==
  /\ At("ht_set")
  /\ Go("grow", live \ {Block("entries")})
  /\ UNCHANGED <<pointers, mapping, input, piece, driver>>

GrowSet ==
  /\ At("grow")
  /\ Go("ht_set_entry", live \cup {Block("entries")})
  /\ UNCHANGED <<pointers, mapping, input, piece, driver>>

\* Mutant of SetEntry: the first line of a name counts.
SetEntryFirst ==
  /\ pc \in {"ht_set", "ht_set_entry"} /\ step = "none"
  /\ \/ /\ map' = [n \in DOMAIN map \cup {file[line_nr].name} |->
                     IF n \in DOMAIN map THEN map[n] ELSE line_nr]
        /\ Go("getline", live)
     \/ Fail(Local) /\ UNCHANGED map
  /\ UNCHANGED <<pointers, addr, file, line_nr, input, piece, driver>>

\* The rest of ht_set: the name is bound to the list_item, or memory is short.
SetEntry ==
  /\ pc \in {"ht_set", "ht_set_entry"} /\ step = "none"
  /\ \/ /\ map' = [n \in DOMAIN map \cup {file[line_nr].name} |->
                     IF n = file[line_nr].name THEN line_nr ELSE map[n]]
        /\ Go("getline", live)
     \/ Fail(Local) /\ UNCHANGED map
  /\ UNCHANGED <<pointers, addr, file, line_nr, input, piece, driver>>
-----------------------------------------------------------------------------
(* The loop of main.                                                       *)

MallocBuffer ==
  /\ At("malloc")
  /\ \/ Go("read", live \cup {Block("buffer")}) /\ buffer' = TRUE
     \/ Fail({}) /\ buffer' = FALSE
  /\ UNCHANGED <<hash_table, fd, list, mapping, input, piece, driver>>

\* The read fails or meets the end of the input.
ReadNothing ==
  /\ At("read")
  /\ Go("free", live)
  /\ UNCHANGED <<pointers, mapping, input, piece, driver>>

\* A piece without newline is "too long"; others have to start like a command.
validate_and_prepare_input(p) == p.newline /\ p.start \in {"!", "?"}

\* The write command goes as far as the driver.  "%30[^=]=%u" matches both
\* fields only when the name fits.
handle_write_command(p) ==
  /\ p.start = "!"
  /\ p.name \notin LongName /\ p.number # NoNumber
  /\ Scan(p.number) <= UINT16_MAX
  /\ p.name \in DOMAIN map

\* The read command goes as far as the driver.
handle_read_command(p) ==
  /\ p.start = "?"
  /\ p.name \notin LongName
  /\ p.name \in DOMAIN map

Accepted(p) ==
  validate_and_prepare_input(p) /\ (handle_write_command(p) \/ handle_read_command(p))

ReadCommand ==
  /\ At("read")
  /\ stdin # <<>>
  /\ piece' = Head(stdin)
  /\ stdin' = Tail(stdin)
  /\ \/ Go(IF Accepted(Head(stdin)) THEN "ioctl" ELSE "free", live)
     \/ /\ validate_and_prepare_input(Head(stdin)) /\ Head(stdin).start = "!"
        /\ Overrun(Head(stdin).name)
  /\ UNCHANGED <<pointers, mapping, typed, driver>>

\* The ioctl refuses an address that is too large.
set_modbus_address ==
  /\ At("ioctl")
  /\ LET address == addr[map[piece.name]] IN
     \/ /\ address < UINT16_MAX
        /\ start_address' = address
        /\ Go("access", live)
     \/ /\ address >= UINT16_MAX
        /\ Go("free", live)
        /\ UNCHANGED start_address
  /\ UNCHANGED <<pointers, mapping, input, piece, access>>

\* read_from_modbus or write_to_modbus of one register; its result is printed.
Access ==
  /\ At("access")
  /\ access' = [piece |-> piece, address |-> start_address,
                value |-> IF piece.start = "!" THEN Scan(piece.number) ELSE 0]
  /\ Go("free", live)
  /\ UNCHANGED <<pointers, mapping, input, piece, start_address>>

\* The pointer keeps its value.
FreeBuffer ==
  /\ At("free")
  /\ Free({Block("buffer")})
  /\ pc' = "malloc"
  /\ piece' = NoPiece
  /\ UNCHANGED <<pointers, mapping, input, driver, ending>>
-----------------------------------------------------------------------------
(* handle_signal and cleanup.                                              *)

\* SIGINT and SIGTERM: terminate_normally, which never returns to what it
\* interrupted, be it main or cleanup itself.
handle_signal(s) ==
  /\ s \notin blocked
  /\ blocked' = blocked \cup {s}
  /\ reentered' = (reentered \/ step # "none")
  /\ step' = "buffer" /\ status' = "success"
  /\ UNCHANGED <<pc, pointers, live, mapping, input, piece, driver, list_item, outcome>>

\* cleanup changes memory and its own progress, no pointer.
CleanupOnly == UNCHANGED <<pc, pointers, mapping, input, piece, driver, status, blocked, reentered>>

CleanupBuffer ==
  /\ step = "buffer"
  /\ Free(IF buffer THEN {Block("buffer")} ELSE {})
  /\ step' = "table"
  /\ CleanupOnly /\ UNCHANGED list_item

\* Mutant of CleanupTable: the table is not destroyed.
CleanupTableForgotten ==
  /\ step = "table"
  /\ step' = "list"
  /\ list_item' = list
  /\ CleanupOnly /\ UNCHANGED <<live, outcome>>

\* ht_destroy, then list_item = list_head.
CleanupTable ==
  /\ step = "table"
  /\ Free(IF hash_table THEN {Block("table"), Block("entries")} ELSE {})
  /\ step' = "list"
  /\ list_item' = list
  /\ CleanupOnly

\* Mutant of CleanupItem: list_item is not moved on.
CleanupItemStays ==
  /\ step = "list" /\ list_item # <<>>
  /\ UNCHANGED <<live, outcome, step, list_item>>
  /\ CleanupOnly

CleanupItem ==
  /\ step = "list" /\ list_item # <<>>
  /\ Free({Head(list_item)})
  /\ list_item' = Tail(list_item)
  /\ CleanupOnly /\ UNCHANGED step

\* Closing a file twice is only an error; then exit.
CleanupClose ==
  /\ step = "list" /\ list_item = <<>>
  /\ live' = IF fd THEN live \ {Block("fd")} ELSE live
  /\ outcome' = status
  /\ CleanupOnly /\ UNCHANGED <<step, list_item>>
-----------------------------------------------------------------------------
\* A line is typed: it fits one read, or is read in two pieces.  The terminal
\* keeps it until it is read: a line typed earlier is no different.
Type ==
  /\ At("read")
  /\ stdin = <<>>
  /\ typed < MaxTyped
  /\ typed' = typed + 1
  /\ \E end \in Piece : stdin' \in {<<end>>, <<NoPiece, end>>}
  /\ UNCHANGED <<pc, pointers, live, mapping, piece, driver, ending, outcome>>

Startup ==
  \/ Open \/ CreateTable \/ OpenMap \/ GetLine \/ MallocItem \/ Link \/ ScanLine
  \/ GrowFree \/ GrowSet \/ SetEntry

Loop ==
  \/ MallocBuffer \/ ReadNothing \/ ReadCommand \/ set_modbus_address \/ Access
  \/ FreeBuffer

cleanup == CleanupBuffer \/ CleanupTable \/ CleanupItem \/ CleanupClose

Running(A) == outcome = "running" /\ A

Next ==
  \/ Running(Startup) \/ Running(Loop) \/ Running(cleanup) \/ Running(Type)
  \/ \E s \in {"SIGINT", "SIGTERM"} : Running(handle_signal(s))

Spec == Init /\ [][Next]_vars

\* The process is scheduled.
FairSpec == Spec /\ WF_vars(Running(Startup)) /\ WF_vars(Running(Loop)) /\ WF_vars(Running(cleanup))
-----------------------------------------------------------------------------
(* Properties.                                                             *)

TypeOK ==
  /\ {buffer, hash_table, fd} \subseteq BOOLEAN
  /\ live \subseteq {Block(b) : b \in {"fd", "table", "entries", "map_file", "line_buf", "buffer"}}
                    \cup {Item(n) : n \in 1 .. MaxLines}
  /\ DOMAIN map \subseteq Name \ LongName
  /\ \A n \in DOMAIN map : map[n] \in 1 .. Len(addr)
  /\ start_address \in 0 .. UINT16_MAX - 1
  /\ step \in {"none", "buffer", "table", "list"}
  /\ outcome \in {"running", "success", "failure", "aborted", "crashed", "smashed"}

\* terminate_with_error: whatever fails while the program starts or runs, it
\* ends with nothing left allocated or open, the locals of read_map_file
\* included.
ErrorExitReleasesAll == outcome = "failure" => live = {}

\* cleanup frees nothing twice unless a signal interrupts it, be it one that
\* another signal or one that an error has started: any other signal does only
\* while buffer or table->entries points to memory that is free.  A signal that
\* arrives while the program waits for a command, or carries one out, ends it
\* with everything released.
InterruptIsSafe ==
  ~reentered =>
    /\ outcome = "aborted" => blocked # {} /\ pc \in {"malloc", "grow"}
    /\ blocked # {} /\ outcome # "running" /\ pc \in {"read", "ioctl", "access", "free"} =>
         outcome = "success" /\ live = {}

\* The number the file's last line for a name gives.
Mapped(name) ==
  file[CHOOSE n \in 1 .. line_nr :
         file[n].name = name /\ \A m \in n + 1 .. line_nr : file[m].name # name].number

\* What reaches the driver is a register and a value as sscanf has read them,
\* and of no other line or command: the address is %u of the number in the last
\* line of the file for the name, whatever was in the memory it was stored in
\* and whichever commands were refused before, and the value is %u of the number
\* typed and fits a register.  These are the numbers in the file and typed only
\* below 2^32: "!a=4294967297" writes 1, although the program has a message that
\* refuses values "bigger than UINT16_MAX" (line 195).
AccessAsScanned ==
  access # NoAccess =>
    /\ access.address = Scan(Mapped(access.piece.name))
    /\ access.piece.start = "!" =>
         access.value = Scan(access.piece.number) /\ access.value <= UINT16_MAX

\* Once a signal or an error has started cleanup the process ends.
CleanupEnds == step # "none" ~> outcome # "running"

\* serial_control.c, 83: a signal makes the program "Terminating normally".
SignalTerminatesNormally == blocked # {} => outcome # "aborted"
=============================================================================
