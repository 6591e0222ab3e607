------------------------ MODULE SerialControlProofs --------------------------
(***************************************************************************)
(* Proofs about serial_control, for any names and numbers, any length of   *)
(* the mapping file, any commands and any signals.                         *)
(***************************************************************************)
EXTENDS SerialControl, SequenceTheorems, TLAPS

\* Where main can be: in read_map_file, in its loop, with a command in hand.
Reading == {"getline", "malloc_item", "link", "sscanf", "ht_set", "grow", "ht_set_entry"}
Commanding == {"read", "ioctl", "access", "free"}
Looping == Commanding \cup {"malloc"}

\* The first n list_items, and the list of them, the last one first.
ListOf(n) == [j \in 1 .. n |-> Item(n + 1 - j)]

\* The blocks named in N and the first n list_items.
Memory(N, n) == {Block(b) : b \in N} \cup {Item(m) : m \in 1 .. n}

\* Signals and errors: who started cleanup.
ControlInv ==
  /\ pc \in {"open", "ht_create", "fopen"} \cup Reading \cup Looping
  /\ step \in {"none", "buffer", "table", "list"}
  /\ step = "none" => blocked = {} /\ ~reentered
  /\ step # "none" => status \in {"success", "failure"}
  /\ status = "failure" => blocked = {} /\ ~reentered /\ pc # "open"
  /\ status = "success" => blocked # {}
  /\ outcome \in {"running", "success", "failure", "aborted", "crashed", "smashed"}

\* The line of the file that main is at.
FileInv ==
  /\ file \in Seq(Line) /\ Len(file) <= MaxLines
  /\ line_nr \in 0 .. Len(file)
  /\ pc \in {"open", "ht_create", "fopen"} => line_nr = 0
  /\ pc \in Reading \ {"getline"} => line_nr > 0 /\ ~file[line_nr].too_long

\* The pointers tell which of the blocks were allocated.
PointerInv ==
  /\ fd <=> pc # "open"
  /\ hash_table <=> pc \notin {"open", "ht_create"}
  /\ pc \in Commanding => buffer
  /\ pc \notin Looping => ~buffer
  /\ Len(list) \in 0 .. line_nr /\ list = ListOf(Len(list))

\* What main holds while neither a signal nor an error has stopped it.
HeldBlocks ==
  (IF pc # "open" THEN {"fd"} ELSE {})
  \cup (IF pc \notin {"open", "ht_create"} THEN {"table"} ELSE {})
  \cup (IF pc \notin {"open", "ht_create", "grow"} THEN {"entries"} ELSE {})
  \cup (IF pc \in Reading THEN {"map_file"} ELSE {})
  \cup (IF pc \in Reading /\ (pc = "getline" => line_nr > 0) THEN {"line_buf"} ELSE {})
  \cup (IF pc \in Commanding THEN {"buffer"} ELSE {})

HeldItems == IF pc = "malloc_item" THEN line_nr - 1 ELSE line_nr

HeldMemory == Memory(HeldBlocks, HeldItems)

\* main is running, and its list has the items it linked.
Going == step = "none" /\ outcome = "running"

HeldInv ==
  Going =>
    /\ live = HeldMemory
    /\ Len(list) = IF pc \in {"malloc_item", "link"} THEN line_nr - 1 ELSE line_nr

\* What cleanup has still to free.
PendingBlocks ==
  (IF step = "buffer" /\ buffer THEN {"buffer"} ELSE {})
  \cup (IF step \in {"buffer", "table"} /\ hash_table THEN {"table", "entries"} ELSE {})

Pending == Memory(PendingBlocks, IF step = "list" THEN Len(list_item) ELSE Len(list))

\* cleanup frees what is allocated, unless a signal came where a pointer is
\* stale; and after an error, or a signal in a command, it frees everything.
CleanupInv ==
  step # "none" /\ outcome = "running" =>
    /\ step = "list" => Len(list_item) \in Nat /\ list_item = ListOf(Len(list_item))
    /\ ~reentered /\ ~(blocked # {} /\ pc \in {"malloc", "grow"}) => Pending \subseteq live
    /\ ~reentered /\ (status = "failure" \/ pc \in Commanding) =>
         live \subseteq Pending \cup {Block("fd")}

\* Lines 1 .. n are in addr, with what malloc left in the upper half.
ScannedTo(n) ==
  /\ addr \in Seq(Nat) /\ Len(addr) = n
  /\ \A m \in 1 .. n :
       /\ LineOK(file[m]) /\ ~file[m].too_long
       /\ \E u \in Upper : addr[m] = Scan(file[m].number) + u * UINT_SIZE

\* The map holds the last line of every name among the lines 1 .. n.
MappedTo(n) ==
  /\ DOMAIN map = {file[m].name : m \in 1 .. n}
  /\ \A name \in DOMAIN map :
       /\ map[name] \in 1 .. n
       /\ file[map[name]].name = name
       /\ \A m \in map[name] + 1 .. n : file[m].name # name

ScanIndex == IF pc \in {"malloc_item", "link", "sscanf"} THEN line_nr - 1 ELSE line_nr
MapIndex == IF pc \in Reading \ {"getline"} THEN line_nr - 1 ELSE line_nr

DataInv ==
  /\ DOMAIN map \subseteq Name \ LongName
  /\ \A name \in DOMAIN map : map[name] \in 1 .. Len(addr)
  /\ step = "none" =>
       ScannedTo(ScanIndex) /\ MappedTo(MapIndex)

\* The address the driver has is the one of the command, whose value was found
\* to fit a register.
AccessInv ==
  /\ start_address \in 0 .. UINT16_MAX - 1
  /\ access # NoAccess => pc \in Looping
  /\ step = "none" /\ pc \in {"ioctl", "access"} =>
       /\ piece.name \in DOMAIN map
       /\ piece.start = "!" => Scan(piece.number) <= UINT16_MAX
  /\ step = "none" /\ pc = "access" =>
       start_address = Scan(file[map[piece.name]].number)

\* All that the memory of the process can be.
Pointers == {buffer, hash_table, fd} \subseteq BOOLEAN

BoundInv ==
  /\ Pointers
  /\ live \subseteq Memory({"fd", "table", "entries", "map_file", "line_buf", "buffer"},
                           MaxLines)

IInv ==
  /\ ControlInv /\ FileInv /\ PointerInv /\ HeldInv /\ CleanupInv
  /\ DataInv /\ AccessInv /\ BoundInv
  /\ ErrorExitReleasesAll /\ InterruptIsSafe /\ AccessAsScanned
-----------------------------------------------------------------------------
(* Memory and lists.                                                       *)

\* More blocks and more list_items are more memory.
LEMMA MemoryMonotone ==
  ASSUME NEW M, NEW N, NEW m \in Nat, NEW n \in Nat, M \subseteq N, m <= n
  PROVE  Memory(M, m) \subseteq Memory(N, n)
BY DEF Memory

\* The list grows at its head, and cleanup takes it apart there.
LEMMA ListOps ==
  ASSUME NEW n \in Nat
  PROVE  /\ ListOf(n) \in Seq({Item(m) : m \in Nat}) /\ Len(ListOf(n)) = n
         /\ <<Item(n + 1)>> \o ListOf(n) = ListOf(n + 1)
         /\ ListOf(n) # <<>> => n > 0
         /\ n > 0 => /\ ListOf(n) # <<>>
                     /\ Head(ListOf(n)) = Item(n)
                     /\ Tail(ListOf(n)) = ListOf(n - 1)
<1>1. ListOf(n) \in Seq({Item(m) : m \in Nat}) /\ Len(ListOf(n)) = n
  BY DEF ListOf
<1>2. <<Item(n + 1)>> \o ListOf(n) = ListOf(n + 1)
  BY <1>1 DEF ListOf
<1>3. ListOf(n) # <<>> => n > 0
  BY <1>1
<1>4. ASSUME n > 0
      PROVE  /\ ListOf(n) # <<>>
             /\ Head(ListOf(n)) = Item(n)
             /\ Tail(ListOf(n)) = ListOf(n - 1)
  <2>1. ListOf(n) # <<>> /\ Head(ListOf(n)) = Item(n)
    BY <1>1, <1>4 DEF ListOf
  <2>2. /\ Tail(ListOf(n)) \in Seq({Item(m) : m \in Nat})
        /\ Len(Tail(ListOf(n))) = n - 1
        /\ \A j \in 1 .. n - 1 : Tail(ListOf(n))[j] = ListOf(n)[j + 1]
    BY <1>1, <1>4, <2>1
  <2>3. ListOf(n - 1) \in Seq({Item(m) : m \in Nat}) /\ Len(ListOf(n - 1)) = n - 1
    BY <1>4 DEF ListOf
  <2>4. \A j \in 1 .. n - 1 : ListOf(n)[j + 1] = ListOf(n - 1)[j]
    BY <1>4 DEF ListOf
  <2>5. Tail(ListOf(n)) = ListOf(n - 1)
    BY <2>2, <2>3, <2>4, SeqEqual
  <2> QED BY <2>1, <2>5
<1> QED BY <1>1, <1>2, <1>3, <1>4
-----------------------------------------------------------------------------
(* What the kinds of steps have in common.                                 *)

\* A step of main that succeeds: no cleanup, no end.
LEMMA GoFrame ==
  ASSUME IInv, step = "none", outcome = "running", NEW p, NEW S, Go(p, S),
         p \in {"ht_create", "fopen"} \cup Reading \cup Looping
  PROVE  /\ pc' = p /\ live' = S /\ step' = "none" /\ outcome' = "running"
         /\ ControlInv' /\ CleanupInv' /\ ErrorExitReleasesAll' /\ InterruptIsSafe'
<1>1. /\ pc' = p /\ live' = S /\ step' = "none" /\ outcome' = "running"
      /\ UNCHANGED <<status, blocked, reentered>>
  BY DEF Go, ending
<1>2. ControlInv'
  BY <1>1 DEF IInv, ControlInv, Reading, Looping, Commanding
<1>3. CleanupInv' /\ ErrorExitReleasesAll'
  BY <1>1 DEF CleanupInv, ErrorExitReleasesAll
<1>4. InterruptIsSafe'
  BY <1>1 DEF InterruptIsSafe
<1> QED BY <1>1, <1>2, <1>3, <1>4

\* A step of main that fails, after freeing its locals.
LEMMA FailFrame ==
  ASSUME IInv, step = "none", outcome = "running", pc # "open", NEW S, Fail(S),
         S \subseteq live, ~buffer', UNCHANGED <<hash_table, list>>,
         live \ S = Memory({"fd"} \cup IF hash_table THEN {"table", "entries"} ELSE {},
                           Len(list))
  PROVE  /\ ControlInv' /\ HeldInv' /\ CleanupInv'
         /\ ErrorExitReleasesAll' /\ InterruptIsSafe'
         /\ pc' = pc /\ step' = "buffer" /\ live' \subseteq live
<1>1. /\ pc' = pc /\ step' = "buffer" /\ status' = "failure" /\ outcome' = "running"
      /\ live' = live \ S /\ UNCHANGED <<blocked, reentered>>
      /\ blocked = {} /\ ~reentered
  BY DEF Fail, Free, IInv, ControlInv
<1>2. ControlInv' /\ HeldInv' /\ ErrorExitReleasesAll' /\ InterruptIsSafe'
  BY <1>1 DEF IInv, ControlInv, Going, HeldInv, ErrorExitReleasesAll, InterruptIsSafe
<1>3. CleanupInv'
  <2> DEFINE N == IF hash_table THEN {"table", "entries"} ELSE {}
  <2>1. PendingBlocks' = N
    BY <1>1 DEF PendingBlocks
  <2>2. Pending' = Memory(N, Len(list))
    BY <1>1, <2>1 DEF Pending, Memory
  <2>3. live' = Memory({"fd"} \cup N, Len(list))
    BY <1>1
  <2>4. Pending' \subseteq live' /\ live' \subseteq Pending' \cup {Block("fd")}
    BY <2>2, <2>3 DEF Memory
  <2> QED BY <1>1, <2>4 DEF CleanupInv
<1> QED BY <1>1, <1>2, <1>3

\* Steps that leave the mapping alone.
LEMMA DataFrame ==
  ASSUME DataInv, UNCHANGED <<map, addr, file>>,
         step' = "none" => /\ step = "none"
                           /\ ScanIndex' = ScanIndex /\ MapIndex' = MapIndex
  PROVE  DataInv'
<1>1. /\ DOMAIN map' \subseteq Name \ LongName
      /\ \A name \in DOMAIN map' : map'[name] \in 1 .. Len(addr')
  BY DEF DataInv
<1>2. ASSUME step' = "none" PROVE ScannedTo(ScanIndex)' /\ MappedTo(MapIndex)'
  <2>1. ScannedTo(ScanIndex) /\ MappedTo(MapIndex)
    BY <1>2 DEF DataInv
  <2>2. ScannedTo(ScanIndex)'
    BY <1>2, <2>1 DEF ScannedTo, LineOK, Scan
  <2>3. MappedTo(MapIndex)'
    BY <1>2, <2>1 DEF MappedTo
  <2> QED BY <2>2, <2>3
<1> QED BY <1>1, <1>2 DEF DataInv

\* Steps that leave the driver alone, or come before the first access.
LEMMA CommandFrame ==
  ASSUME AccessInv, AccessAsScanned, UNCHANGED <<file, access>>,
         line_nr' = line_nr \/ pc \notin Looping
  PROVE  AccessAsScanned'
BY DEF AccessInv, AccessAsScanned, Mapped

\* Steps that are not about a command.
LEMMA AccessFrame ==
  ASSUME AccessInv, UNCHANGED driver, pc \in Looping => pc' \in Looping,
         step' = "none" => pc' \notin {"ioctl", "access"}
  PROVE  AccessInv'
BY DEF AccessInv, driver

\* What main holds is within the bound.
LEMMA HeldBound == FileInv /\ HeldInv /\ Going /\ Pointers => BoundInv
<1> SUFFICES ASSUME FileInv, HeldInv, Going, Pointers PROVE BoundInv
  OBVIOUS
<1>1. HeldBlocks \subseteq {"fd", "table", "entries", "map_file", "line_buf", "buffer"}
  BY DEF HeldBlocks
<1>2. HeldItems \in Nat /\ HeldItems <= MaxLines /\ MaxLines \in Nat
  BY ControlAssumption DEF FileInv, HeldItems, Reading
<1>3. live = Memory(HeldBlocks, HeldItems)
  BY DEF HeldInv, HeldMemory
<1> QED BY <1>1, <1>2, <1>3, MemoryMonotone DEF BoundInv

\* What main holds before a step ...
LEMMA HeldNow == HeldInv /\ Going => live = Memory(HeldBlocks, HeldItems)
BY DEF HeldInv, HeldMemory

\* ... and what it holds after a step, from where it is then.
LEMMA HeldNext == HeldMemory' = Memory(HeldBlocks', HeldItems')
BY DEF HeldMemory, Memory, Block, Item

\* A step of main that succeeds, with the memory the next step needs.
LEMMA GoIInv ==
  ASSUME IInv, Going, NEW p, NEW S, Go(p, S),
         p \in {"ht_create", "fopen"} \cup Reading \cup Looping,
         S = Memory(HeldBlocks', HeldItems'),
         Len(list') = IF p \in {"malloc_item", "link"} THEN line_nr' - 1 ELSE line_nr',
         FileInv', PointerInv', Pointers', DataInv', AccessInv', AccessAsScanned'
  PROVE  IInv'
<1>1. /\ pc' = p /\ live' = S /\ step' = "none" /\ outcome' = "running"
      /\ ControlInv' /\ CleanupInv' /\ ErrorExitReleasesAll' /\ InterruptIsSafe'
  BY GoFrame DEF Going
<1>2. live' = HeldMemory'
  BY <1>1, HeldNext
<1>3. HeldInv'
  BY <1>1, <1>2 DEF HeldInv
<1>4. Going'
  BY <1>1 DEF Going
<1>5. BoundInv'
  BY <1>3, <1>4, HeldBound, PTL
<1> QED BY <1>1, <1>3, <1>5 DEF IInv

\* A step of main that fails, with its locals freed.
LEMMA FailIInv ==
  ASSUME IInv, Going, pc \notin Commanding \cup {"open"}, NEW S, Fail(S), S \subseteq live,
         ~buffer', UNCHANGED <<hash_table, fd, list, map, addr, file, driver>>,
         live \ S = Memory({"fd"} \cup IF hash_table THEN {"table", "entries"} ELSE {},
                           Len(list)),
         buffer' \in BOOLEAN, FileInv', line_nr' = line_nr \/ pc \notin Looping,
         line_nr' \in {line_nr, line_nr + 1}
  PROVE  IInv'
<1>1. /\ ControlInv' /\ HeldInv' /\ CleanupInv'
      /\ ErrorExitReleasesAll' /\ InterruptIsSafe'
      /\ pc' = pc /\ step' = "buffer" /\ live' \subseteq live
  BY FailFrame DEF Going
<1>2. PointerInv'
  BY <1>1 DEF IInv, PointerInv, FileInv
<1>3. DataInv'
  BY <1>1, DataFrame DEF IInv
<1>4. AccessInv' /\ AccessAsScanned'
  BY <1>1, AccessFrame, CommandFrame DEF IInv, driver
<1>5. BoundInv'
  BY <1>1 DEF IInv, BoundInv, Pointers
<1> QED BY <1>1, <1>2, <1>3, <1>4, <1>5 DEF IInv

\* The process ends where main is, with nothing cleaned up.
LEMMA EndsAtOnce ==
  ASSUME IInv, Going, pc \notin {"ioctl", "access"}, outcome' \in {"crashed", "smashed"},
         UNCHANGED <<pc, live, ending>>, UNCHANGED <<pointers, mapping, driver>>
  PROVE  IInv'
<1>1. ControlInv' /\ FileInv' /\ PointerInv' /\ HeldInv' /\ CleanupInv'
  BY DEF IInv, ControlInv, FileInv, PointerInv, Going, HeldInv, CleanupInv, ending, mapping,
         pointers
<1>2. DataInv' /\ AccessInv' /\ AccessAsScanned'
  BY DataFrame, AccessFrame, CommandFrame
     DEF IInv, mapping, driver, ending, ScanIndex, MapIndex
<1>3. BoundInv'
  BY DEF IInv, BoundInv, Pointers, pointers
<1>4. ErrorExitReleasesAll' /\ InterruptIsSafe'
  BY DEF IInv, ErrorExitReleasesAll, InterruptIsSafe, ControlInv, Going, ending
<1> QED BY <1>1, <1>2, <1>3, <1>4 DEF IInv

\* read_map_file frees its locals; the list and the table stay.
LEMMA FreeLocal ==
  ASSUME IInv, Going, pc \in Reading \ {"grow"}
  PROVE  /\ Local \subseteq live
         /\ live \ Local = Memory({"fd", "table", "entries"}, HeldItems)
<1>1. live = Memory(HeldBlocks, HeldItems) /\ HeldItems \in Nat
  BY HeldNow DEF IInv, HeldItems, FileInv, Reading
<1>2. HeldBlocks \ {"map_file", "line_buf"} = {"fd", "table", "entries"}
  BY DEF HeldBlocks, Reading, Commanding
<1>3. live \ Local = (live \ {Block("map_file")}) \ {Block("line_buf")}
  BY DEF Local
<1>4. live \ {Block("map_file")} = Memory(HeldBlocks \ {"map_file"}, HeldItems)
  BY <1>1 DEF Memory, Block, Item
<1>5. Memory(HeldBlocks \ {"map_file"}, HeldItems) \ {Block("line_buf")}
        = Memory((HeldBlocks \ {"map_file"}) \ {"line_buf"}, HeldItems)
  BY <1>1 DEF Memory, Block, Item
<1>6. (HeldBlocks \ {"map_file"}) \ {"line_buf"} = {"fd", "table", "entries"}
  BY <1>2
<1> QED BY <1>3, <1>4, <1>5, <1>6 DEF Local
-----------------------------------------------------------------------------
(* main up to read_map_file.                                               *)

\* open: nothing is held if it fails.
LEMMA OpenIInv ==
  ASSUME IInv, Running(Open)
  PROVE  IInv'
<1>1. /\ pc = "open" /\ step = "none" /\ outcome = "running" /\ Going
      /\ UNCHANGED <<buffer, hash_table, list, mapping, driver>>
  BY DEF Open, Running, At, Going
<1>2. live = Memory(HeldBlocks, HeldItems) /\ HeldBlocks = {} /\ HeldItems = 0 /\ line_nr = 0
  BY <1>1, HeldNow DEF IInv, FileInv, HeldBlocks, HeldItems, Reading, Commanding
<1>3. CASE outcome' = "failure" /\ UNCHANGED <<pc, live, ending, fd>>
  <2>1. live = {}
    BY <1>2 DEF Memory
  <2>2. ControlInv' /\ FileInv' /\ PointerInv' /\ HeldInv' /\ CleanupInv'
    BY <1>1, <1>3
       DEF IInv, ControlInv, FileInv, PointerInv, Going, HeldInv, CleanupInv, ending, mapping
  <2>3. DataInv' /\ AccessInv' /\ AccessAsScanned'
    BY <1>1, <1>3, DataFrame, AccessFrame, CommandFrame
       DEF IInv, mapping, driver, ending, ScanIndex, MapIndex
  <2>4. BoundInv'
    BY <1>1, <1>3 DEF IInv, BoundInv, Pointers
  <2>5. ErrorExitReleasesAll' /\ InterruptIsSafe'
    BY <1>1, <1>3, <2>1 DEF IInv, ErrorExitReleasesAll, InterruptIsSafe, ControlInv, ending
  <2> QED BY <2>2, <2>3, <2>4, <2>5 DEF IInv
<1>4. CASE Go("ht_create", live \cup {Block("fd")}) /\ fd' = TRUE
  <2>1. pc' = "ht_create" /\ step' = "none" /\ line_nr' = line_nr
    BY <1>1, <1>4 DEF Go, ending, mapping
  <2>2. FileInv' /\ PointerInv' /\ Pointers'
    BY <1>1, <1>4, <2>1
       DEF IInv, FileInv, PointerInv, BoundInv, Pointers, mapping, Reading, Looping, Commanding
  <2>3. HeldBlocks' = {} \cup {"fd"} /\ HeldItems' = 0
    BY <1>2, <2>1 DEF HeldBlocks, HeldItems, Reading, Commanding
  <2>4. live \cup {Block("fd")} = Memory(HeldBlocks', HeldItems')
    BY <1>2, <2>3 DEF Memory
  <2>5. DataInv'
    BY <1>1, <2>1, DataFrame DEF IInv, mapping, ScanIndex, MapIndex, Reading
  <2>6. AccessInv' /\ AccessAsScanned'
    BY <1>1, <2>1, AccessFrame, CommandFrame DEF IInv, mapping, driver, Looping, Commanding
  <2>7. Len(list') = line_nr'
    BY <1>1, <2>1 DEF IInv, HeldInv
  <2> QED BY <1>1, <1>4, <2>2, <2>4, <2>5, <2>6, <2>7, GoIInv
<1> QED BY <1>1, <1>3, <1>4 DEF Open, Running

\* ht_create: an error finds the device open and nothing else.
LEMMA CreateTableIInv ==
  ASSUME IInv, Running(CreateTable)
  PROVE  IInv'
<1>1. /\ pc = "ht_create" /\ step = "none" /\ Going
      /\ UNCHANGED <<buffer, fd, list, mapping, driver>>
  BY DEF CreateTable, Running, At, Going
<1>2. /\ live = Memory(HeldBlocks, HeldItems) /\ HeldBlocks = {"fd"} /\ HeldItems = 0
      /\ line_nr = 0 /\ Len(list) = 0
  BY <1>1, HeldNow DEF IInv, FileInv, HeldBlocks, HeldItems, Reading, Commanding, HeldInv
<1>3. CASE Fail({}) /\ UNCHANGED hash_table
  <2>1. pc' = pc /\ ~hash_table /\ ~buffer' /\ buffer' \in BOOLEAN
    BY <1>1, <1>3 DEF Fail, IInv, PointerInv, BoundInv, Pointers, Looping, Commanding
  <2>2. live \ {} = Memory({"fd"} \cup IF hash_table THEN {"table", "entries"} ELSE {}, Len(list))
    BY <1>2, <2>1
  <2>3. FileInv'
    BY <1>1, <2>1 DEF IInv, FileInv, mapping
  <2> QED BY <1>1, <1>3, <2>1, <2>2, <2>3, FailIInv DEF mapping, Commanding
<1>4. CASE Go("fopen", live \cup {Block("table"), Block("entries")}) /\ hash_table' = TRUE
  <2>1. pc' = "fopen" /\ step' = "none" /\ line_nr' = line_nr
    BY <1>1, <1>4 DEF Go, ending, mapping
  <2>2. FileInv' /\ PointerInv' /\ Pointers'
    BY <1>1, <1>4, <2>1
       DEF IInv, FileInv, PointerInv, BoundInv, Pointers, mapping, Reading, Looping, Commanding
  <2>3. HeldBlocks' = {"fd", "table", "entries"} /\ HeldItems' = 0
    BY <1>2, <2>1 DEF HeldBlocks, HeldItems, Reading, Commanding
  <2>4. live \cup {Block("table"), Block("entries")} = Memory(HeldBlocks', HeldItems')
    BY <1>2, <2>3 DEF Memory
  <2>5. DataInv'
    BY <1>1, <2>1, DataFrame DEF IInv, mapping, ScanIndex, MapIndex, Reading
  <2>6. AccessInv' /\ AccessAsScanned'
    BY <1>1, <2>1, AccessFrame, CommandFrame DEF IInv, mapping, driver, Looping, Commanding
  <2> QED BY <1>1, <1>2, <1>4, <2>1, <2>2, <2>4, <2>5, <2>6, GoIInv
<1> QED BY <1>3, <1>4 DEF CreateTable, Running

\* fopen: an error finds the device and the table.
LEMMA OpenMapIInv ==
  ASSUME IInv, Running(OpenMap)
  PROVE  IInv'
<1>1. /\ pc = "fopen" /\ step = "none" /\ Going
      /\ UNCHANGED <<pointers, mapping, driver>>
  BY DEF OpenMap, Running, At, Going
<1>2. /\ live = Memory(HeldBlocks, HeldItems) /\ HeldBlocks = {"fd", "table", "entries"}
      /\ HeldItems = 0 /\ line_nr = 0 /\ Len(list) = 0
  BY <1>1, HeldNow DEF IInv, FileInv, HeldBlocks, HeldItems, Reading, Commanding, HeldInv
<1>3. CASE Fail({})
  <2>1. pc' = pc /\ hash_table /\ ~buffer' /\ buffer' \in BOOLEAN
    BY <1>1, <1>3 DEF Fail, IInv, PointerInv, BoundInv, Pointers, Looping, Commanding, pointers
  <2>2. live \ {} = Memory({"fd"} \cup IF hash_table THEN {"table", "entries"} ELSE {}, Len(list))
    BY <1>2, <2>1 DEF Memory
  <2>3. FileInv'
    BY <1>1, <2>1 DEF IInv, FileInv, mapping
  <2> QED BY <1>1, <1>3, <2>1, <2>2, <2>3, FailIInv DEF mapping, pointers, Commanding
<1>4. CASE Go("getline", live \cup {Block("map_file")})
  <2>1. pc' = "getline" /\ step' = "none" /\ line_nr' = line_nr /\ list' = list
    BY <1>1, <1>4 DEF Go, ending, mapping, pointers
  <2>2. FileInv' /\ PointerInv' /\ Pointers'
    BY <1>1, <1>4, <2>1
       DEF IInv, FileInv, PointerInv, BoundInv, Pointers, pointers, mapping,
           Reading, Looping, Commanding
  <2>3. HeldBlocks' = {"fd", "table", "entries", "map_file"} /\ HeldItems' = 0
    BY <1>2, <2>1 DEF HeldBlocks, HeldItems, Reading, Commanding
  <2>4. live \cup {Block("map_file")} = Memory(HeldBlocks', HeldItems')
    BY <1>2, <2>3 DEF Memory
  <2>5. DataInv'
    BY <1>1, <2>1, DataFrame DEF IInv, mapping, ScanIndex, MapIndex, Reading
  <2>6. AccessInv' /\ AccessAsScanned'
    BY <1>1, <2>1, AccessFrame, CommandFrame DEF IInv, mapping, driver, Looping, Commanding
  <2> QED BY <1>1, <1>2, <1>4, <2>1, <2>2, <2>4, <2>5, <2>6, GoIInv DEF Reading
<1> QED BY <1>3, <1>4 DEF OpenMap, Running
-----------------------------------------------------------------------------
(* read_map_file.                                                          *)

\* getline: the end of the file, an error or a long line gives the locals back.
LEMMA GetLineIInv ==
  ASSUME IInv, Running(GetLine)
  PROVE  IInv'
<1>1. /\ pc = "getline" /\ step = "none" /\ Going
      /\ UNCHANGED <<pointers, map, addr, file, driver>>
  BY DEF GetLine, Running, At, Going
<1>2. /\ live = Memory(HeldBlocks, HeldItems) /\ HeldItems = line_nr
      /\ line_nr \in Nat /\ Len(file) \in Nat /\ Len(list) = line_nr
  BY <1>1, HeldNow DEF IInv, FileInv, HeldItems, HeldInv
<1>3. /\ Local \subseteq live
      /\ live \ Local = Memory({"fd", "table", "entries"}, line_nr)
  BY <1>1, <1>2, FreeLocal DEF Reading
<1>4. CASE Go("malloc", live \ Local) /\ UNCHANGED line_nr
  <2>1. pc' = "malloc" /\ step' = "none" /\ list' = list
    BY <1>1, <1>4 DEF Go, ending, pointers
  <2>2. FileInv' /\ PointerInv' /\ Pointers'
    BY <1>1, <1>4, <2>1
       DEF IInv, FileInv, PointerInv, BoundInv, Pointers, pointers,
           Reading, Looping, Commanding
  <2>3. HeldBlocks' = {"fd", "table", "entries"} /\ HeldItems' = line_nr
    BY <1>4, <2>1 DEF HeldBlocks, HeldItems, Reading, Commanding
  <2>4. live \ Local = Memory(HeldBlocks', HeldItems')
    BY <1>3, <2>3
  <2>5. DataInv'
    BY <1>1, <1>4, <2>1, DataFrame DEF IInv, ScanIndex, MapIndex, Reading
  <2>6. AccessInv' /\ AccessAsScanned'
    BY <1>1, <1>4, <2>1, AccessFrame, CommandFrame DEF IInv, driver, Looping, Commanding
  <2> QED BY <1>1, <1>2, <1>4, <2>1, <2>2, <2>4, <2>5, <2>6, GoIInv DEF Looping
<1>5. CASE /\ line_nr < Len(file) /\ line_nr' = line_nr + 1
           /\ file[line_nr + 1].too_long /\ Fail(Local)
  <2>1. pc' = pc /\ hash_table /\ ~buffer' /\ buffer' \in BOOLEAN
    BY <1>1, <1>5 DEF Fail, IInv, PointerInv, BoundInv, Pointers, Looping, Commanding, pointers
  <2>2. live \ Local
          = Memory({"fd"} \cup IF hash_table THEN {"table", "entries"} ELSE {}, Len(list))
    BY <1>2, <1>3, <2>1 DEF Memory
  <2>3. FileInv'
    BY <1>1, <1>5, <2>1 DEF IInv, FileInv, Reading, Looping, Commanding
  <2>4. pc \notin Commanding \cup {"open"} /\ pc \notin Looping
    BY <1>1 DEF Looping, Commanding
  <2> QED BY <1>1, <1>3, <1>5, <2>1, <2>2, <2>3, <2>4, FailIInv DEF pointers
<1>6. CASE /\ line_nr < Len(file) /\ line_nr' = line_nr + 1
           /\ ~file[line_nr + 1].too_long
           /\ Go("malloc_item", live \cup {Block("line_buf")})
  <2>1. pc' = "malloc_item" /\ step' = "none" /\ list' = list
    BY <1>1, <1>6 DEF Go, ending, pointers
  <2>2. FileInv'
    BY <1>1, <1>6, <2>1 DEF IInv, FileInv, Reading, Looping, Commanding
  <2>3. PointerInv' /\ Pointers'
    BY <1>1, <1>2, <1>6, <2>1
       DEF IInv, PointerInv, BoundInv, Pointers, pointers, Reading, Looping, Commanding
  <2>4. HeldBlocks' = HeldBlocks \cup {"line_buf"} /\ HeldItems' = line_nr
    BY <1>1, <1>2, <1>6, <2>1 DEF HeldBlocks, HeldItems, Reading, Commanding
  <2>5. live \cup {Block("line_buf")} = Memory(HeldBlocks', HeldItems')
    BY <1>2, <2>4 DEF Memory
  <2>6. DataInv'
    BY <1>1, <1>2, <1>6, <2>1, DataFrame DEF IInv, ScanIndex, MapIndex, Reading
  <2>7. AccessInv' /\ AccessAsScanned'
    BY <1>1, <1>6, <2>1, AccessFrame, CommandFrame DEF IInv, driver, Looping, Commanding
  <2>8. Len(list') = line_nr' - 1
    BY <1>2, <1>6, <2>1
  <2> QED BY <1>1, <1>6, <2>1, <2>2, <2>3, <2>5, <2>6, <2>7, <2>8, GoIInv DEF Reading
<1> QED BY <1>4, <1>5, <1>6 DEF GetLine, Running

\* malloc: the process crashes at once when there is no list_item.
LEMMA MallocItemIInv ==
  ASSUME IInv, Running(MallocItem)
  PROVE  IInv'
<1>1. /\ pc = "malloc_item" /\ step = "none" /\ Going
      /\ UNCHANGED <<pointers, mapping, driver>>
  BY DEF MallocItem, Running, At, Going
<1>2. /\ live = Memory(HeldBlocks, HeldItems) /\ HeldItems = line_nr - 1
      /\ line_nr \in Nat /\ line_nr > 0 /\ Len(list) = line_nr - 1
  BY <1>1, HeldNow DEF IInv, FileInv, HeldItems, HeldInv, Reading
<1>3. CASE outcome' = "crashed" /\ UNCHANGED <<pc, live, ending>>
  BY <1>1, <1>3, EndsAtOnce
<1>4. CASE Go("link", live \cup {Item(line_nr)})
  <2>1. pc' = "link" /\ step' = "none" /\ line_nr' = line_nr /\ list' = list
    BY <1>1, <1>4 DEF Go, ending, mapping, pointers
  <2>2. FileInv' /\ PointerInv' /\ Pointers'
    BY <1>1, <1>4, <2>1
       DEF IInv, FileInv, PointerInv, BoundInv, Pointers, pointers, mapping,
           Reading, Looping, Commanding
  <2>3. HeldBlocks' = HeldBlocks /\ HeldItems' = line_nr
    BY <1>1, <1>2, <2>1 DEF HeldBlocks, HeldItems, Reading, Commanding
  <2>4. Memory(HeldBlocks, line_nr - 1) \cup {Item(line_nr)} = Memory(HeldBlocks, line_nr)
    <3>1. 1 .. line_nr = (1 .. line_nr - 1) \cup {line_nr}
      BY <1>2
    <3> QED BY <3>1 DEF Memory
  <2>5. live \cup {Item(line_nr)} = Memory(HeldBlocks', HeldItems')
    BY <1>2, <2>3, <2>4
  <2>6. DataInv'
    BY <1>1, <2>1, DataFrame DEF IInv, mapping, ScanIndex, MapIndex, Reading
  <2>7. AccessInv' /\ AccessAsScanned'
    BY <1>1, <2>1, AccessFrame, CommandFrame DEF IInv, mapping, driver, Looping, Commanding
  <2> QED BY <1>1, <1>2, <1>4, <2>1, <2>2, <2>5, <2>6, <2>7, GoIInv DEF Reading
<1> QED BY <1>3, <1>4 DEF MallocItem, Running

\* The list_item goes to the head of the list.
LEMMA LinkIInv ==
  ASSUME IInv, Running(Link)
  PROVE  IInv'
<1>1. /\ pc = "link" /\ step = "none" /\ Going /\ Go("sscanf", live)
      /\ list' = <<Item(line_nr)>> \o list
      /\ UNCHANGED <<buffer, hash_table, fd, mapping, driver>>
  BY DEF Link, Running, At, Going
<1>2. /\ live = Memory(HeldBlocks, HeldItems)
      /\ line_nr \in Nat /\ line_nr > 0 /\ Len(list) = line_nr - 1
  BY <1>1, HeldNow DEF IInv, FileInv, HeldInv, Reading
<1>3. pc' = "sscanf" /\ step' = "none" /\ line_nr' = line_nr
  BY <1>1 DEF Go, ending, mapping
<1>4. list' = ListOf(line_nr) /\ Len(list') = line_nr
  <2>1. list = ListOf(line_nr - 1) /\ line_nr - 1 \in Nat /\ line_nr = (line_nr - 1) + 1
    BY <1>2 DEF IInv, PointerInv
  <2>2. <<Item((line_nr - 1) + 1)>> \o ListOf(line_nr - 1) = ListOf((line_nr - 1) + 1)
    BY <2>1, ListOps
  <2>3. Len(ListOf(line_nr)) = line_nr
    BY <1>2, ListOps
  <2> QED BY <1>1, <2>1, <2>2, <2>3
<1>5. FileInv' /\ Pointers'
  BY <1>1, <1>3 DEF IInv, FileInv, BoundInv, Pointers, mapping, Reading, Looping, Commanding
<1>6. PointerInv'
  <2>1. ListOf(Len(list))' = list'
    BY <1>4 DEF ListOf, Item
  <2> QED BY <1>1, <1>2, <1>3, <1>4, <2>1
          DEF IInv, PointerInv, mapping, Reading, Looping, Commanding
<1>7. HeldBlocks' = HeldBlocks /\ HeldItems' = HeldItems
  BY <1>1, <1>3 DEF HeldBlocks, HeldItems, Reading, Commanding
<1>8. live = Memory(HeldBlocks', HeldItems')
  BY <1>2, <1>7
<1>9. DataInv'
  BY <1>1, <1>3, DataFrame DEF IInv, mapping, ScanIndex, MapIndex, Reading
<1>10. AccessInv' /\ AccessAsScanned'
  BY <1>1, <1>3, AccessFrame, CommandFrame DEF IInv, mapping, driver, Looping, Commanding
<1> QED BY <1>1, <1>3, <1>4, <1>5, <1>6, <1>8, <1>9, <1>10, GoIInv DEF Reading

\* What %u stores is a number below 2^32.
LEMMA ScanRange ==
  ASSUME NEW n \in Int
  PROVE  Scan(n) \in 0 .. UINT_SIZE - 1
<1> DEFINE long == IF n \in -ULONG_MAX .. ULONG_MAX THEN n ELSE ULONG_MAX
<1>1. UINT_SIZE \in Nat /\ UINT_SIZE > 0 /\ long \in Int
  BY ControlAssumption
<1>2. Scan(n) = long % UINT_SIZE
  BY DEF Scan
<1> HIDE DEF long
<1> QED BY <1>1, <1>2

\* sscanf: a line that does not match ends the program, with the list_item on
\* the list and the locals freed; a name too long for the array may end it too.
LEMMA ScanLineIInv ==
  ASSUME IInv, Running(ScanLine)
  PROVE  IInv'
<1>1. /\ pc = "sscanf" /\ step = "none" /\ Going
      /\ UNCHANGED <<pointers, map, file, line_nr, driver>>
  BY DEF ScanLine, Running, At, Going
<1>2. /\ live = Memory(HeldBlocks, HeldItems) /\ HeldItems = line_nr
      /\ line_nr \in Nat /\ line_nr > 0 /\ Len(list) = line_nr
      /\ file[line_nr] \in Line /\ ~file[line_nr].too_long
  BY <1>1, HeldNow DEF IInv, FileInv, HeldItems, HeldInv, Reading
<1>3. CASE ~LineOK(file[line_nr]) /\ Fail(Local) /\ UNCHANGED addr
  <2>1. pc' = pc /\ hash_table /\ ~buffer' /\ buffer' \in BOOLEAN
    BY <1>1, <1>3 DEF Fail, IInv, PointerInv, BoundInv, Pointers, Looping, Commanding, pointers
  <2>2. Local \subseteq live /\ live \ Local = Memory({"fd", "table", "entries"}, line_nr)
    BY <1>1, <1>2, FreeLocal DEF Reading
  <2>3. live \ Local
          = Memory({"fd"} \cup IF hash_table THEN {"table", "entries"} ELSE {}, Len(list))
    BY <1>2, <2>1, <2>2 DEF Memory
  <2>4. FileInv'
    BY <1>1, <2>1 DEF IInv, FileInv
  <2>5. pc \notin Commanding \cup {"open"}
    BY <1>1 DEF Commanding
  <2> QED BY <1>1, <1>3, <2>1, <2>2, <2>3, <2>4, <2>5, FailIInv DEF pointers
<1>4. ASSUME LineOK(file[line_nr]), Go("ht_set", live), NEW u \in Upper,
             addr' = Append(addr, Scan(file[line_nr].number) + u * UINT_SIZE)
      PROVE  IInv'
  <2>1. pc' = "ht_set" /\ step' = "none" /\ list' = list
    BY <1>1, <1>4 DEF Go, ending, pointers
  <2>2. FileInv' /\ PointerInv' /\ Pointers'
    BY <1>1, <1>4, <2>1
       DEF IInv, FileInv, PointerInv, BoundInv, Pointers, pointers, Reading, Looping, Commanding
  <2>3. HeldBlocks' = HeldBlocks /\ HeldItems' = HeldItems
    BY <1>1, <2>1 DEF HeldBlocks, HeldItems, Reading, Commanding
  <2>4. live = Memory(HeldBlocks', HeldItems')
    BY <1>2, <2>3
  <2>5. DataInv'
    <3> DEFINE a == Scan(file[line_nr].number) + u * UINT_SIZE
    <3>1. file[line_nr].number \in Int
      BY <1>2, <1>4, ControlAssumption DEF Line, LineOK
    <3>2. Scan(file[line_nr].number) \in Nat /\ u * UINT_SIZE \in Nat
      BY <3>1, ScanRange, ControlAssumption
    <3>3. a \in Nat
      BY <3>2
    <3>4. ScannedTo(line_nr - 1) /\ MappedTo(line_nr - 1)
      BY <1>1 DEF IInv, DataInv, ScanIndex, MapIndex, Reading
    <3>5. /\ addr \in Seq(Nat) /\ Len(addr) = line_nr - 1
          /\ addr' = Append(addr, a)
      BY <1>4, <3>4 DEF ScannedTo
    <3>6. /\ addr' \in Seq(Nat) /\ Len(addr') = line_nr /\ addr'[line_nr] = a
          /\ \A m \in 1 .. line_nr - 1 : addr'[m] = addr[m]
      <4> HIDE DEF a
      <4> QED BY <1>2, <3>3, <3>5
    <3>7. ScannedTo(line_nr)'
      <4>1. ASSUME NEW m \in 1 .. line_nr
            PROVE  /\ LineOK(file[m]) /\ ~file[m].too_long
                   /\ \E v \in Upper : addr'[m] = Scan(file[m].number) + v * UINT_SIZE
        <5>1. CASE m = line_nr
          BY <1>2, <1>4, <3>6, <5>1
        <5>2. CASE m # line_nr
          <6>1. m \in 1 .. line_nr - 1
            BY <1>2, <5>2
          <6> QED BY <3>4, <3>6, <6>1 DEF ScannedTo
        <5> QED BY <5>1, <5>2
      <4> QED BY <1>1, <3>6, <4>1 DEF ScannedTo, LineOK, Scan
    <3>8. MappedTo(line_nr - 1)'
      BY <1>1, <3>4 DEF MappedTo
    <3>9. ScanIndex' = line_nr' /\ MapIndex' = line_nr' - 1
      BY <2>1 DEF ScanIndex, MapIndex, Reading
    <3>10. /\ DOMAIN map' \subseteq Name \ LongName
           /\ \A name \in DOMAIN map' : map'[name] \in 1 .. Len(addr')
      BY <1>1, <1>2, <3>5, <3>6 DEF IInv, DataInv
    <3>11. ScannedTo(ScanIndex)' /\ MappedTo(MapIndex)'
      BY <1>1, <3>7, <3>8, <3>9 DEF ScannedTo, MappedTo
    <3> QED BY <3>10, <3>11 DEF DataInv
  <2>6. AccessInv' /\ AccessAsScanned'
    BY <1>1, <2>1, AccessFrame, CommandFrame DEF IInv, driver, Looping, Commanding
  <2> QED BY <1>1, <1>2, <1>4, <2>1, <2>2, <2>4, <2>5, <2>6, GoIInv DEF Reading
<1>5. CASE Overrun(file[line_nr].name) /\ UNCHANGED addr
  BY <1>1, <1>5, EndsAtOnce DEF Overrun, mapping
<1> QED BY <1>3, <1>4, <1>5 DEF ScanLine, Running

\* ht_expand frees the entries first ...
LEMMA GrowFreeIInv ==
  ASSUME IInv, Running(GrowFree)
  PROVE  IInv'
<1>1. /\ pc = "ht_set" /\ step = "none" /\ Going /\ Go("grow", live \ {Block("entries")})
      /\ UNCHANGED <<pointers, mapping, driver>>
  BY DEF GrowFree, Running, At, Going
<1>2. /\ live = Memory(HeldBlocks, HeldItems) /\ HeldItems \in Nat
      /\ line_nr > 0 /\ Len(list) = line_nr
  BY <1>1, HeldNow DEF IInv, FileInv, HeldItems, HeldInv, Reading
<1>3. pc' = "grow" /\ step' = "none" /\ line_nr' = line_nr /\ list' = list
  BY <1>1 DEF Go, ending, mapping, pointers
<1>4. FileInv' /\ PointerInv' /\ Pointers'
  BY <1>1, <1>3
     DEF IInv, FileInv, PointerInv, BoundInv, Pointers, pointers, mapping,
         Reading, Looping, Commanding
<1>5. HeldBlocks' = HeldBlocks \ {"entries"} /\ HeldItems' = HeldItems
  BY <1>1, <1>3 DEF HeldBlocks, HeldItems, Reading, Commanding
<1>6. live \ {Block("entries")} = Memory(HeldBlocks', HeldItems')
  BY <1>2, <1>5 DEF Memory, Block, Item
<1>7. DataInv'
  BY <1>1, <1>3, DataFrame DEF IInv, mapping, ScanIndex, MapIndex, Reading
<1>8. AccessInv' /\ AccessAsScanned'
  BY <1>1, <1>3, AccessFrame, CommandFrame DEF IInv, mapping, driver, Looping, Commanding
<1> QED BY <1>1, <1>2, <1>3, <1>4, <1>6, <1>7, <1>8, GoIInv DEF Reading

\* ... and then points to the new ones.
LEMMA GrowSetIInv ==
  ASSUME IInv, Running(GrowSet)
  PROVE  IInv'
<1>1. /\ pc = "grow" /\ step = "none" /\ Going
      /\ Go("ht_set_entry", live \cup {Block("entries")})
      /\ UNCHANGED <<pointers, mapping, driver>>
  BY DEF GrowSet, Running, At, Going
<1>2. /\ live = Memory(HeldBlocks, HeldItems) /\ HeldItems \in Nat
      /\ line_nr > 0 /\ Len(list) = line_nr
  BY <1>1, HeldNow DEF IInv, FileInv, HeldItems, HeldInv, Reading
<1>3. pc' = "ht_set_entry" /\ step' = "none" /\ line_nr' = line_nr /\ list' = list
  BY <1>1 DEF Go, ending, mapping, pointers
<1>4. FileInv' /\ PointerInv' /\ Pointers'
  BY <1>1, <1>3
     DEF IInv, FileInv, PointerInv, BoundInv, Pointers, pointers, mapping,
         Reading, Looping, Commanding
<1>5. HeldBlocks' = HeldBlocks \cup {"entries"} /\ HeldItems' = HeldItems
  BY <1>1, <1>3 DEF HeldBlocks, HeldItems, Reading, Commanding
<1>6. live \cup {Block("entries")} = Memory(HeldBlocks', HeldItems')
  BY <1>2, <1>5 DEF Memory
<1>7. DataInv'
  BY <1>1, <1>3, DataFrame DEF IInv, mapping, ScanIndex, MapIndex, Reading
<1>8. AccessInv' /\ AccessAsScanned'
  BY <1>1, <1>3, AccessFrame, CommandFrame DEF IInv, mapping, driver, Looping, Commanding
<1> QED BY <1>1, <1>2, <1>3, <1>4, <1>6, <1>7, <1>8, GoIInv DEF Reading

\* Binding a name to a line makes that line the last one of its name.
LEMMA MapNext ==
  ASSUME NEW n \in Nat, MappedTo(n), UNCHANGED file,
         map' = [x \in DOMAIN map \cup {file[n + 1].name} |->
                   IF x = file[n + 1].name THEN n + 1 ELSE map[x]]
  PROVE  MappedTo(n + 1)'
<1>1. 1 .. n + 1 = (1 .. n) \cup {n + 1}
  OBVIOUS
<1>2. DOMAIN map' = {file[m].name : m \in 1 .. n + 1}
  BY <1>1 DEF MappedTo
<1>3. ASSUME NEW x \in DOMAIN map'
      PROVE  /\ map'[x] \in 1 .. n + 1
             /\ file[map'[x]].name = x
             /\ \A m \in map'[x] + 1 .. n + 1 : file[m].name # x
  <2>1. CASE x = file[n + 1].name
    <3>1. map'[x] = n + 1
      BY <2>1
    <3> QED BY <2>1, <3>1
  <2>2. CASE x # file[n + 1].name
    <3>1. x \in DOMAIN map /\ map'[x] = map[x]
      BY <2>2
    <3>2. /\ map[x] \in 1 .. n /\ file[map[x]].name = x
          /\ \A m \in map[x] + 1 .. n : file[m].name # x
      BY <3>1 DEF MappedTo
    <3>3. \A m \in map[x] + 1 .. n + 1 : m \in map[x] + 1 .. n \/ m = n + 1
      BY <3>2
    <3> QED BY <2>2, <3>1, <3>2, <3>3
  <2> QED BY <2>1, <2>2
<1> QED BY <1>2, <1>3 DEF MappedTo

\* ht_set binds the name, or an error gives the locals back.
LEMMA SetEntryIInv ==
  ASSUME IInv, Running(SetEntry)
  PROVE  IInv'
<1>1. /\ pc \in {"ht_set", "ht_set_entry"} /\ step = "none" /\ Going
      /\ UNCHANGED <<pointers, addr, file, line_nr, driver>>
  BY DEF SetEntry, Running, Going
<1>2. /\ live = Memory(HeldBlocks, HeldItems) /\ HeldItems = line_nr
      /\ line_nr \in Nat /\ line_nr > 0 /\ Len(list) = line_nr
      /\ file[line_nr] \in Line /\ ~file[line_nr].too_long
  BY <1>1, HeldNow DEF IInv, FileInv, HeldItems, HeldInv, Reading
<1>3. CASE Fail(Local) /\ UNCHANGED map
  <2>1. pc' = pc /\ hash_table /\ ~buffer' /\ buffer' \in BOOLEAN
    BY <1>1, <1>3 DEF Fail, IInv, PointerInv, BoundInv, Pointers, Looping, Commanding, pointers
  <2>2. Local \subseteq live /\ live \ Local = Memory({"fd", "table", "entries"}, line_nr)
    BY <1>1, <1>2, FreeLocal DEF Reading
  <2>3. live \ Local
          = Memory({"fd"} \cup IF hash_table THEN {"table", "entries"} ELSE {}, Len(list))
    BY <1>2, <2>1, <2>2 DEF Memory
  <2>4. FileInv'
    BY <1>1, <2>1 DEF IInv, FileInv
  <2>5. pc \notin Commanding \cup {"open"}
    BY <1>1 DEF Commanding
  <2> QED BY <1>1, <1>3, <2>1, <2>2, <2>3, <2>4, <2>5, FailIInv DEF pointers
<1>4. CASE /\ map' = [n \in DOMAIN map \cup {file[line_nr].name} |->
                        IF n = file[line_nr].name THEN line_nr ELSE map[n]]
           /\ Go("getline", live)
  <2>1. pc' = "getline" /\ step' = "none" /\ list' = list
    BY <1>1, <1>4 DEF Go, ending, pointers
  <2>2. FileInv' /\ PointerInv' /\ Pointers'
    BY <1>1, <1>4, <2>1
       DEF IInv, FileInv, PointerInv, BoundInv, Pointers, pointers, Reading, Looping, Commanding
  <2>3. HeldBlocks' = HeldBlocks /\ HeldItems' = HeldItems
    BY <1>1, <1>2, <2>1 DEF HeldBlocks, HeldItems, Reading, Commanding
  <2>4. live = Memory(HeldBlocks', HeldItems')
    BY <1>2, <2>3
  <2>5. DataInv'
    <3>1. ScannedTo(line_nr) /\ MappedTo(line_nr - 1)
      BY <1>1 DEF IInv, DataInv, ScanIndex, MapIndex, Reading
    <3>2. ScannedTo(ScanIndex)'
      BY <1>1, <2>1, <3>1 DEF ScannedTo, LineOK, Scan, ScanIndex
    <3>3. MappedTo(line_nr)'
      <4>1. line_nr - 1 \in Nat /\ (line_nr - 1) + 1 = line_nr
        BY <1>2
      <4>2. MappedTo((line_nr - 1) + 1)'
        BY <1>1, <1>4, <3>1, <4>1, MapNext
      <4> QED BY <1>1, <4>1, <4>2 DEF MappedTo
    <3>4. MapIndex' = line_nr'
      BY <2>1 DEF MapIndex, Reading
    <3>5. MappedTo(MapIndex)'
      BY <3>3, <3>4 DEF MappedTo
    <3>6. file[line_nr].name \in Name \ LongName
      <4>1. LineOK(file[line_nr])
        BY <1>2, <3>1 DEF ScannedTo
      <4> QED BY <1>2, <4>1 DEF Line, LineOK
    <3>7. DOMAIN map' \subseteq Name \ LongName
      BY <1>4, <3>6 DEF IInv, DataInv
    <3>8. \A name \in DOMAIN map' : map'[name] \in 1 .. Len(addr')
      BY <1>1, <3>1, <3>3 DEF ScannedTo, MappedTo
    <3> QED BY <3>2, <3>5, <3>7, <3>8 DEF DataInv
  <2>6. AccessInv' /\ AccessAsScanned'
    BY <1>1, <2>1, AccessFrame, CommandFrame DEF IInv, driver, Looping, Commanding
  <2> QED BY <1>1, <1>2, <1>4, <2>1, <2>2, <2>4, <2>5, <2>6, GoIInv DEF Reading
<1> QED BY <1>3, <1>4 DEF SetEntry, Running
-----------------------------------------------------------------------------
(* The loop of main.                                                       *)

\* malloc: an error finds the pointer NULL, nothing of the loop is held.
LEMMA MallocBufferIInv ==
  ASSUME IInv, Running(MallocBuffer)
  PROVE  IInv'
<1>1. /\ pc = "malloc" /\ step = "none" /\ Going
      /\ UNCHANGED <<hash_table, fd, list, mapping, driver>>
  BY DEF MallocBuffer, Running, At, Going
<1>2. /\ live = Memory(HeldBlocks, HeldItems) /\ HeldBlocks = {"fd", "table", "entries"}
      /\ HeldItems = line_nr /\ Len(list) = line_nr
  BY <1>1, HeldNow DEF IInv, HeldBlocks, HeldItems, Reading, Commanding, HeldInv
<1>3. CASE Fail({}) /\ buffer' = FALSE
  <2>1. pc' = pc /\ hash_table
    BY <1>1, <1>3 DEF Fail, IInv, PointerInv
  <2>2. live \ {} = Memory({"fd"} \cup IF hash_table THEN {"table", "entries"} ELSE {}, Len(list))
    BY <1>2, <2>1 DEF Memory
  <2>3. FileInv'
    BY <1>1, <2>1 DEF IInv, FileInv, mapping
  <2>4. pc \notin Commanding \cup {"open"} /\ ~buffer' /\ buffer' \in BOOLEAN
    BY <1>1, <1>3 DEF Commanding
  <2> QED BY <1>1, <1>3, <2>1, <2>2, <2>3, <2>4, FailIInv DEF mapping
<1>4. CASE Go("read", live \cup {Block("buffer")}) /\ buffer' = TRUE
  <2>1. pc' = "read" /\ step' = "none" /\ line_nr' = line_nr
    BY <1>1, <1>4 DEF Go, ending, mapping
  <2>2. FileInv' /\ PointerInv' /\ Pointers'
    BY <1>1, <1>4, <2>1
       DEF IInv, FileInv, PointerInv, BoundInv, Pointers, mapping, Reading, Looping, Commanding
  <2>3. HeldBlocks' = {"fd", "table", "entries", "buffer"} /\ HeldItems' = line_nr
    BY <1>2, <2>1 DEF HeldBlocks, HeldItems, Reading, Commanding
  <2>4. live \cup {Block("buffer")} = Memory(HeldBlocks', HeldItems')
    BY <1>2, <2>3 DEF Memory
  <2>5. DataInv'
    BY <1>1, <2>1, DataFrame DEF IInv, mapping, ScanIndex, MapIndex, Reading
  <2>6. AccessInv' /\ AccessAsScanned'
    BY <1>1, <2>1, AccessFrame, CommandFrame DEF IInv, mapping, driver, Looping, Commanding
  <2> QED BY <1>1, <1>2, <1>4, <2>1, <2>2, <2>4, <2>5, <2>6, GoIInv DEF Looping, Commanding
<1> QED BY <1>3, <1>4 DEF MallocBuffer, Running

\* A step from one place of the loop to another, with the buffer held.
LEMMA CommandStep ==
  ASSUME IInv, Going, pc \in Commanding, NEW p \in Commanding, Go(p, live),
         UNCHANGED <<pointers, mapping>>, AccessInv', AccessAsScanned'
  PROVE  IInv'
<1>1. pc' = p /\ step' = "none" /\ line_nr' = line_nr /\ list' = list /\ step = "none"
  BY DEF Go, ending, mapping, pointers, Going
<1>2. FileInv' /\ PointerInv' /\ Pointers'
  BY <1>1
     DEF IInv, FileInv, PointerInv, BoundInv, Pointers, pointers, mapping,
         Reading, Looping, Commanding
<1>3. HeldBlocks' = HeldBlocks /\ HeldItems' = HeldItems
  BY <1>1 DEF HeldBlocks, HeldItems, Reading, Commanding
<1>4. live = Memory(HeldBlocks', HeldItems')
  BY <1>3, HeldNow DEF IInv
<1>5. DataInv'
  BY <1>1, DataFrame DEF IInv, mapping, ScanIndex, MapIndex, Reading, Commanding
<1>6. Len(list') = line_nr' /\ p \in Looping /\ p \notin {"malloc_item", "link"}
  BY <1>1 DEF IInv, HeldInv, Commanding, Looping
<1> QED BY <1>1, <1>2, <1>4, <1>5, <1>6, GoIInv

\* read fails or meets the end of the input.
LEMMA ReadNothingIInv ==
  ASSUME IInv, Running(ReadNothing)
  PROVE  IInv'
<1>1. /\ pc = "read" /\ Going /\ Go("free", live) /\ pc' = "free"
      /\ UNCHANGED <<pointers, mapping, driver>>
  BY DEF ReadNothing, Running, At, Going, Go
<1>2. AccessInv' /\ AccessAsScanned'
  BY <1>1, AccessFrame, CommandFrame DEF IInv, mapping, driver, Looping, Commanding
<1> QED BY <1>1, <1>2, CommandStep DEF Commanding

\* A command goes on to the driver only when its name is in the table and its
\* value fits a register.
LEMMA ReadCommandIInv ==
  ASSUME IInv, Running(ReadCommand)
  PROVE  IInv'
<1> DEFINE p == IF Accepted(Head(stdin)) THEN "ioctl" ELSE "free"
<1>1. /\ pc = "read" /\ Going /\ step = "none" /\ piece' = Head(stdin)
      /\ UNCHANGED <<pointers, mapping, driver>>
  BY DEF ReadCommand, Running, At, Going
<1>2. UNCHANGED <<map, file, line_nr, start_address, access>>
  BY <1>1 DEF mapping, driver
<1>3. CASE Go(p, live)
  <2>1. pc' = p /\ step' = "none"
    BY <1>1, <1>3 DEF Go, ending
  <2>2. pc' = "ioctl" => /\ piece'.name \in DOMAIN map'
                         /\ piece'.start = "!" => Scan(piece'.number) <= UINT16_MAX
    BY <1>1, <1>2, <2>1 DEF Accepted, handle_write_command, handle_read_command
  <2>3. pc' = "ioctl" => (piece.start = "!" => Scan(piece.number) <= UINT16_MAX)'
    BY <2>2 DEF Scan
  <2>4. pc' \in {"ioctl", "free"}
    BY <2>1
  <2>5. AccessInv'
    BY <1>1, <1>2, <2>2, <2>3, <2>4 DEF IInv, AccessInv, Looping, Commanding
  <2>6. AccessAsScanned'
    BY <1>2, CommandFrame DEF IInv
  <2>7. p \in Commanding /\ pc \in Commanding
    BY <1>1 DEF Commanding
  <2> QED BY <1>1, <1>3, <2>5, <2>6, <2>7, CommandStep
<1>4. CASE Overrun(Head(stdin).name)
  BY <1>1, <1>4, EndsAtOnce DEF Overrun
<1> QED BY <1>3, <1>4 DEF ReadCommand, Running

\* The ioctl takes an address only when nothing was left in its upper half.
LEMMA SetAddressIInv ==
  ASSUME IInv, Running(set_modbus_address)
  PROVE  IInv'
<1> DEFINE m == map[piece.name]
<1>1. /\ pc = "ioctl" /\ Going /\ step = "none"
      /\ UNCHANGED <<pointers, mapping, piece, access>>
  BY DEF set_modbus_address, Running, At, Going
<1>2. UNCHANGED <<map, file, line_nr>> /\ pc \in Commanding
  BY <1>1 DEF mapping, Commanding
<1>3. AccessAsScanned'
  BY <1>1, <1>2, CommandFrame DEF IInv
<1>4. /\ piece.name \in DOMAIN map /\ m \in 1 .. line_nr
      /\ ScannedTo(line_nr) /\ line_nr \in Nat
      /\ file \in Seq(Line) /\ line_nr <= Len(file)
  BY <1>1 DEF IInv, AccessInv, DataInv, FileInv, ScanIndex, MapIndex, MappedTo, Reading
<1>5. CASE addr[m] >= UINT16_MAX /\ Go("free", live) /\ UNCHANGED start_address
  <2>1. pc' = "free"
    BY <1>5 DEF Go
  <2>2. AccessInv'
    BY <1>1, <1>5, <2>1, AccessFrame DEF IInv, driver, Looping, Commanding
  <2> QED BY <1>1, <1>2, <1>3, <1>5, <2>2, CommandStep DEF Commanding
<1>6. CASE addr[m] < UINT16_MAX /\ start_address' = addr[m] /\ Go("access", live)
  <2>1. pc' = "access" /\ step' = "none"
    BY <1>1, <1>6 DEF Go, ending
  <2>2. file[m].number \in Int
    <3>1. file[m] \in Line /\ ~file[m].too_long /\ LineOK(file[m])
      BY <1>4 DEF ScannedTo
    <3> QED BY <3>1, ControlAssumption DEF Line, LineOK
  <2>3. addr[m] = Scan(file[m].number) /\ addr[m] \in Nat
    <3>1. PICK u \in Upper : addr[m] = Scan(file[m].number) + u * UINT_SIZE
      BY <1>4 DEF ScannedTo
    <3>2. Scan(file[m].number) \in Nat /\ u \in Nat
      BY <2>2, ScanRange, ControlAssumption
    <3>3. u = 0
      <4>1. SUFFICES ASSUME u > 0 PROVE FALSE
        BY <3>2
      <4>2. u * UINT_SIZE >= UINT_SIZE
        BY <3>2, <4>1, ControlAssumption
      <4>3. u * UINT_SIZE \in Nat
        BY <3>2, ControlAssumption
      <4> HIDE DEF m
      <4> QED BY <1>6, <3>1, <3>2, <4>2, <4>3, ControlAssumption
    <3>4. u * UINT_SIZE = 0
      BY <3>3, ControlAssumption
    <3> QED BY <3>1, <3>2, <3>4
  <2>4. start_address' \in 0 .. UINT16_MAX - 1
    <3> HIDE DEF m
    <3> QED BY <1>6, <2>3, ControlAssumption
  <2>5. start_address' = Scan(file[map[piece.name]].number)'
    BY <1>1, <1>2, <1>6, <2>3 DEF Scan
  <2>6. (piece.start = "!" => Scan(piece.number) <= UINT16_MAX)'
    BY <1>1 DEF IInv, AccessInv, Scan
  <2>7. AccessInv'
    BY <1>1, <1>2, <1>4, <2>1, <2>4, <2>5, <2>6 DEF IInv, AccessInv, Looping, Commanding
  <2> QED BY <1>1, <1>2, <1>3, <1>6, <2>7, CommandStep DEF Commanding
<1> QED BY <1>5, <1>6 DEF set_modbus_address, Running

\* The last line of a name is the one the table holds.
LEMMA LastLine ==
  ASSUME MappedTo(line_nr), line_nr \in Nat, NEW name \in DOMAIN map
  PROVE  Mapped(name) = file[map[name]].number
<1> DEFINE IsLast(n) == file[n].name = name /\ \A m \in n + 1 .. line_nr : file[m].name # name
<1>1. map[name] \in 1 .. line_nr /\ IsLast(map[name])
  BY DEF MappedTo
<1>2. ASSUME NEW n \in 1 .. line_nr, IsLast(n) PROVE n = map[name]
  <2>1. ~(n < map[name])
    BY <1>1, <1>2
  <2>2. ~(map[name] < n)
    BY <1>1, <1>2
  <2> QED BY <1>1, <2>1, <2>2
<1>3. (CHOOSE n \in 1 .. line_nr : IsLast(n)) = map[name]
  <2> HIDE DEF IsLast
  <2> QED BY <1>1, <1>2
<1> QED BY <1>3 DEF Mapped

\* The access is to the register of the command, with its value.
LEMMA AccessIInv ==
  ASSUME IInv, Running(Access)
  PROVE  IInv'
<1> DEFINE value == IF piece.start = "!" THEN Scan(piece.number) ELSE 0
<1>1. /\ pc = "access" /\ Going /\ step = "none" /\ Go("free", live) /\ pc' = "free"
      /\ access' = [piece |-> piece, address |-> start_address, value |-> value]
      /\ UNCHANGED <<pointers, mapping, piece, start_address>>
  BY DEF Access, Running, At, Going, Go
<1>2. AccessInv'
  BY <1>1 DEF IInv, AccessInv, Looping, Commanding
<1>3. AccessAsScanned'
  <2>1. /\ piece.name \in DOMAIN map /\ MappedTo(line_nr) /\ line_nr \in Nat
        /\ start_address = Scan(file[map[piece.name]].number)
    BY <1>1 DEF IInv, AccessInv, DataInv, FileInv, MapIndex, Reading
  <2>2. start_address = Scan(Mapped(piece.name))
    BY <2>1, LastLine
  <2>3. access'.piece = piece /\ access'.address = start_address /\ access'.value = value
    BY <1>1
  <2>4. Mapped(access.piece.name)' = Mapped(piece.name)
    BY <1>1, <2>3 DEF Mapped, mapping
  <2>5. Scan(Mapped(access.piece.name))' = start_address
    BY <2>2, <2>4 DEF Scan
  <2>6. piece.start = "!" => value = Scan(piece.number) /\ value <= UINT16_MAX
    BY <1>1 DEF IInv, AccessInv
  <2>7. Scan(access.piece.number)' = Scan(piece.number)
    BY <2>3 DEF Scan
  <2> HIDE DEF value
  <2> QED BY <2>3, <2>5, <2>6, <2>7 DEF AccessAsScanned
<1> QED BY <1>1, <1>2, <1>3, CommandStep DEF Commanding

\* The buffer is freed once, its pointer stays.
LEMMA FreeBufferIInv ==
  ASSUME IInv, Running(FreeBuffer)
  PROVE  IInv'
<1>1. /\ pc = "free" /\ Going /\ step = "none" /\ outcome = "running"
      /\ Free({Block("buffer")}) /\ pc' = "malloc" /\ UNCHANGED ending
      /\ UNCHANGED <<pointers, mapping, driver>>
  BY DEF FreeBuffer, Running, At, Going
<1>2. /\ live = Memory(HeldBlocks, HeldItems) /\ HeldItems \in Nat
      /\ HeldBlocks = {"fd", "table", "entries", "buffer"} /\ Len(list) = line_nr
  BY <1>1, HeldNow DEF IInv, FileInv, HeldBlocks, HeldItems, HeldInv, Reading, Commanding
<1>3. Go("malloc", live \ {Block("buffer")})
  <2>1. Block("buffer") \in live
    BY <1>2 DEF Memory
  <2> QED BY <1>1, <2>1 DEF Go, Free
<1>4. step' = "none" /\ line_nr' = line_nr /\ list' = list
  BY <1>1 DEF ending, mapping, pointers
<1>5. FileInv' /\ PointerInv' /\ Pointers'
  BY <1>1, <1>4
     DEF IInv, FileInv, PointerInv, BoundInv, Pointers, pointers, mapping,
         Reading, Looping, Commanding
<1>6. HeldBlocks' = {"fd", "table", "entries"} /\ HeldItems' = HeldItems
  BY <1>1, <1>4 DEF HeldBlocks, HeldItems, Reading, Commanding
<1>7. live \ {Block("buffer")} = Memory(HeldBlocks', HeldItems')
  BY <1>2, <1>6 DEF Memory, Block, Item
<1>8. DataInv'
  BY <1>1, <1>4, DataFrame DEF IInv, mapping, ScanIndex, MapIndex, Reading
<1>9. AccessInv' /\ AccessAsScanned'
  BY <1>1, <1>4, AccessFrame, CommandFrame DEF IInv, mapping, driver, Looping, Commanding
<1> QED BY <1>1, <1>2, <1>3, <1>4, <1>5, <1>7, <1>8, <1>9, GoIInv DEF Looping
-----------------------------------------------------------------------------
(* handle_signal and cleanup.                                              *)

\* A signal finds every pointer cleanup looks at valid, unless it interrupts
\* cleanup or comes where buffer or table->entries is stale.
LEMMA SignalIInv ==
  ASSUME IInv, NEW s \in {"SIGINT", "SIGTERM"}, Running(handle_signal(s))
  PROVE  IInv'
<1>1. /\ outcome = "running" /\ outcome' = "running"
      /\ blocked' = blocked \cup {s} /\ reentered' = (reentered \/ step # "none")
      /\ step' = "buffer" /\ status' = "success"
      /\ UNCHANGED <<pc, pointers, live, mapping, driver, list_item>>
  BY DEF Running, handle_signal
<1>2. UNCHANGED <<buffer, hash_table, fd, list, map, addr, file, line_nr>>
  BY <1>1 DEF pointers, mapping
<1>3. ControlInv'
  BY <1>1 DEF IInv, ControlInv
<1>4. FileInv' /\ PointerInv' /\ HeldInv' /\ BoundInv'
  <2>1. FileInv'
    BY <1>1, <1>2 DEF IInv, FileInv
  <2>2. PointerInv'
    BY <1>1, <1>2 DEF IInv, PointerInv, ListOf
  <2>3. HeldInv' /\ BoundInv'
    BY <1>1, <1>2 DEF IInv, Going, HeldInv, BoundInv, Pointers
  <2> QED BY <2>1, <2>2, <2>3
<1>5. ErrorExitReleasesAll' /\ InterruptIsSafe'
  BY <1>1 DEF ErrorExitReleasesAll, InterruptIsSafe
<1>6. DataInv' /\ AccessInv' /\ AccessAsScanned'
  BY <1>1, <1>2, DataFrame, AccessFrame, CommandFrame DEF IInv, driver
<1>7. CleanupInv'
  <2>1. SUFFICES ASSUME ~reentered'
                 PROVE  /\ pc \notin {"malloc", "grow"} => Pending' \subseteq live
                        /\ pc \in Commanding => live \subseteq Pending' \cup {Block("fd")}
    BY <1>1 DEF CleanupInv
  <2>2. Going
    BY <1>1, <2>1 DEF Going
  <2>3. /\ live = Memory(HeldBlocks, HeldItems) /\ line_nr \in Nat /\ HeldItems \in Nat
        /\ Len(list) = IF pc \in {"malloc_item", "link"} THEN line_nr - 1 ELSE line_nr
        /\ HeldItems = IF pc = "malloc_item" THEN line_nr - 1 ELSE line_nr
        /\ Len(list) \in Nat
    BY <2>2, HeldNow DEF IInv, FileInv, PointerInv, HeldInv, HeldItems, Reading
  <2>4. Pending' = Memory(PendingBlocks', Len(list))
    BY <1>1, <1>2 DEF Pending, Memory, Block, Item
  <2>5. PendingBlocks' = (IF buffer THEN {"buffer"} ELSE {})
                         \cup (IF hash_table THEN {"table", "entries"} ELSE {})
    BY <1>1, <1>2 DEF PendingBlocks
  <2>6. ASSUME pc \notin {"malloc", "grow"} PROVE Pending' \subseteq live
    <3>1. PendingBlocks' \subseteq HeldBlocks
      BY <2>5, <2>6 DEF IInv, PointerInv, HeldBlocks, Looping
    <3>2. Len(list) <= HeldItems
      BY <2>3
    <3> QED BY <2>3, <2>4, <3>1, <3>2, MemoryMonotone
  <2>7. ASSUME pc \in Commanding PROVE live \subseteq Pending' \cup {Block("fd")}
    <3>1. HeldBlocks \subseteq PendingBlocks' \cup {"fd"}
      BY <2>5, <2>7 DEF IInv, PointerInv, HeldBlocks, Commanding, Reading
    <3>2. HeldItems = Len(list)
      BY <2>3, <2>7 DEF Commanding
    <3>3. Memory(HeldBlocks, HeldItems) \subseteq Memory(PendingBlocks' \cup {"fd"}, Len(list))
      BY <2>3, <3>1, <3>2, MemoryMonotone
    <3>4. Memory(PendingBlocks' \cup {"fd"}, Len(list))
            \subseteq Memory(PendingBlocks', Len(list)) \cup {Block("fd")}
      BY DEF Memory
    <3> QED BY <2>3, <2>4, <3>3, <3>4
  <2> QED BY <2>6, <2>7
<1> QED BY <1>3, <1>4, <1>5, <1>6, <1>7 DEF IInv

\* A step of cleanup that frees S of what it has to free.
LEMMA CleanupFrame ==
  ASSUME IInv, outcome = "running", step # "none", CleanupOnly, step' \in {"table", "list"},
         NEW S, Free(S), S \subseteq Pending, Pending' = Pending \ S,
         step' = "list" => Len(list_item') \in Nat /\ ListOf(Len(list_item))' = list_item'
  PROVE  IInv'
<1>1. /\ live' = live \ S /\ outcome' = IF S \subseteq live THEN "running" ELSE "aborted"
      /\ UNCHANGED <<pc, buffer, hash_table, fd, list, map, addr, file, line_nr, driver>>
      /\ UNCHANGED <<status, blocked, reentered>>
  BY DEF Free, CleanupOnly, pointers, mapping
<1>2. ControlInv'
  BY <1>1 DEF IInv, ControlInv
<1>3. FileInv' /\ PointerInv' /\ HeldInv' /\ BoundInv'
  <2>1. FileInv'
    BY <1>1 DEF IInv, FileInv
  <2>2. PointerInv'
    BY <1>1 DEF IInv, PointerInv, ListOf
  <2>3. HeldInv' /\ BoundInv'
    BY <1>1 DEF IInv, Going, HeldInv, BoundInv, Pointers
  <2> QED BY <2>1, <2>2, <2>3
<1>4. DataInv' /\ AccessInv' /\ AccessAsScanned'
  BY <1>1, DataFrame, AccessFrame, CommandFrame DEF IInv, driver
<1>5. /\ ~reentered /\ ~(blocked # {} /\ pc \in {"malloc", "grow"}) => Pending \subseteq live
      /\ ~reentered /\ (status = "failure" \/ pc \in Commanding) =>
           live \subseteq Pending \cup {Block("fd")}
  BY DEF IInv, CleanupInv
<1>6. CleanupInv'
  BY <1>1, <1>5 DEF CleanupInv
<1>7. ErrorExitReleasesAll'
  BY <1>1 DEF ErrorExitReleasesAll
<1>8. InterruptIsSafe'
  <2>1. ASSUME ~reentered, outcome' # "running"
        PROVE  blocked # {} /\ pc \in {"malloc", "grow"}
    BY <1>1, <1>5, <2>1
  <2> QED BY <1>1, <2>1 DEF InterruptIsSafe
<1> QED BY <1>2, <1>3, <1>4, <1>6, <1>7, <1>8 DEF IInv

\* The buffer, if there is one.
LEMMA CleanupBufferIInv ==
  ASSUME IInv, Running(CleanupBuffer)
  PROVE  IInv'
<1> DEFINE S == IF buffer THEN {Block("buffer")} ELSE {}
<1>1. /\ outcome = "running" /\ step = "buffer" /\ step' = "table" /\ Free(S) /\ CleanupOnly
      /\ UNCHANGED <<buffer, hash_table, list>>
  BY DEF Running, CleanupBuffer, CleanupOnly, pointers
<1>2. /\ Pending = Memory(PendingBlocks, Len(list))
      /\ Pending' = Memory(PendingBlocks', Len(list))
  BY <1>1 DEF Pending, Memory, Block, Item
<1>3. /\ PendingBlocks' = PendingBlocks \ {"buffer"}
      /\ buffer <=> "buffer" \in PendingBlocks
  BY <1>1 DEF PendingBlocks
<1>4. S \subseteq Pending /\ Pending' = Pending \ S
  <2>1. Len(list) \in Nat
    BY DEF IInv, FileInv, PointerInv
  <2> QED BY <1>2, <1>3, <2>1 DEF Memory, Block, Item
<1> HIDE DEF S
<1> QED BY <1>1, <1>4, CleanupFrame

\* ht_destroy, if there is a table; then the list.
LEMMA CleanupTableIInv ==
  ASSUME IInv, Running(CleanupTable)
  PROVE  IInv'
<1> DEFINE S == IF hash_table THEN {Block("table"), Block("entries")} ELSE {}
<1>1. /\ outcome = "running" /\ step = "table" /\ step' = "list" /\ list_item' = list
      /\ Free(S) /\ CleanupOnly
      /\ UNCHANGED <<buffer, hash_table, list>>
  BY DEF Running, CleanupTable, CleanupOnly, pointers
<1>2. Len(list) \in Nat /\ list = ListOf(Len(list))
  BY DEF IInv, FileInv, PointerInv
<1>3. Pending = Memory(PendingBlocks, Len(list)) /\ Pending' = Memory({}, Len(list))
  BY <1>1 DEF Pending, PendingBlocks, Memory, Block, Item
<1>4. PendingBlocks = IF hash_table THEN {"table", "entries"} ELSE {}
  BY <1>1 DEF PendingBlocks
<1>5. S \subseteq Pending /\ Pending' = Pending \ S
  BY <1>2, <1>3, <1>4 DEF Memory, Block, Item
<1>6. Len(list_item') \in Nat /\ ListOf(Len(list_item))' = list_item'
  BY <1>1, <1>2 DEF ListOf
<1> HIDE DEF S
<1> QED BY <1>1, <1>5, <1>6, CleanupFrame

\* One list_item, the last one read first.
LEMMA CleanupItemIInv ==
  ASSUME IInv, Running(CleanupItem)
  PROVE  IInv'
<1> DEFINE k == Len(list_item)
<1>1. /\ outcome = "running" /\ step = "list" /\ step' = "list" /\ list_item # <<>>
      /\ list_item' = Tail(list_item)
      /\ Free({Head(list_item)}) /\ CleanupOnly
  BY DEF Running, CleanupItem
<1>2. k \in Nat /\ list_item = ListOf(k)
  BY <1>1 DEF IInv, CleanupInv
<1>3. /\ k > 0 /\ Head(list_item) = Item(k)
      /\ Tail(list_item) = ListOf(k - 1) /\ Len(ListOf(k - 1)) = k - 1
  <2> HIDE DEF k
  <2>1. k > 0
    BY <1>1, <1>2, ListOps
  <2>2. k - 1 \in Nat
    BY <1>2, <2>1
  <2>3. Len(ListOf(k - 1)) = k - 1
    BY <2>2, ListOps
  <2> QED BY <1>2, <2>1, <2>3, ListOps
<1>4. Len(list_item') = k - 1 /\ list_item' = ListOf(k - 1)
  BY <1>1, <1>3
<1>5. Pending = Memory({}, k) /\ Pending' = Memory({}, k - 1)
  BY <1>1, <1>4 DEF Pending, PendingBlocks, Memory, Block, Item
<1>6. {Head(list_item)} \subseteq Pending /\ Pending' = Pending \ {Head(list_item)}
  <2>1. Item(k) \in Memory({}, k)
    BY <1>2, <1>3 DEF Memory
  <2>2. 1 .. k - 1 = (1 .. k) \ {k}
    BY <1>2, <1>3
  <2>3. Memory({}, k - 1) = Memory({}, k) \ {Item(k)}
    BY <1>2, <1>3, <2>2 DEF Memory, Item
  <2> QED BY <1>3, <1>5, <2>1, <2>3
<1>7. Len(list_item') \in Nat /\ ListOf(Len(list_item))' = list_item'
  BY <1>2, <1>3, <1>4 DEF ListOf, Item
<1> QED BY <1>1, <1>6, <1>7, CleanupFrame

\* The device is closed and the process ends.
LEMMA CleanupCloseIInv ==
  ASSUME IInv, Running(CleanupClose)
  PROVE  IInv'
<1>1. /\ outcome = "running" /\ step = "list" /\ list_item = <<>>
      /\ live' = IF fd THEN live \ {Block("fd")} ELSE live
      /\ outcome' = status
      /\ UNCHANGED <<pc, buffer, hash_table, fd, list, map, addr, file, line_nr, driver>>
      /\ UNCHANGED <<status, blocked, reentered, step, list_item>>
  BY DEF Running, CleanupClose, CleanupOnly, pointers, mapping
<1>2. status \in {"success", "failure"} /\ (fd <=> pc # "open")
  BY <1>1 DEF IInv, ControlInv, PointerInv
<1>3. ControlInv'
  BY <1>1, <1>2 DEF IInv, ControlInv
<1>4. FileInv' /\ PointerInv' /\ HeldInv' /\ BoundInv'
  <2>1. FileInv'
    BY <1>1 DEF IInv, FileInv
  <2>2. PointerInv'
    BY <1>1 DEF IInv, PointerInv, ListOf
  <2>3. HeldInv' /\ BoundInv'
    BY <1>1, <1>2 DEF IInv, Going, HeldInv, BoundInv, Pointers
  <2> QED BY <2>1, <2>2, <2>3
<1>5. DataInv' /\ AccessInv' /\ AccessAsScanned'
  BY <1>1, DataFrame, AccessFrame, CommandFrame DEF IInv, driver
<1>6. CleanupInv'
  BY <1>1, <1>2 DEF CleanupInv
<1>7. ASSUME ~reentered, status = "failure" \/ pc \in Commanding, pc # "open"
      PROVE  live' = {}
  <2>1. Pending = {}
    BY <1>1 DEF Pending, PendingBlocks, Memory
  <2>2. live \subseteq {Block("fd")}
    BY <1>1, <1>7, <2>1 DEF IInv, CleanupInv
  <2> QED BY <1>1, <1>2, <1>7, <2>2
<1>8. ErrorExitReleasesAll'
  BY <1>1, <1>7 DEF IInv, ControlInv, ErrorExitReleasesAll
<1>9. InterruptIsSafe'
  BY <1>1, <1>2, <1>7 DEF IInv, ControlInv, InterruptIsSafe, Commanding
<1> QED BY <1>3, <1>4, <1>5, <1>6, <1>8, <1>9 DEF IInv
-----------------------------------------------------------------------------
(* The theorems.                                                           *)

\* Typing a line changes nothing the program has.
LEMMA SameIInv ==
  ASSUME IInv, UNCHANGED <<pc, pointers, live, mapping, piece, driver, ending, outcome>>
  PROVE  IInv'
<1>1. /\ UNCHANGED <<pc, live, piece, outcome, buffer, hash_table, fd, list>>
      /\ UNCHANGED <<map, addr, file, line_nr, start_address, access>>
      /\ UNCHANGED <<step, list_item, status, blocked, reentered>>
  BY DEF pointers, mapping, driver, ending
<1>2. ControlInv' /\ FileInv' /\ ErrorExitReleasesAll' /\ InterruptIsSafe'
  BY <1>1 DEF IInv, ControlInv, FileInv, ErrorExitReleasesAll, InterruptIsSafe
<1>3. PointerInv' /\ BoundInv'
  BY <1>1 DEF IInv, PointerInv, ListOf, BoundInv, Pointers
<1>4. HeldInv'
  BY <1>1 DEF IInv, HeldInv, Going, HeldMemory, HeldBlocks, HeldItems, Memory, Block, Item
<1>5. CleanupInv'
  <2>1. Pending' = Pending
    BY <1>1 DEF Pending, PendingBlocks, Memory, Block, Item
  <2> QED BY <1>1, <2>1 DEF IInv, CleanupInv, ListOf
<1>6. DataInv' /\ AccessAsScanned'
  BY <1>1, DataFrame, CommandFrame DEF IInv, ScanIndex, MapIndex
<1>7. AccessInv'
  BY <1>1 DEF IInv, AccessInv, Scan
<1> QED BY <1>2, <1>3, <1>4, <1>5, <1>6, <1>7 DEF IInv

\* The program starts with nothing.
LEMMA InitIInv == Init => IInv
<1> SUFFICES ASSUME Init PROVE IInv
  OBVIOUS
<1> USE DEF Init
<1>1. ControlInv /\ ErrorExitReleasesAll /\ InterruptIsSafe /\ AccessAsScanned
  BY DEF ControlInv, ErrorExitReleasesAll, InterruptIsSafe, AccessAsScanned
<1>2. FileInv
  <2>1. PICK m \in 0 .. MaxLines : file \in [1 .. m -> Line]
    BY DEF BoundedSeq, SeqOf
  <2>2. file \in Seq(Line) /\ Len(file) = m
    BY <2>1, ControlAssumption
  <2> QED BY <2>1, <2>2, ControlAssumption DEF FileInv, Reading, Looping, Commanding
<1>3. PointerInv
  BY DEF PointerInv, Looping, Commanding, ListOf
<1>4. HeldInv
  <2>1. HeldBlocks = {} /\ HeldItems = 0
    BY DEF HeldBlocks, HeldItems, Reading, Commanding
  <2>2. Memory({}, 0) = {}
    BY DEF Memory
  <2> QED BY <2>1, <2>2 DEF HeldInv, HeldMemory
<1>5. CleanupInv /\ AccessInv
  BY ControlAssumption DEF CleanupInv, AccessInv
<1>6. DataInv
  BY DEF DataInv, ScannedTo, MappedTo, ScanIndex, MapIndex, Reading
<1>7. BoundInv
  BY DEF BoundInv, Pointers
<1> QED BY <1>1, <1>2, <1>3, <1>4, <1>5, <1>6, <1>7 DEF IInv

\* Every step of the program, of a signal or of the user keeps it.
LEMMA NextIInv == IInv /\ [Next]_vars => IInv'
<1> SUFFICES ASSUME IInv, [Next]_vars PROVE IInv'
  OBVIOUS
<1>1. CASE Running(Startup)
  BY <1>1, OpenIInv, CreateTableIInv, OpenMapIInv, GetLineIInv, MallocItemIInv, LinkIInv,
     ScanLineIInv, GrowFreeIInv, GrowSetIInv, SetEntryIInv DEF Startup, Running
<1>2. CASE Running(Loop)
  BY <1>2, MallocBufferIInv, ReadNothingIInv, ReadCommandIInv, SetAddressIInv, AccessIInv,
     FreeBufferIInv DEF Loop, Running
<1>3. CASE Running(cleanup)
  BY <1>3, CleanupBufferIInv, CleanupTableIInv, CleanupItemIInv, CleanupCloseIInv
     DEF cleanup, Running
<1>4. CASE Running(Type)
  BY <1>4, SameIInv DEF Type, Running
<1>5. CASE \E s \in {"SIGINT", "SIGTERM"} : Running(handle_signal(s))
  BY <1>5, SignalIInv
<1>6. CASE UNCHANGED vars
  BY <1>6, SameIInv DEF vars
<1> QED BY <1>1, <1>2, <1>3, <1>4, <1>5, <1>6 DEF Next

\* IInv holds in every state of the program.
THEOREM Invariance == Spec => []IInv
BY InitIInv, NextIInv, PTL DEF Spec

\* Type correctness: whatever the file, the commands and the signals are, the
\* memory is that of the program's own blocks, every name in the table leads to
\* a list_item, and the driver never has an address it would refuse.
THEOREM TypeCorrect == Spec => []TypeOK
<1>1. IInv => TypeOK
  BY DEF IInv, ControlInv, DataInv, AccessInv, BoundInv, Pointers, Memory, TypeOK
<1> QED BY <1>1, Invariance, PTL

\* terminate_with_error releases everything, from wherever it is called.
THEOREM ErrorsRelease == Spec => []ErrorExitReleasesAll
<1>1. IInv => ErrorExitReleasesAll
  BY DEF IInv
<1> QED BY <1>1, Invariance, PTL

\* A signal that does not interrupt cleanup aborts the program only in the two
\* places where a pointer is stale, and in the middle of a command it ends it
\* cleanly.
THEOREM InterruptsSafe == Spec => []InterruptIsSafe
<1>1. IInv => InterruptIsSafe
  BY DEF IInv
<1> QED BY <1>1, Invariance, PTL

\* Every access of the driver is to the register that %u reads in the last line
\* for the name of its command, and writes what %u reads in that command, which
\* fits a register; for numbers of any size, so that one of 2^32 or more is
\* reduced and not refused.
THEOREM AccessesScanned == Spec => []AccessAsScanned
<1>1. IInv => AccessAsScanned
  BY DEF IInv
<1> QED BY <1>1, Invariance, PTL
=============================================================================
