----------------------------- MODULE FileSystem -----------------------------
(***************************************************************************)
(* The read-only file system (filesystem.c) as one program uses it: open,  *)
(* close and read on files and directories (the jump tables of syscall.c), *)
(* and the loading of programs by execute.                                 *)
(*                                                                         *)
(* A disk image is a boot block with directory entries, inodes and data    *)
(* blocks.  A byte of the image is named by its place, a name is the       *)
(* sequence of its characters.  Numbers of bytes are unsigned in 32 bits   *)
(* where the code makes them so.                                           *)
(***************************************************************************)
EXTENDS FdTable, Strings, FiniteSets

CONSTANTS BLOCK_SIZE, NUM_DATA_BLOCKS,
          num_inodes, num_data_blocks,  \* of the boot block
          Dentries,     \* dir_entries: a sequence of [name, file_type, inode]
          Inodes,       \* [0 .. num_inodes - 1 -> [length, data_blocks]]
          MAX_FILE_NAME_LENGTH,
          OtherNames,   \* what programs ask for that no entry is called
          Elf,          \* the inodes whose bytes start as an executable's do
          MAGIC, HEADER,\* bytes of the magic number, and up to the entry point
          ReadSizes,    \* what programs ask for
          WORD          \* 2^32: what unsigned numbers wrap at

ASSUME BlockAssumption == /\ BLOCK_SIZE \in Nat \ {0}
                          /\ NUM_DATA_BLOCKS \in Nat \ {0}
ASSUME CountAssumption == num_inodes \in Nat /\ num_data_blocks \in Nat
ASSUME ImageAssumption ==
    \A i \in 0 .. num_inodes - 1 :
        /\ Inodes[i].length \in 0 .. BLOCK_SIZE * NUM_DATA_BLOCKS
        /\ Inodes[i].data_blocks \in [0 .. NUM_DATA_BLOCKS - 1 -> Nat]
ASSUME NameAssumption ==
    /\ MAX_FILE_NAME_LENGTH \in Nat
    /\ \A name \in OtherNames : IsString(name)
    /\ \A k \in 1 .. Len(Dentries) :
          LET name == Dentries[k].name
          IN  IsString(name) /\ Len(name) \in 1 .. MAX_FILE_NAME_LENGTH
ASSUME DentryAssumption ==
    /\ IsString(Dentries)
    /\ \A k \in 1 .. Len(Dentries) :
          /\ Dentries[k].file_type \in {"rtc", "dir", "file"}
          /\ Dentries[k].file_type = "file" => Dentries[k].inode \in 0 .. num_inodes - 1
\* As an unsigned number, a negative size is more than any file holds.
ASSUME WordAssumption ==
    /\ WORD \in Nat /\ WORD > BLOCK_SIZE * NUM_DATA_BLOCKS
    /\ \A n \in ReadSizes : n \in Int /\ n < WORD /\ BLOCK_SIZE * NUM_DATA_BLOCKS - n <= WORD
ASSUME ProgramAssumption == MAGIC \in 1 .. WORD - 1 /\ HEADER \in MAGIC .. WORD - 1

VARIABLES table,     \* fda_spaces and fda_full, see FdTable
          fd_array,  \* [Fds -> [file_type, inode, file_pos]]
          result     \* of the last system call: its value and the bytes it stored, execute's
                     \* where the program starts, read's in its buffer

kernel == <<table, fd_array, result>>

Names == {Dentries[k].name : k \in 1 .. Len(Dentries)}
File(type, inode) == [file_type |-> type, inode |-> inode, file_pos |-> 0]
NoFile == File("none", 0)
FdFiles == [file_type : {"none", "stdin", "stdout", "rtc", "dir", "file"},
            inode : 0 .. num_inodes, file_pos : Nat]

Returned(n) == [ret |-> n, bytes |-> << >>]
Error == Returned(-1)

FileSystemInit ==
        /\ table = FreshTable
        /\ fd_array = [fd \in Fds |-> CASE fd = 0 -> File("stdin", 0)
                                        [] fd = 1 -> File("stdout", 0)
                                        [] OTHER  -> NoFile]
        /\ result = Returned(0)

Unsigned(n) == n % WORD
Block(b) == [i \in 1 .. BLOCK_SIZE |-> <<b, i>>]

-----------------------------------------------------------------------------
(***************************************************************************)
(* read_data: block by block from the first.                               *)
(***************************************************************************)
VisitBlock_NoReset(s, b, length) ==
    IF b >= num_data_blocks THEN [s EXCEPT !.failed = TRUE, !.done = TRUE]
    ELSE IF s.offset >= BLOCK_SIZE THEN [s EXCEPT !.offset = @ - BLOCK_SIZE]
    ELSE LET rest == SubSeq(Block(b), s.offset + 1, BLOCK_SIZE)
             part == SubSeq(rest, 1, Lesser(Len(rest), length - Len(s.bytes)))
         IN  [s EXCEPT !.bytes = @ \o part, !.done = Len(s.bytes \o part) = length]

VisitBlock(s, b, length) ==
    IF b >= num_data_blocks THEN [s EXCEPT !.failed = TRUE, !.done = TRUE]
    ELSE IF s.offset >= BLOCK_SIZE THEN [s EXCEPT !.offset = @ - BLOCK_SIZE]
    ELSE LET rest == SubSeq(Block(b), s.offset + 1, BLOCK_SIZE)
             part == SubSeq(rest, 1, Lesser(Len(rest), length - Len(s.bytes)))
         IN  [s EXCEPT !.offset = 0, !.bytes = @ \o part,
                       !.done = Len(s.bytes \o part) = length]

ReadData(inode, offset, length) ==
    LET visited[k \in 0 .. NUM_DATA_BLOCKS] ==
            IF k = 0
            THEN [offset |-> offset, bytes |-> << >>, done |-> FALSE, failed |-> FALSE]
            ELSE IF visited[k - 1].done THEN visited[k - 1]
            ELSE VisitBlock(visited[k - 1], Inodes[inode].data_blocks[k - 1], length)
        last == visited[NUM_DATA_BLOCKS]
    IN  IF inode >= num_inodes THEN Error
        ELSE IF length = 0 THEN Returned(0)
        ELSE IF last.failed THEN [ret |-> -1, bytes |-> last.bytes]
        ELSE [ret |-> Len(last.bytes), bytes |-> last.bytes]

ReadNoPos(inode, nbytes) ==
    ReadData(inode, 0, Lesser(Inodes[inode].length, Unsigned(nbytes)))

-----------------------------------------------------------------------------
(***************************************************************************)
(* System calls.                                                           *)
(***************************************************************************)
\* read_dentry_by_name finds the first entry with the name.
Matches_Prefix(name, k) == Len(name) <= MAX_FILE_NAME_LENGTH
                           /\ Alike(name, Dentries[k].name, Len(name))
Matches(name, k) == Len(name) <= MAX_FILE_NAME_LENGTH
                    /\ Alike(name, Dentries[k].name, MAX_FILE_NAME_LENGTH)

Found(name) == \E k \in 1 .. Len(Dentries) : Matches(name, k)
Lookup(name) == CHOOSE k \in 1 .. Len(Dentries) :
                    Matches(name, k) /\ \A j \in 1 .. k - 1 : ~Matches(name, j)

NewFile(name) == LET d == Dentries[Lookup(name)]
                 IN  File(d.file_type, IF d.file_type = "file" THEN d.inode ELSE 0)

Open(name) ==
    /\ Found(name) /\ ~OpenFails(table)
    /\ \E fd \in Fds :
          /\ FirstFree(table, fd)
          /\ table' = AfterOpen(table, fd)
          /\ fd_array' = [fd_array EXCEPT ![fd] = NewFile(name)]
          /\ result' = Returned(fd)

OpenFailing(name) ==
    /\ ~Found(name) \/ OpenFails(table)
    /\ result' = Error
    /\ UNCHANGED <<table, fd_array>>

Close(fd) ==
    /\ IF CloseFails(table, fd)
       THEN /\ result' = Error
            /\ UNCHANGED <<table, fd_array>>
       ELSE /\ result' = Returned(0)
            /\ table' = AfterClose(table, fd)
            /\ fd_array' = [fd_array EXCEPT ![fd] = NoFile]

\* The jump table of a descriptor is that of its type.
Reads(fd, type) == fd \in table.spaces /\ fd_array[fd].file_type = type

FileRead_NotCut(fd, nbytes) ==
    /\ Reads(fd, "file")
    /\ LET f     == fd_array[fd]
           left  == Inodes[f.inode].length - f.file_pos
           read  == ReadData(f.inode, f.file_pos, Unsigned(nbytes))
       IN  IF left <= 0
           THEN result' = Returned(0) /\ UNCHANGED fd_array
           ELSE /\ result' = read
                /\ fd_array' = IF read.ret = -1 THEN fd_array
                               ELSE [fd_array EXCEPT ![fd].file_pos = @ + read.ret]
    /\ UNCHANGED table

\* file_read: the position moves only when the read did not fail.
FileRead(fd, nbytes) ==
    /\ Reads(fd, "file")
    /\ LET f     == fd_array[fd]
           left  == Inodes[f.inode].length - f.file_pos
           read  == ReadData(f.inode, f.file_pos, Lesser(left, Unsigned(nbytes)))
       IN  IF left <= 0
           THEN result' = Returned(0) /\ UNCHANGED fd_array
           ELSE /\ result' = read
                /\ fd_array' = IF read.ret = -1 THEN fd_array
                               ELSE [fd_array EXCEPT ![fd].file_pos = @ + read.ret]
    /\ UNCHANGED table

DirectoryRead_SameName(fd, nbytes) ==
    /\ Reads(fd, "dir")
    /\ LET pos  == fd_array[fd].file_pos
           name == Dentries[pos + 1].name
       IN  result' = IF pos >= Len(Dentries) THEN Returned(0)
                     ELSE [ret |-> Len(name), bytes |-> Cut(name, nbytes)]
    /\ UNCHANGED <<table, fd_array>>

\* directory_read returns the length of the name, whatever nbytes is.
DirectoryRead(fd, nbytes) ==
    /\ Reads(fd, "dir")
    /\ LET pos  == fd_array[fd].file_pos
           name == Dentries[pos + 1].name
       IN  IF pos >= Len(Dentries)
           THEN result' = Returned(0) /\ UNCHANGED fd_array
           ELSE /\ result' = [ret |-> Len(name), bytes |-> Cut(name, nbytes)]
                /\ fd_array' = [fd_array EXCEPT ![fd].file_pos = @ + 1]
    /\ UNCHANGED table

-----------------------------------------------------------------------------
(***************************************************************************)
(* execute: check_file_type, check_program_image, find_program_entry and   *)
(* load_program_image.  The descriptor it opens is closed again before the *)
(* program that called execute goes on (see Processes).                    *)
(***************************************************************************)
\* A buffer on the stack is not initialized: where a short file does not fill it,
\* anything may be read, the magic number of an earlier file included.
Checks(inode, bytes, magic, garbage) ==
    LET read == ReadNoPos(inode, bytes)
    IN  /\ read.ret # -1
        /\ read.bytes = << >> \/ inode \in Elf
        /\ read.ret < magic => garbage

CheckProgramImage(inode, garbage) == Checks(inode, MAGIC, MAGIC, garbage)

FindProgramEntry(inode, garbage) == Checks(inode, HEADER, HEADER, garbage)

LoadProgramImage(inode) == ReadNoPos(inode, Inodes[inode].length)

Execute(name) ==
    /\ ~OpenFails(table)
    /\ \E garbage \in BOOLEAN :
          LET d      == Dentries[Lookup(name)]
              loaded == LoadProgramImage(d.inode)
          IN  IF /\ Found(name)
                 /\ d.file_type = "file"
                 /\ CheckProgramImage(d.inode, garbage)
                 /\ FindProgramEntry(d.inode, garbage)
                 /\ loaded.ret # -1
              THEN result' = [ret |-> 0, bytes |-> loaded.bytes]
              ELSE result' = Error
    /\ UNCHANGED <<table, fd_array>>
=============================================================================
