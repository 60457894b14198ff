-------------------------- MODULE FileSystemProps --------------------------
(***************************************************************************)
(* What must be true of the files and directories a program reads.         *)
(***************************************************************************)
EXTENDS Programs

\* Positions stay within what they point into: no read takes more than is left.
PositionsInside ==
    \A fd \in table.spaces \ Stdio :
        LET f == fd_array[fd]
        IN  CASE f.file_type = "file" -> f.file_pos <= Inodes[f.inode].length
              [] f.file_type = "dir"  -> f.file_pos <= Len(Dentries)
              [] OTHER                -> f.file_pos = 0

\* Type invariant, with what a position may point at.
TypeOK == /\ table \in FdTables
          /\ fd_array \in [Fds -> FdFiles]
          /\ result.ret \in Int
          /\ \A fd \in table.spaces \ Stdio : fd_array[fd].file_type # "none"
          /\ PositionsInside

\* What a call returns is the number of bytes it stored ("number of bytes copied over
\* to the buffer", filesystem.c:155).
ReturnsWhatItStored ==
    [][\A fd \in Fds, n \in ReadSizes :
          DirectoryRead(fd, n) => result'.ret = Len(result'.bytes)]_kernel

\* Only files that start with the magic number are loaded ("Check if program image is
\* a valid executable", filesystem.c:420).
LoadsOnlyExecutables ==
    [][\A name \in Names : Execute(name) /\ result'.ret = 0 =>
          LET inode == Dentries[Lookup(name)].inode
          IN  inode \in Elf /\ Inodes[inode].length >= MAGIC]_kernel

-----------------------------------------------------------------------------
(***************************************************************************)
(* The image as streams: byte n of a file is byte n % BLOCK_SIZE of its    *)
(* block n \div BLOCK_SIZE.                                                *)
(***************************************************************************)
ByteAt(inode, n) == <<Inodes[inode].data_blocks[n \div BLOCK_SIZE], (n % BLOCK_SIZE) + 1>>
Bytes == [inode \in 0 .. num_inodes - 1 |->
             [n \in 1 .. Inodes[inode].length |-> ByteAt(inode, n - 1)]]
NamesInOrder == [k \in 1 .. Len(Dentries) |-> Dentries[k].name]
From(seq, pos) == SubSeq(seq, pos + 1, Len(seq))

StreamOf(f) == [kind  |-> f.file_type,
                items |-> CASE f.file_type = "file" -> From(Bytes[f.inode], f.file_pos)
                            [] f.file_type = "dir"  -> From(NamesInOrder, f.file_pos)
                            [] OTHER                -> << >>]

\* What programs ask for at a time: anything, or the size of what their buffers have room for.
Asked == ReadSizes \cup 0 .. BUFSIZE \cup {READ_SIZE, CAT_SIZE, SBUFSIZE - 1}

Bad(x) == x[1] >= num_data_blocks

Executables == {name \in Names : LET d == Dentries[Lookup(name)]
                              IN  d.file_type = "file" /\ d.inode \in Elf}
IsExecutable(name) == name \in Executables
Opened == [name \in Names |-> StreamOf(NewFile(name))]
StreamNamed(name) == Opened[name]

S == INSTANCE Streams WITH
        Fds       <- Fds \ Stdio,
        ReadSizes <- Asked,
        IsProgram <- IsExecutable,
        Content   <- StreamNamed,
        Failed    <- Bad,
        stream    <- [fd \in Fds \ Stdio |-> IF fd \in table.spaces THEN StreamOf(fd_array[fd])
                                             ELSE [kind |-> "closed", items |-> << >>]],
        outcome   <- IF result.ret = -1 THEN "error" ELSE "ok",
        taken     <- IF result.ret = -1 THEN << >> ELSE result.bytes

\* The blocks, positions and descriptors implement the streams.
ReadsStreams == S!Spec
=============================================================================
