------------------------------- MODULE Files -------------------------------
(***************************************************************************)
(* The descriptor tables: open, close, lseek and read of files of the tar  *)
(* archive, pipes, dup2, and what fork and execve make of the table        *)
(* (sys/tarfs.c, sys/iostream.c, sys/pipe.c, sys/fork.c).                  *)
(*                                                                         *)
(* Addresses are numbers, because the code compares and dereferences them: *)
(* 0 is "no file", Start[f] the first byte of file f, Buffer[p] the page   *)
(* of pipe p.                                                              *)
(* A call that fails and changes nothing (open of a name that is not in    *)
(* the archive, dup2 of a descriptor above fd_cnt) is a stuttering step.   *)
(***************************************************************************)
EXTENDS Integers, Sequences, FiniteSets

CONSTANTS
  Task, first,   \* the tasks, and the one that exists at first
  File,          \* the files of the archive
  Start, Size,   \* bin_start_addr and file_size of each file
  INITIAL_MEM,   \* no page below this address is ever mapped on demand
  Unused,        \* BOOLEAN: fewer than MAX_BIN entries, so one has address 0
  Pipe, Buffer,  \* the pipes that can be created, the address of each buffer
  PIPE,          \* bytes of a pipe buffer (4096)
  NFD,           \* descriptors of a task (25)
  Counts,        \* the counts read() is called with
  Chunks,        \* what write() is called with: sequences of bytes
  NUL,           \* the byte that ends a string
  Seeks,         \* the offsets lseek() is called with
  MaxSeek,       \* bound: no seek beyond this
  Dups           \* the pairs dup2() is called with

ASSUME FilesAssumption ==
  /\ first \in Task
  /\ INITIAL_MEM \in Nat
  /\ DOMAIN Start = File /\ \A f \in File : Start[f] > INITIAL_MEM
  /\ Size \in [File -> Nat]
  /\ Buffer \in [Pipe -> Nat \ {0}]
  /\ \A f \in File, g \in File : f # g => Start[f] # Start[g]
  /\ \A f \in File : (\A p \in Pipe : Start[f] # Buffer[p])
                  /\ (\A g \in File : Size[g] < Start[f])
  /\ NFD \in Nat /\ NFD > 2 /\ PIPE \in Nat \ {0}
  /\ Counts \subseteq Nat \ {0} /\ Seeks \subseteq 0..MaxSeek
  /\ Dups \subseteq (0..(NFD - 1)) \X (0..(NFD - 1))
  /\ Unused \in BOOLEAN

VARIABLES
  alive,      \* the tasks that exist
  fd_cnt,     \* fd_cnt of each task: its highest descriptor
  fd,         \* fd: the open files of each task
  dup_arr,    \* dup_arr: where each descriptor is redirected to
  pipes,      \* the pipes that have been created
  buf,        \* the bytes of each pipe buffer
  due,        \* what was written to each pipe and not yet read
  torn,       \* the pipes with bytes behind the end of the string: a read was
              \* interrupted, or printf() wrote its buffer with a number's
              \* NUL and what was behind it
  last        \* the last call: its name, task, descriptor and result

vars == <<alive, fd_cnt, fd, dup_arr, pipes, buf, due, torn, last>>

FD == 0..(NFD - 1)
Cell == 0..(PIPE - 1)

(* struct File; path is abstracted to the file it names, or "".            *)
NoFile == [offset |-> 0, offset_read |-> 0, file_size |-> 0, seek |-> 0,
           path |-> ""]

Returns(op, t, i, res) == last' = [op |-> op, task |-> t, fd |-> i, res |-> res]

-----------------------------------------------------------------------------
(* Strings in a pipe buffer.                                               *)
strlen(b) ==
  IF \A k \in Cell : b[k] # NUL THEN PIPE
  ELSE CHOOSE k \in Cell : b[k] = NUL /\ \A j \in 0..(k - 1) : b[j] # NUL

strcpy(b) == [k \in 1..strlen(b) |-> b[k - 1]]

(* Mutant: the string is cleared up to but not including its last byte.    *)
memset_short(b, n) == [k \in Cell |-> IF k < n - 1 THEN NUL ELSE b[k]]

memset(b, n) == [k \in Cell |-> IF k < n THEN NUL ELSE b[k]]

(* The part of a chunk that the program means: up to the first NUL.        *)
Text(c) ==
  SelectSeq([k \in 1..Len(c) |-> IF \E j \in 1..k : c[j] = NUL THEN NUL ELSE c[k]],
            LAMBDA x : x # NUL)

-----------------------------------------------------------------------------
Init ==
  /\ alive = {first}
  /\ fd_cnt = [t \in Task |-> 2]
  /\ fd = [t \in Task |-> [i \in FD |-> NoFile]]
  /\ dup_arr = [t \in Task |-> [i \in FD |-> i]]
  /\ pipes = {}
  /\ buf = [p \in Pipe |-> [k \in Cell |-> NUL]]
  /\ due = [p \in Pipe |-> <<>>] /\ torn = {}
  /\ last = [op |-> "boot", task |-> first, fd |-> 0, res |-> 0]

(* sys_open(): the next descriptor.  The table is never searched for a     *)
(* free one, and nothing checks that it is not full (NFD bounds the model).*)
(* The lookup of the name and ref_cnt are in module Paths.                 *)
sys_open(t, f) ==
  LET n == fd_cnt[t] + 1
  IN  /\ t \in alive /\ n \in FD
      /\ fd_cnt' = [fd_cnt EXCEPT ![t] = n]
      /\ fd' = [fd EXCEPT ![t][n] =
                 [offset |-> Start[f], offset_read |-> Start[f],
                  file_size |-> Size[f], seek |-> 0, path |-> f]]
      /\ Returns("open", t, n, n)
      /\ UNCHANGED <<alive, dup_arr, pipes, buf, due, torn>>

(* The addresses in the archive's table.                                   *)
Entries == {Start[f] : f \in File} \cup (IF Unused THEN {0} ELSE {})

(* Mutant: the offset is left in place.                                    *)
Closed_keeps_offset(f) == [f EXCEPT !.path = ""]

Closed(f) == [f EXCEPT !.offset = 0, !.path = ""]

(* sys_close(): finds the archive's entry by the address of the file.      *)
sys_close(t, i) ==
  /\ t \in alive /\ i <= fd_cnt[t]
  /\ \/ /\ fd[t][i].offset \in Entries
        /\ fd' = [fd EXCEPT ![t][i] = Closed(@)]
        /\ Returns("close", t, i, 1)
     \/ /\ fd[t][i].offset \notin Entries
        /\ Returns("close", t, i, 0)
        /\ UNCHANGED fd
  /\ UNCHANGED <<alive, fd_cnt, dup_arr, pipes, buf, due, torn>>

-----------------------------------------------------------------------------
Redirected(t, i) == dup_arr[t][i] # i

(* Mutant: one more read at the end of the file.                           *)
AtEnd_off_by_one(f) == f.offset_read > f.offset + f.file_size

(* The test for the end of the file in sys_read().                         *)
AtEnd(f) == f.offset_read >= f.offset + f.file_size

(* sys_read() from an open file: n bytes from offset_read, or from seek if *)
(* that has been set; a page fault below INITIAL_MEM ends the task.        *)
sys_read(t, i, n) ==
  LET f   == fd[t][i]
      src == IF f.seek = 0 THEN f.offset_read ELSE f.seek
  IN  /\ t \in alive /\ i > 2 /\ i <= fd_cnt[t] /\ ~Redirected(t, i)
      /\ \/ /\ ~AtEnd(f) /\ src >= INITIAL_MEM
            /\ fd' = [fd EXCEPT ![t][i].offset_read = @ + n]
            /\ Returns("read", t, i, n)
            /\ UNCHANGED alive
         \/ /\ ~AtEnd(f) /\ src < INITIAL_MEM
            /\ alive' = alive \ {t}
            /\ Returns("read", t, i, 0)
            /\ UNCHANGED fd
         \/ /\ AtEnd(f)
            /\ Returns("read", t, i, 0)
            /\ UNCHANGED <<alive, fd>>
      /\ UNCHANGED <<fd_cnt, dup_arr, pipes, buf, due, torn>>

(* sys_lseek() with SEEK_SET, SEEK_CUR and SEEK_END.  (For a descriptor    *)
(* without a file the search of SEEK_END runs off the archive's table; the *)
(* seek of descriptors 0 to 2 is never used.)                              *)
sys_lseek(t, i, k, whence) ==
  LET f    == fd[t][i]
      seek == CASE whence = "SET" -> k
                [] whence = "CUR" -> f.seek + k
                [] whence = "END" -> Size[f.path] + k
  IN  /\ t \in alive /\ i > 2 /\ i <= fd_cnt[t]
      /\ whence = "END" => f.path \in File
      /\ seek <= MaxSeek
      /\ fd' = [fd EXCEPT ![t][i].seek = seek]
      /\ Returns("lseek", t, i, seek)
      /\ UNCHANGED <<alive, fd_cnt, dup_arr, pipes, buf, due, torn>>

-----------------------------------------------------------------------------
(* sys_pipe(): a cleared page (no frame is ever used twice, see Frames)    *)
(* and two descriptors.                                                    *)
sys_pipe(t, p) ==
  LET fd1 == fd_cnt[t] + 1
      fd2 == fd_cnt[t] + 2
  IN  /\ t \in alive /\ fd2 \in FD /\ p \notin pipes
      /\ pipes' = pipes \cup {p}
      /\ fd_cnt' = [fd_cnt EXCEPT ![t] = fd2]
      /\ fd' = [fd EXCEPT ![t][fd1].offset = Buffer[p], ![t][fd1].path = "pipe_buffer",
                          ![t][fd2].offset = Buffer[p], ![t][fd2].path = "pipe_buffer"]
      /\ Returns("pipe", t, fd1, 0)
      /\ UNCHANGED <<alive, dup_arr, buf, due, torn>>

(* sys_dup2(): the old descriptor is redirected to the new one.            *)
sys_dup2(t, old, new) ==
  /\ t \in alive /\ old <= fd_cnt[t] /\ new <= fd_cnt[t]
  /\ dup_arr' = [dup_arr EXCEPT ![t][old] = new]
  /\ Returns("dup2", t, old, new)
  /\ UNCHANGED <<alive, fd_cnt, fd, pipes, buf, due, torn>>

(* The pipe that descriptor i of task t is redirected to.  Programs only   *)
(* redirect to pipes; a redirection to anything else is left out.          *)
Target(t, i) ==
  {p \in pipes : Redirected(t, i) /\ fd[t][dup_arr[t][i]].offset = Buffer[p]}

(* sys_write() to a pipe: after the string that is there.  A chunk has to  *)
(* leave room for a NUL: nothing in the code checks it (PIPE bounds the    *)
(* model).                                                                 *)
sys_write_pipe(t, i, c) ==
  \E p \in Target(t, i) :
    LET at == strlen(buf[p])
    IN  /\ t \in alive /\ at + Len(c) < PIPE
        /\ buf' = [buf EXCEPT ![p] =
                     [k \in Cell |-> IF k >= at /\ k < at + Len(c) THEN c[k - at + 1]
                                     ELSE @[k]]]
        /\ due' = [due EXCEPT ![p] = @ \o Text(c)]
        /\ torn' = IF Text(c) = c THEN torn ELSE torn \cup {p}
        /\ Returns("write", t, i, Len(c))
        /\ UNCHANGED <<alive, fd_cnt, fd, dup_arr, pipes>>

(* sys_write() to a descriptor that is not redirected and not the screen:  *)
(* nothing is written.                                                     *)
sys_write_other(t, i, c) ==
  /\ t \in alive /\ i <= fd_cnt[t] /\ ~Redirected(t, i) /\ i \notin {1, 2}
  /\ Returns("write", t, i, 0)
  /\ UNCHANGED <<alive, fd_cnt, fd, dup_arr, pipes, buf, due, torn>>

(* sys_read() from a pipe: the whole string, whatever the count; then it   *)
(* is cleared.  Interrupts are enabled (syscall.c runs it after sti): the  *)
(* timer may come when only k bytes are cleared, and a call that it        *)
(* interrupts is never finished (module Context).                          *)
sys_read_pipe(t, i) ==
  \E p \in Target(t, i) :
    LET len == strlen(buf[p])
    IN  \E k \in {len} \cup 1..len :
          /\ t \in alive
          /\ buf' = [buf EXCEPT ![p] = memset(@, k)]
          /\ due' = [due EXCEPT ![p] = <<>>]
          /\ torn' = IF k = len THEN torn ELSE torn \cup {p}
          /\ Returns("read", t, i, IF k = len THEN len ELSE 0)
          /\ UNCHANGED <<alive, fd_cnt, fd, dup_arr, pipes>>

-----------------------------------------------------------------------------
(* What fork and execve copy of an open file: offset and path.             *)
Inherited(f) == [NoFile EXCEPT !.offset = f.offset, !.path = f.path]

sys_fork(t, c) ==
  /\ t \in alive /\ c \notin alive
  /\ alive' = alive \cup {c}
  /\ fd_cnt' = [fd_cnt EXCEPT ![c] = fd_cnt[t]]
  /\ fd' = [fd EXCEPT ![c] = [i \in FD |-> Inherited(fd[t][i])]]
  /\ dup_arr' = [dup_arr EXCEPT ![c] = [i \in FD |-> i]]
  /\ Returns("fork", t, 0, 0)
  /\ UNCHANGED <<pipes, buf, due, torn>>

sys_execve(t) ==
  /\ t \in alive
  /\ fd' = [fd EXCEPT ![t] = [i \in FD |-> Inherited(fd[t][i])]]
  /\ Returns("execve", t, 0, 0)
  /\ UNCHANGED <<alive, fd_cnt, dup_arr, pipes, buf, due, torn>>

(* sys_exit() closes nothing: the pipes keep what was written.  Nobody     *)
(* reads the table of a task that is gone.                                 *)
sys_exit(t) ==
  /\ t \in alive
  /\ alive' = alive \ {t}
  /\ fd_cnt' = [fd_cnt EXCEPT ![t] = 2]
  /\ fd' = [fd EXCEPT ![t] = [i \in FD |-> NoFile]]
  /\ dup_arr' = [dup_arr EXCEPT ![t] = [i \in FD |-> i]]
  /\ Returns("exit", t, 0, 0)
  /\ UNCHANGED <<pipes, buf, due, torn>>

Next ==
  \E t \in Task :
    \/ \E f \in File : sys_open(t, f)
    \/ \E i \in FD : sys_close(t, i)
    \/ \E i \in FD, n \in Counts : sys_read(t, i, n)
    \/ \E i \in FD : sys_read_pipe(t, i)
    \/ \E i \in FD, k \in Seeks, w \in {"SET", "CUR", "END"} : sys_lseek(t, i, k, w)
    \/ \E p \in Pipe : sys_pipe(t, p)
    \/ \E d \in Dups : sys_dup2(t, d[1], d[2])
    \/ \E i \in FD, c \in Chunks : sys_write_pipe(t, i, c) \/ sys_write_other(t, i, c)
    \/ \E c \in Task : sys_fork(t, c)
    \/ sys_execve(t)
    \/ sys_exit(t)

Spec == Init /\ [][Next]_vars

-----------------------------------------------------------------------------
(* README: "Data written to the write end of the pipe is buffered by the   *)
(* kernel until it is read from the read end of the pipe": the string in   *)
(* the buffer, all that sys_read() will ever deliver, is what was written  *)
(* and not yet read, in order, whichever tasks wrote it, until a read is   *)
(* interrupted or a printf() of numbers has left its tail behind.          *)
PipeHolds == \A p \in Pipe \ torn : strcpy(buf[p]) = due[p]

(* The descriptor of the last call, as it is now.                          *)
Used == fd[last.task][last.fd]

FileRead == last.op = "read" /\ ~Redirected(last.task, last.fd)

(* README: close() makes a descriptor "no longer refer to any file":       *)
(* sys_read() then returns 0, although offset_read and file_size still     *)
(* hold what they held, and whatever lseek() had set.                      *)
ClosedReadsNothing == FileRead /\ Used.path = "" => last.res = 0

(* A read through a descriptor that the program opened and did not seek    *)
(* starts inside the file; at its end sys_read() returns 0.                *)
ReadsStartInFile ==
  FileRead /\ last.res > 0 /\ Used.seek = 0 /\ Used.offset_read > Used.offset
    => Used.offset_read - last.res \in Used.offset..(Used.offset + Used.file_size - 1)
=============================================================================
