------------------------------- MODULE Paths -------------------------------
(***************************************************************************)
(* Names: the index that tarfs_initialize() makes of the archive, the      *)
(* lookups in it (check_file(), sys_open(), sys_getdents() of sys/tarfs.c, *)
(* opendir() and readdir() of libc), the reference counts, and the working *)
(* directory of each task, with what fork and execve make of it.           *)
(*                                                                         *)
(* Names are sequences of characters, because the code matches prefixes.   *)
(* The archive is a sequence of blocks; an address is a block number.      *)
(* What else a descriptor holds is in module Files.                        *)
(***************************************************************************)
EXTENDS Integers, Sequences, SequencesExt, FiniteSets

CONSTANTS
  Task, first,   \* the tasks, and the one that exists at first
  Archives,      \* the archives: sequences of [name, size, dir]
  BLOCK,         \* bytes of a block (512)
  MAX_BIN,       \* entries of the index (40)
  NFD,           \* bound: descriptors above 2 that a task opens
  Names,         \* the names programs use
  MaxRef,        \* bound: how far a reference count goes from 0
  Home,          \* the directory of the first program
  Garbage        \* what may be found in an array that nobody has written

ASSUME PathsAssumption ==
  /\ first \in Task /\ BLOCK \in Nat \ {0} /\ NFD \in Nat /\ MaxRef \in 0..255
  /\ \A arc \in Archives : Len(arc) + 2 <= MAX_BIN
  /\ \A arc \in Archives, i, j \in 1..MAX_BIN :
       i # j /\ i <= Len(arc) /\ j <= Len(arc) => arc[i].name # arc[j].name
  /\ <<>> \notin Names

VARIABLES
  archive,    \* the archive the kernel was linked with
  tarfs_ind,  \* the index
  alive,      \* the tasks that exist
  dir_path,   \* the working directory of each task
  fd,         \* the descriptors of each task above 2: offset and path
  dirp,       \* the DIR of each task: descriptor, entries, position
  got,        \* what readdir() has returned from it
  uneven      \* a descriptor was inherited, or was open when its task ended

vars == <<archive, tarfs_ind, alive, dir_path, fd, dirp, got, uneven>>

-----------------------------------------------------------------------------
(* The archive's blocks: a header and the data of each file, and the two   *)
(* empty blocks that end it.                                               *)
Zero == [name |-> <<>>, size |-> 0, dir |-> FALSE, of |-> 0]
Data == [name |-> <<"?">>, size |-> 0, dir |-> FALSE, of |-> 0]

Blocks(arc) ==
  FlattenSeq([i \in 1..Len(arc) |->
    <<[name |-> arc[i].name, size |-> arc[i].size, dir |-> arc[i].dir, of |-> i]>>
      \o [k \in 1..((arc[i].size + BLOCK - 1) \div BLOCK) |-> Data]])
  \o <<Zero, Zero>>

(* Mutant: always one block more than the whole ones.                      *)
DataBlocks_plus_1(size) == size \div BLOCK + 1

(* How many blocks tarfs_initialize() skips for a file.                    *)
DataBlocks(size) == IF size % BLOCK = 0 THEN size \div BLOCK ELSE size \div BLOCK + 1

(* An entry of the index; its address is that of the block behind.         *)
Entry(b, at) ==
  [name |-> b.name, size |-> b.size, dir |-> b.dir, ref_cnt |-> 0, start |-> at + 1]

Unused == [name |-> <<>>, size |-> 0, dir |-> FALSE, ref_cnt |-> 0, start |-> 0]

(* tarfs_initialize(): from header to header while there are blocks.  The  *)
(* empty blocks at the end become entries without a name.                  *)
tarfs_initialize(bs) ==
  LET Walk[at \in 1..(2 * Len(bs) + 2)] ==
        IF at > Len(bs) THEN <<>>
        ELSE <<Entry(bs[at], at)>> \o Walk[at + 1 + DataBlocks(bs[at].size)]
      w == Walk[1]
  IN  [i \in 1..MAX_BIN |-> IF i <= Len(w) THEN w[i] ELSE Unused]

-----------------------------------------------------------------------------
(* The first of a set of entries, 0 if there is none.                      *)
First(S) == IF S = {} THEN 0 ELSE CHOOSE i \in S : \A j \in S : i <= j

check_file(name) == First({i \in 1..MAX_BIN : tarfs_ind[i].name = name})

(* The loop of sys_open(): the name, or the name and a slash.              *)
Lookup(name) ==
  First({i \in 1..MAX_BIN : tarfs_ind[i].name \in {name, Append(name, "/")}})

(* Mutant: the directory itself is listed too.                             *)
sys_getdents_with_self(path) ==
  SelectSeq([i \in 1..MAX_BIN |-> tarfs_ind[i].name], LAMBDA n : IsPrefix(path, n))

(* sys_getdents(): every entry whose name goes on after the descriptor's.  *)
sys_getdents(path) ==
  SelectSeq([i \in 1..MAX_BIN |-> tarfs_ind[i].name], LAMBDA n : IsStrictPrefix(path, n))

(* strcmp(typeflag, "5") reads on into ref_cnt, which follows typeflag in  *)
(* the packed structure: a directory counts as one while its low byte is 0.*)
IsDir(i) == tarfs_ind[i].dir /\ tarfs_ind[i].ref_cnt % 256 = 0

(* The test of sys_chdir(): new_path is the beginning of a directory.      *)
Found(path) == \E i \in 1..MAX_BIN : IsDir(i) /\ IsPrefix(path, tarfs_ind[i].name)

NULL == <<>>

Ends(s, c) == s # <<>> /\ Last(s) = c

NoDir == [fd |-> 0, entries |-> <<>>, offset |-> 0]

-----------------------------------------------------------------------------
Init ==
  /\ archive \in Archives
  /\ tarfs_ind = tarfs_initialize(Blocks(archive))
  /\ alive = {first}
  /\ dir_path = [t \in Task |-> Home]
  /\ fd = [t \in Task |-> <<>>]
  /\ dirp = [t \in Task |-> NoDir] /\ got = [t \in Task |-> <<>>]
  /\ uneven = FALSE

(* sys_open() of the entry i.                                              *)
Opens(t, i) ==
  /\ t \in alive /\ Len(fd[t]) < NFD /\ i # 0 /\ tarfs_ind[i].ref_cnt < MaxRef
  /\ tarfs_ind' = [tarfs_ind EXCEPT ![i].ref_cnt = @ + 1]
  /\ fd' = [fd EXCEPT ![t] =
              Append(@, [offset |-> tarfs_ind[i].start, path |-> tarfs_ind[i].name])]

sys_open(t, name) ==
  /\ Opens(t, Lookup(name))
  /\ UNCHANGED <<archive, alive, dir_path, dirp, got, uneven>>

(* opendir(): open() and getdents(); a program has one DIR at a time.      *)
opendir(t, name) ==
  /\ dirp[t] = NoDir /\ Opens(t, Lookup(name))
  /\ dirp' = [dirp EXCEPT ![t] = [fd |-> Len(fd'[t]), offset |-> 0,
                                  entries |-> sys_getdents(tarfs_ind[Lookup(name)].name)]]
  /\ got' = [got EXCEPT ![t] = <<>>]
  /\ UNCHANGED <<archive, alive, dir_path, uneven>>

(* readdir(): the next entry, or NULL.                                     *)
readdir(t) ==
  LET d == dirp[t]
  IN  /\ t \in alive /\ d # NoDir
      /\ \/ /\ d.offset < Len(d.entries)
            /\ got' = [got EXCEPT ![t] = Append(@, d.entries[d.offset + 1])]
            /\ dirp' = [dirp EXCEPT ![t].offset = @ + 1]
         \/ /\ d.offset >= Len(d.entries)
            /\ ~Ends(got[t], NULL)
            /\ got' = [got EXCEPT ![t] = Append(@, NULL)]
            /\ UNCHANGED dirp
      /\ UNCHANGED <<archive, tarfs_ind, alive, dir_path, fd, uneven>>

(* Mutant: the reference count is left alone.                              *)
Closes_no_count(t, k, i) ==
  /\ fd' = [fd EXCEPT ![t][k] = [offset |-> 0, path |-> <<" ">>]]
  /\ UNCHANGED tarfs_ind

Closes(t, k, i) ==
  /\ fd' = [fd EXCEPT ![t][k] = [offset |-> 0, path |-> <<" ">>]]
  /\ tarfs_ind' = [tarfs_ind EXCEPT ![i].ref_cnt = @ - 1]

(* sys_close(): the entry is found by its address.  A closed descriptor    *)
(* has address 0, and so do the unused entries (a second close of it then  *)
(* counts one of those down, which nothing reads; left out).  Closing the  *)
(* descriptor of the DIR is closedir().                                    *)
sys_close(t, k) ==
  LET i == First({j \in 1..MAX_BIN : tarfs_ind[j].start = fd[t][k].offset})
  IN  /\ t \in alive /\ fd[t][k].offset # 0 /\ tarfs_ind[i].ref_cnt > -MaxRef
      /\ Closes(t, k, i)
      /\ IF dirp[t].fd = k
         THEN dirp' = [dirp EXCEPT ![t] = NoDir] /\ got' = [got EXCEPT ![t] = <<>>]
         ELSE UNCHANGED <<dirp, got>>
      /\ UNCHANGED <<archive, alive, dir_path, uneven>>

(* Mutant: the path is taken over before it is looked up.                  *)
Enters_first(t, path) == dir_path' = [dir_path EXCEPT ![t] = path]

(* A path that is not found changes nothing, and chdir() returns -1.       *)
Enters(t, path) ==
  Found(path) /\ dir_path' = [dir_path EXCEPT ![t] = path]

(* sys_chdir() of a name: the working directory, a slash and the name.     *)
(* The slash overwrites the end of the string in new_path, so that         *)
(* whatever the array holds behind it gets in between.  Before an empty    *)
(* working directory the code reads new_path[-1], which may be a slash.    *)
sys_chdir(t, name) ==
  LET cwd == dir_path[t]
  IN  /\ t \in alive
      /\ \/ /\ cwd = <<>> \/ Ends(cwd, "/")
            /\ Enters(t, cwd \o name)
         \/ /\ ~Ends(cwd, "/")
            /\ \E g \in Garbage : Enters(t, Append(cwd, "/") \o g \o name)
      /\ UNCHANGED <<archive, tarfs_ind, alive, fd, dirp, got, uneven>>

(* sys_chdir() of a path that begins with a dot: it is appended to an      *)
(* array nobody has written or put together without an end, so that it may *)
(* become any path.                                                        *)
sys_chdir_dot(t) ==
  /\ t \in alive
  /\ \E path \in UNION {Prefixes(tarfs_ind[i].name) : i \in 1..MAX_BIN} :
       Enters(t, path)
  /\ UNCHANGED <<archive, tarfs_ind, alive, fd, dirp, got, uneven>>

IsOpen(t) == \E k \in 1..Len(fd[t]) : fd[t][k].offset # 0

(* sys_fork() copies the working directory and the descriptors, and the    *)
(* child has its parent's memory; nobody counts the new descriptors.       *)
sys_fork(t, c) ==
  /\ t \in alive /\ c \notin alive
  /\ alive' = alive \cup {c}
  /\ dir_path' = [dir_path EXCEPT ![c] = dir_path[t]]
  /\ fd' = [fd EXCEPT ![c] = fd[t]]
  /\ dirp' = [dirp EXCEPT ![c] = dirp[t]] /\ got' = [got EXCEPT ![c] = got[t]]
  /\ uneven' = (uneven \/ IsOpen(t))
  /\ UNCHANGED <<archive, tarfs_ind>>

(* sys_execve(): a new program with the descriptors and the directory of   *)
(* the old one.                                                            *)
sys_execve(t, name) ==
  /\ t \in alive /\ check_file(name) # 0
  /\ dirp' = [dirp EXCEPT ![t] = NoDir] /\ got' = [got EXCEPT ![t] = <<>>]
  /\ UNCHANGED <<archive, tarfs_ind, alive, dir_path, fd, uneven>>

(* sys_exit() closes nothing.  Nobody reads the structure of a task that   *)
(* is gone.                                                                *)
sys_exit(t) ==
  /\ t \in alive
  /\ alive' = alive \ {t}
  /\ dir_path' = [dir_path EXCEPT ![t] = Home]
  /\ fd' = [fd EXCEPT ![t] = <<>>]
  /\ dirp' = [dirp EXCEPT ![t] = NoDir] /\ got' = [got EXCEPT ![t] = <<>>]
  /\ uneven' = (uneven \/ IsOpen(t))
  /\ UNCHANGED <<archive, tarfs_ind>>

Next ==
  \E t \in Task :
    \/ \E n \in Names : \/ sys_open(t, n) \/ opendir(t, n) \/ sys_execve(t, n)
                        \/ sys_chdir(t, n)
    \/ sys_chdir_dot(t) \/ readdir(t) \/ sys_exit(t)
    \/ \E k \in 1..Len(fd[t]) : sys_close(t, k)
    \/ \E c \in Task : sys_fork(t, c)

Spec == Init /\ [][Next]_vars

-----------------------------------------------------------------------------
(* The index is the archive: every file, in order, with the address of the *)
(* block behind its header, whatever the sizes; the rest has no name.  So  *)
(* open() finds exactly the files there are, and a directory with or       *)
(* without its slash; never a file whose name only begins alike.           *)
IndexExact ==
  LET bs == Blocks(archive)
      Named(n) == {i \in 1..Len(archive) : archive[i].name \in {n, Append(n, "/")}}
  IN  /\ \A i \in 1..MAX_BIN :
           IF i <= Len(archive)
           THEN /\ bs[tarfs_ind[i].start - 1].of = i
                /\ tarfs_ind[i].name = archive[i].name /\ tarfs_ind[i].size = archive[i].size
           ELSE tarfs_ind[i].name = <<>>
      /\ \A n \in Names : IF Named(n) = {} THEN Lookup(n) = 0 ELSE Lookup(n) \in Named(n)

(* A program that reads a directory to its end has seen every file below   *)
(* it once and nothing else, whatever was opened, closed or forked since.  *)
ListingExact ==
  \A t \in alive :
    LET path == fd[t][dirp[t].fd].path
    IN  dirp[t] # NoDir /\ Ends(got[t], NULL) /\ Ends(path, "/") =>
          got[t] = SelectSeq([i \in 1..Len(archive) |-> archive[i].name],
                             LAMBDA n : IsStrictPrefix(path, n)) \o <<NULL>>

(* A task's working directory is always the name of a directory of the     *)
(* archive, or the beginning of one: a failed or a garbled chdir() never   *)
(* leaves it anywhere else, and fork and execve keep it.                   *)
CwdExists ==
  \A t \in alive : \E i \in 1..Len(archive) :
    archive[i].dir /\ IsPrefix(dir_path[t], archive[i].name)

(* ref_cnt is the number of descriptors that refer to the file, until a    *)
(* descriptor is inherited or left open.  So every directory can be        *)
(* entered again once it is closed (sys_chdir() needs the count to be 0).  *)
RefCntExact ==
  ~uneven => \A i \in 1..Len(archive) :
    tarfs_ind[i].ref_cnt =
      Cardinality({p \in alive \X (1..NFD) :
                     p[2] <= Len(fd[p[1]]) /\ fd[p[1]][p[2]].offset = tarfs_ind[i].start})
=============================================================================
