------------------------------ MODULE FileApi ------------------------------
(***************************************************************************)
(* The file calls that the shell, the SFTP server and user programs make:  *)
(* mutable_fs.c seen from above its commit point.  MutableFs shows how one *)
(* of these calls reaches the disk; here a call is a single step on the    *)
(* live tree and on the table of open files.                               *)
(*                                                                         *)
(* The calls are operators on a record s:                                  *)
(*   tree  path -> entry (absent, directory, or file with its content)     *)
(*   open  descriptor -> open file (path, cursor, flags) or closed         *)
(*   fail  how many more file writes succeed before the disk refuses one;  *)
(*         0 when it refuses none                                          *)
(*   max   the largest file, in tokens (g_active_max_file_bytes)           *)
(*   st    the status of the last call, fd and got its results             *)
(* A path is the sequence of its names, the content of a file a sequence   *)
(* of tokens.                                                              *)
(***************************************************************************)
EXTENDS Integers, Sequences, FiniteSets, SequencesExt

CONSTANTS
    Paths,        \* the paths that are short enough to be valid
    MaxNodes,     \* g_active_max_nodes
    MaxOpen       \* MFS_MAX_OPEN_FILES

Root == << >>

Absent == [kind |-> "absent", data |-> << >>]
Dir == [kind |-> "dir", data |-> << >>]
File(content) == [kind |-> "file", data |-> content]

Closed == [path |-> Root, cursor |-> 0, flags |-> {}]

\* A token is a word or the end of a line; Zero fills what was never written.
Word(w) == [word |-> w]
NL == Word("newline")
Zero == Word("zero")

Answer(s, status) == [s EXCEPT !.st = status]

At(s, p) == IF p = Root THEN Dir ELSE s.tree[p]

Exists(s, p) == p \in Paths /\ At(s, p) # Absent

parent_exists_for(s, p) ==
    \/ Len(p) <= 1
    \/ Front(p) \in Paths /\ s.tree[Front(p)] = Dir

Children(s, p) ==
    {q \in Paths : q # Root /\ Front(q) = p /\ s.tree[q] # Absent}

HasFreeNode(s) ==
    Cardinality({q \in Paths : q # Root /\ s.tree[q] # Absent}) < MaxNodes

Put(s, p, entry) == Answer([s EXCEPT !.tree[p] = entry], "OK")

\* The disk refuses the write, and the files stay as they are.
DiskRefuses(s) == Answer([s EXCEPT !.fail = 0], "IO")

DiskTakes(s) == [s EXCEPT !.fail = IF s.fail = 0 THEN 0 ELSE s.fail - 1]

write_file(s, p, content) ==
    CASE \/ p \notin Paths \ {Root}
         \/ ~parent_exists_for(s, p)
         \/ Len(content) > s.max
         \/ s.tree[p] = Dir -> Answer(s, "INVALID")
      [] OTHER ->
         IF s.fail = 1 THEN DiskRefuses(s)
         ELSE IF s.tree[p] = Absent /\ ~HasFreeNode(s)
              THEN Answer(s, "NO_MEMORY")
              ELSE Put(DiskTakes(s), p, File(content))

read_file(s, p) ==
    IF Exists(s, p) /\ At(s, p).kind = "file"
    THEN [s EXCEPT !.st = "OK", !.got = s.tree[p].data]
    ELSE Answer(s, "NOT_FOUND")

create_dir(s, p) ==
    CASE p \notin Paths \/ ~parent_exists_for(s, p) -> Answer(s, "INVALID")
      [] p \in Paths /\ parent_exists_for(s, p) ->
         CASE At(s, p) = Dir -> Answer(s, "OK")
           [] At(s, p).kind = "file" -> Answer(s, "INVALID")
           [] At(s, p) = Absent ->
              IF HasFreeNode(s) THEN Put(s, p, Dir) ELSE Answer(s, "NO_MEMORY")

delete_node(s, p) ==
    CASE ~Exists(s, p) -> Answer(s, "NOT_FOUND")
      [] Exists(s, p) ->
         IF p = Root \/ Children(s, p) # {} THEN Answer(s, "BUSY")
         ELSE Put(s, p, Absent)

rename_node(s, old, new) ==
    CASE new \notin Paths \/ ~parent_exists_for(s, new) -> Answer(s, "INVALID")
      [] new \in Paths /\ parent_exists_for(s, new) ->
         CASE ~Exists(s, old) -> Answer(s, "NOT_FOUND")
           [] Exists(s, old) ->
              IF Exists(s, new) \/ old = Root \/ Children(s, old) # {}
              THEN Answer(s, "BUSY")
              ELSE Answer([s EXCEPT !.tree[new] = s.tree[old],
                                    !.tree[old] = Absent], "OK")

\* The names in a directory, one to a line.  An empty root is an error.
list_dir(s, p) ==
    IF p \notin Paths \/ At(s, p) # Dir \/ (p = Root /\ Children(s, p) = {})
    THEN Answer(s, "NOT_FOUND")
    ELSE [s EXCEPT !.st = "OK",
                   !.got = FlattenSeq([i \in 1..Cardinality(Children(s, p)) |->
                       <<Word(Last(SetToSeq(Children(s, p))[i])), NL>>])]

stat_node(s, p) ==
    IF Exists(s, p) THEN Answer(s, "OK") ELSE Answer(s, "NOT_FOUND")

FreeDescriptors(s) == {fd \in 1..MaxOpen : s.open[fd] = Closed}

TakeDescriptor(s, p, flags) ==
    IF FreeDescriptors(s) = {} THEN Answer(s, "NO_MEMORY")
    ELSE LET fd == CHOOSE f \in FreeDescriptors(s) :
                       \A g \in FreeDescriptors(s) : f <= g
         IN [s EXCEPT !.open[fd] = [path |-> p, cursor |-> 0, flags |-> flags],
                      !.fd = fd, !.st = "OK"]

\* Creating and truncating are two writes, and both come before the search for
\* a free descriptor.
mutable_fs_open(s, p, flags) ==
    IF \/ p \notin Paths
       \/ At(s, p) = Dir
       \/ /\ ~Exists(s, p)
          /\ ~({"create", "write"} \subseteq flags /\ parent_exists_for(s, p))
    THEN Answer(s, "INVALID")
    ELSE LET Emptied(created) ==
                 IF created.st = "OK" /\ "truncate" \in flags
                 THEN write_file(created, p, << >>) ELSE created
             Ready(file) == IF file.st # "OK" THEN Answer(file, "IO")
                            ELSE TakeDescriptor(file, p, flags)
         IN Ready(Emptied(IF Exists(s, p) THEN Answer(s, "OK")
                          ELSE write_file(s, p, << >>)))

handle_for_fd(s, fd) == IF fd \in 1..MaxOpen THEN s.open[fd] ELSE Closed

\* Every read fetches the whole file by its path again.
mutable_fs_read_fd(s, fd, size) ==
    LET From(file, cursor) ==
            IF file.st # "OK" THEN Answer(s, "IO")
            ELSE IF cursor >= Len(file.got)
            THEN [s EXCEPT !.st = "OK", !.got = << >>]
            ELSE LET last == Min({cursor + size, Len(file.got)})
                 IN [s EXCEPT !.st = "OK", !.open[fd].cursor = last,
                              !.got = SubSeq(file.got, cursor + 1, last)]
        Through(handle) ==
            IF size = 0 \/ "read" \notin handle.flags THEN Answer(s, "INVALID")
            ELSE From(read_file(s, handle.path), handle.cursor)
    IN Through(handle_for_fd(s, fd))

\* The content after data is laid over it at the cursor; a gap before
\* the cursor reads as zeros.
Overlay(content, cursor, data) ==
    [i \in 1..Max({Len(content), cursor + Len(data)}) |->
        IF i > cursor /\ i <= cursor + Len(data) THEN data[i - cursor]
        ELSE IF i <= Len(content) THEN content[i] ELSE Zero]

\* A file that was deleted while it was open is created again.
mutable_fs_write_fd(s, fd, data) ==
    LET Stored(file) == IF file.st # "OK" THEN Answer(file, "IO")
                        ELSE [file EXCEPT !.open[fd].cursor = @ + Len(data)]
        Over(old, handle) ==
            IF old.st # "OK" THEN Answer(s, "IO")
            ELSE Stored(write_file(s, handle.path,
                                   Overlay(old.got, handle.cursor, data)))
        Through(handle) ==
            IF \/ data = << >> \/ "write" \notin handle.flags
               \/ handle.cursor + Len(data) > s.max
            THEN Answer(s, "INVALID")
            ELSE Over(IF Exists(s, handle.path) THEN read_file(s, handle.path)
                      ELSE [s EXCEPT !.got = << >>, !.st = "OK"], handle)
    IN Through(handle_for_fd(s, fd))

mutable_fs_close(s, fd) ==
    IF handle_for_fd(s, fd) = Closed THEN Answer(s, "INVALID")
    ELSE Answer([s EXCEPT !.open[fd] = Closed], "OK")

NoFiles ==
    [tree |-> [p \in Paths \ {Root} |-> Absent],
     open |-> [fd \in 1..MaxOpen |-> Closed],
     fail |-> 0, max |-> 0, st |-> "OK", fd |-> 0, got |-> << >>]
============================================================================
