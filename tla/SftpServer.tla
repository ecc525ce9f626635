----------------------------- MODULE SftpServer -----------------------------
(***************************************************************************)
(* The SFTP server (sftp_server.c) beside the shell: requests that open,   *)
(* read, write and close files through handles, and that name files        *)
(* directly.  The handles are one table for all sessions and are not       *)
(* returned when a session ends.                                           *)
(***************************************************************************)
EXTENDS RemoteShell

CONSTANTS
    SftpHandles,   \* the slots of the table (SFTP_MAX_HANDLES)
    SftpFlags,     \* sets of open flags a client sends
    SftpData,      \* what a client writes
    Offsets        \* offsets a client reads and writes at

VARIABLE sftp

fileVars == <<fs, cwd, menu, sftp>>

NoFd == 0
FreeHandle == [path |-> Root, fd |-> NoFd, open |-> FALSE]

Reply(s) == fs' = [tree |-> s.tree, open |-> s.open]

\* Requests that name a file and leave the table alone.
OnPath(s) == Reply(s) /\ UNCHANGED <<cwd, menu, sftp>>

Files == Shell(0)

alloc_handle(path, fd) ==
    \E h \in SftpHandles :
        /\ ~sftp[h].open
        /\ sftp' = [sftp EXCEPT ![h] = [path |-> path, fd |-> fd, open |-> TRUE]]

NoHandleLeft == \A h \in SftpHandles : sftp[h].open

\* A file that cannot be created is opened for reading, and the client gets a
\* handle even when no file could be opened.
sftp_open(path, flags) ==
    LET Opened(asked) == IF asked.st = "OK" \/ "create" \notin flags THEN asked
                         ELSE mutable_fs_open(asked, path, {"read"})
        Given(s) == /\ Reply(s)
                    /\ alloc_handle(path, IF s.st = "OK" THEN s.fd ELSE NoFd)
    IN /\ IF NoHandleLeft THEN UNCHANGED <<fs, sftp>>
          ELSE Given(Opened(mutable_fs_open(Files, path, flags)))
       /\ UNCHANGED <<cwd, menu>>

sftp_close(h) ==
    /\ sftp[h].open
    /\ Reply(IF sftp[h].fd = NoFd THEN Files
             ELSE mutable_fs_close(Files, sftp[h].fd))
    /\ sftp' = [sftp EXCEPT ![h] = FreeHandle]
    /\ UNCHANGED <<cwd, menu>>

\* The two halves of the offset are read in the wrong order, so an offset that
\* is not zero comes out beyond the end of every file.
Decoded(offset) == IF offset = 0 THEN 0 ELSE menu.size

\* Seeking is reading on from where the descriptor stands.
Seek(s, fd, offset) ==
    IF offset = 0 THEN s ELSE mutable_fs_read_fd(s, fd, offset)

ReadAt(s, h, offset, size) ==
    mutable_fs_read_fd(Seek(s, sftp[h].fd, Decoded(offset)), sftp[h].fd, size)

sftp_read(h, offset) ==
    /\ sftp[h].open /\ sftp[h].fd # NoFd
    /\ OnPath(ReadAt(Files, h, offset, menu.size))

sftp_write(h, offset, data) ==
    /\ sftp[h].open /\ sftp[h].fd # NoFd
    /\ OnPath(mutable_fs_write_fd(Seek(Files, sftp[h].fd, Decoded(offset)),
                                  sftp[h].fd, data))

sftp_opendir(path) ==
    /\ IF NoHandleLeft THEN UNCHANGED sftp ELSE alloc_handle(path, NoFd)
    /\ UNCHANGED <<fs, cwd, menu>>

sftp_mkdir(path) == OnPath(create_dir(Files, path))
sftp_remove(path) == OnPath(delete_node(Files, path))
sftp_rename(old, new) == OnPath(rename_node(Files, old, new))

sftp_handle_message ==
    \/ \E path \in menu.sftp, flags \in SftpFlags : sftp_open(path, flags)
    \/ \E path \in menu.sftp :
          sftp_opendir(path) \/ sftp_mkdir(path) \/ sftp_remove(path)
    \/ \E old, new \in menu.sftp : sftp_rename(old, new)
    \/ \E h \in SftpHandles :
          \/ sftp_close(h)
          \/ \E offset \in Offsets : sftp_read(h, offset)
          \/ \E offset \in Offsets, data \in SftpData : sftp_write(h, offset, data)

FilesInit ==
    /\ ShellInit
    /\ sftp = [h \in SftpHandles |-> FreeHandle]

\* Every open descriptor of the file system belongs to one SFTP handle that
\* names the same file: the shell closes what it opens on every path, error
\* paths included, and the server neither loses a descriptor nor shares one.
DescriptorsOwned ==
    \A fd \in 1..MaxOpen :
        LET owners == {h \in SftpHandles : sftp[h].open /\ sftp[h].fd = fd}
        IN IF fs.open[fd] = Closed THEN owners = {}
           ELSE \E h \in owners : /\ owners = {h}
                                  /\ sftp[h].path = fs.open[fd].path

=============================================================================
