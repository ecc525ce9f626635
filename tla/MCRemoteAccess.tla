--------------------------- MODULE MCRemoteAccess ---------------------------
(***************************************************************************)
(* What a remote user reaches: the SSH server, the shell it runs commands  *)
(* with, the SFTP server, and the files below both.                        *)
(*                                                                         *)
(* A behaviour follows either the connections or the files in full.  Where *)
(* it follows the connections, a command of a channel runs in the turn     *)
(* that read it; where it follows the files, commands and SFTP messages    *)
(* come one after the other, as turns of the one server loop and messages  *)
(* of a session do.  The shell is also called by local programs, with no   *)
(* connection at all.                                                      *)
(*                                                                         *)
(* The instance for TLC: a directory that can hold a file, one file at the *)
(* root, and /tmp; one more slice in which two connections from two        *)
(* addresses meet, and one in which two from one address serve channels.   *)
(***************************************************************************)
EXTENDS SftpServer, Sshd

vars == <<fileVars, sshVars>>

Init == FilesInit /\ SshInit

\* Clients of several addresses, who open no channel and never fall idle, or
\* clients of one address who do all there is.
InSlice ==
    /\ \A c \in Live : conns[c].addr \in menu.ssh /\ (conns[c].idle => menu.serve)
    /\ \A k \in Channels : channels[k].active => menu.serve

CommandTurn ==
    \E c \in Conns, id \in RemoteIds :
        /\ RunsCommand(c, id)
        /\ ShellNext /\ UNCHANGED sftp

Next ==
    \/ /\ menu.ssh = {} /\ UNCHANGED sshVars
       /\ \/ ShellNext /\ UNCHANGED sftp
          \/ sftp_handle_message
    \/ /\ menu.ssh # {}
       /\ \/ SshQuiet /\ UNCHANGED fileVars
          \/ CommandTurn
       /\ InSlice'

\* The loop comes round to every connection between two sessions, so a timeout
\* that stays due is seen unless one session lasts for ever; nothing makes a
\* session end.  The clock never stops.
Fairness ==
    \A c \in Conns :
        /\ SF_vars(menu.ssh # {} /\ Timeout(c) /\ UNCHANGED fileVars)
        /\ WF_vars(menu.ssh # {} /\ Ages(c) /\ UNCHANGED fileVars)

Spec == Init /\ [][Next]_vars /\ Fairness
-----------------------------------------------------------------------------
MCPaths == {Root, <<"a">>, <<"d">>, <<"d", "a">>, <<"t">>,
            <<"tmp">>, <<"tmp", "stage">>}

Rel(p) == [abs |-> FALSE, segs |-> p]
Abs(p) == [abs |-> TRUE, segs |-> p]
X == Word("x")
Y == Word("y")

Cmd(c, a, b, w, m) == [cmd |-> c, a |-> a, b |-> b, w |-> w, m |-> m]
One(c, a) == Cmd(c, a, a, << >>, "")

Menu(commands, targets, paths, size) ==
    [commands |-> commands, targets |-> targets, sftp |-> paths, size |-> size,
     ssh |-> {}, serve |-> FALSE]

A == Rel(<<"a">>)
D == Abs(<<"d">>)
DA == Abs(<<"d", "a">>)
T == Abs(<<"t">>)
Tmp == Abs(<<"tmp">>)
Up == Rel(<<"..">>)

\* Directories come, go and are renamed under the working directory.
Tree == {One(c, Rel(Root)) : c \in {"pwd", "ls", "exit", "help", "nonsense"}}
        \cup {One(c, D) : c \in {"cd", "mkdir", "rmdir", "stat"}}
        \cup {One(c, A) : c \in {"touch", "rm"}}
        \cup {One("cd", Up), Cmd("mv", A, Abs(<<"t">>), << >>, ""),
              Cmd("mv", D, Tmp, << >>, ""),
              Cmd("find", D, D, <<Word("a")>>, "")}

\* One file is written, read through filters, edited and redirected into.
Edit == {Cmd("write", A, A, <<X>>, ""), Cmd("echo", A, A, <<X>>, ""),
         One("cat", A), One("mkdir", Tmp), Cmd("grep", A, A, <<X>>, ""),
         Cmd("head", A, A, <<X>>, ""), Cmd("tail", A, A, <<X>>, ""),
         Cmd("sed", A, A, <<X, Y>>, "g"), Cmd("sed", A, A, <<Y, X>>, "")}

\* A directory is archived, lost and extracted, with too little room at times.
Archives == {One("mkdir", D), Cmd("write", DA, DA, <<X>>, ""), One("rm", DA),
             One("rmdir", D), One("cd", D), One("cd", Up),
             Cmd("tar", T, D, << >>, "-cf"), Cmd("tar", T, Up, << >>, "-xf"),
             Cmd("tar", T, D, << >>, "-tf"), Cmd("cpio", T, DA, << >>, "-o"),
             Cmd("cpio", T, D, << >>, "-i"), Cmd("mv", DA, A, << >>, "")}

\* Copies race SFTP clients for descriptors.
Copies == {One("mkdir", D), Cmd("write", A, A, <<X, NL>>, ""),
           Cmd("cp", A, DA, << >>, ""), Cmd("cp", DA, A, << >>, ""),
           One("touch", A), One("rm", A)}

MCMenus == {Menu(Tree, {}, {}, 1), Menu(Edit, {A}, {}, 4),
            Menu(Archives, {}, {}, 13),
            Menu(Copies, {}, {<<"a">>, <<"d", "a">>}, 2),
            [Menu({One("pwd", Rel(Root))}, {}, {}, 0) EXCEPT !.ssh = Addrs],
            [Menu({One("pwd", Rel(Root))}, {}, {}, 0) EXCEPT
                !.ssh = {CHOOSE a \in Addrs : TRUE}, !.serve = TRUE]}

MCSftpFlags == {{"read"}, {"read", "write", "create"}}
MCSftpData == {<<Y>>}
=============================================================================
