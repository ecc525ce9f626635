---------------------------- MODULE RemoteShell ----------------------------
(***************************************************************************)
(* The command shell behind remote login (remote_login.c).                 *)
(*                                                                         *)
(* A command line runs to its end in one call, so a command is one step;   *)
(* inside the step the calls on the file system happen in the order of the *)
(* code, each may fail, and what the earlier ones did stays.  All sessions *)
(* share one working directory.                                            *)
(*                                                                         *)
(* A handler is an operator from the record s of FileApi, with the working *)
(* directory cwd and the output out added, to the record it leaves.  An    *)
(* argument is a path as it is typed: absolute or not, and its segments.   *)
(***************************************************************************)
EXTENDS FileApi

CONSTANTS
    Menus,        \* what a behaviour draws on: the commands users type, the
                  \* targets of redirections, the paths of SFTP requests, the
                  \* largest file.  A command is
                  \* [cmd, a, b, w, m]: a and b paths ([abs, segs]), w words,
                  \* m a mode
    Hidden,       \* names that begin with a dot
    Chunk,        \* tokens that cp and cat move at a time
    MaxRefusals   \* at which write of a command the disk may refuse, at most

VARIABLES fs, cwd, menu

Magic == Word("magic")
Header(kind, name, size) == [kind |-> kind, name |-> name, size |-> size]

Fail(s) == [Answer(s, "FAIL") EXCEPT !.out = << >>]
Out(s, text) == [Answer(s, "OK") EXCEPT !.out = text]
Done(s) == Out(s, << >>)

\* The answer of a handler whose last call answered s: the output is empty.
Finish(s) == IF s.st = "OK" THEN Done(s) ELSE Fail(s)

Then(s, Step(_)) == IF s.st = "OK" THEN Step(s) ELSE s

\* Segments are taken one by one; ".." at the root stays there.
remote_path_resolve(base, arg) ==
    FoldLeft(LAMBDA p, seg : CASE seg = "." -> p
                               [] seg = ".." -> IF p = Root THEN p ELSE Front(p)
                               [] OTHER -> Append(p, seg),
             IF arg.abs THEN Root ELSE base, arg.segs)

Resolve(s, arg) == remote_path_resolve(s.cwd, arg)

remote_ensure_parent(s, p) ==
    p = Root \/ (Front(p) \in Paths /\ At(s, Front(p)) = Dir)

\* Closing keeps the status of what was done through the descriptor.
CloseAfter(s, fd) == Answer(mutable_fs_close(s, fd), s.st)

WriteFlags == {"write", "create", "truncate"}

write_buffer_to_path(s, p, data) ==
    Then(mutable_fs_open(s, p, WriteFlags),
         LAMBDA o : CloseAfter(IF data = << >> THEN o
                               ELSE mutable_fs_write_fd(o, o.fd, data), o.fd))

\* The lines of a file: what stands between its newlines.
Lines(data) ==
    FoldLeft(LAMBDA acc, t : IF t = NL THEN Append(acc, << >>)
                             ELSE Append(Front(acc), Append(Last(acc), t)),
             << << >> >>, data)

Text(lines) == FlattenSeq([i \in DOMAIN lines |-> Append(lines[i], NL)])

Fetch(s, arg) == read_file(s, Resolve(s, arg))

handle_pwd(s) == Out(s, [i \in DOMAIN s.cwd |-> Word(s.cwd[i])] \o <<NL>>)

handle_cd(s, arg) ==
    LET p == Resolve(s, arg)
    IN IF p \in Paths /\ At(s, p) = Dir
       THEN handle_pwd([s EXCEPT !.cwd = p]) ELSE Fail(s)

handle_ls(s, arg) ==
    LET listing == list_dir(s, Resolve(s, arg))
        shown == SelectSeq(Lines(listing.got),
                     LAMBDA l : l # << >> /\ l[1].word \notin Hidden)
    IN IF listing.st # "OK" THEN Fail(s) ELSE Out(s, Text(shown))

handle_stat(s, arg) ==
    IF stat_node(s, Resolve(s, arg)).st = "OK"
    THEN Out(s, <<Word(At(s, Resolve(s, arg)).kind), NL>>) ELSE Fail(s)

handle_mkdir(s, arg) ==
    LET p == Resolve(s, arg)
    IN IF remote_ensure_parent(s, p) THEN Finish(create_dir(s, p)) ELSE Fail(s)

\* touch empties a file that exists.
handle_touch(s, arg) ==
    LET p == Resolve(s, arg)
    IN IF remote_ensure_parent(s, p)
       THEN Finish(write_buffer_to_path(s, p, << >>)) ELSE Fail(s)

handle_write(s, arg, payload) ==
    LET p == Resolve(s, arg)
    IN IF remote_ensure_parent(s, p)
       THEN Finish(write_buffer_to_path(s, p, payload)) ELSE Fail(s)

RECURSIVE ReadToEnd(_, _)
ReadToEnd(s, fd) ==
    LET Onward(r) == IF r.st # "OK" \/ r.got = << >> THEN r
                     ELSE ReadToEnd([r EXCEPT !.out = @ \o r.got], fd)
    IN Onward(mutable_fs_read_fd(s, fd, Chunk))

handle_cat(s, arg) ==
    LET Shown(r) == IF r.st # "OK" THEN Fail(r) ELSE r
        From(o) == IF o.st # "OK" THEN Fail(s)
                   ELSE Shown(CloseAfter(ReadToEnd(o, o.fd), o.fd))
    IN From(mutable_fs_open(Done(s), Resolve(s, arg), {"read"}))

RECURSIVE CopyLoop(_, _, _)
CopyLoop(s, src, dst) ==
    LET Onward(r) == IF r.st # "OK" \/ r.got = << >> THEN r
                     ELSE Then(mutable_fs_write_fd(r, dst, r.got),
                               LAMBDA w : CopyLoop(w, src, dst))
    IN Onward(mutable_fs_read_fd(s, src, Chunk))

Copied(s, src, dst) ==
    Finish(CloseAfter(CloseAfter(CopyLoop(s, src, dst), src), dst))

\* Mutant: the source stays open when the destination cannot be opened.
handle_cp_Leaks(s, from, to) ==
    LET dst == Resolve(s, to)
        Into(src, out) == IF out.st # "OK" THEN Fail(out)
                          ELSE Copied(out, src, out.fd)
        From(in) == IF in.st # "OK" THEN Fail(s)
                    ELSE Into(in.fd, mutable_fs_open(in, dst, WriteFlags))
    IN IF ~remote_ensure_parent(s, dst) THEN Fail(s)
       ELSE From(mutable_fs_open(s, Resolve(s, from), {"read"}))

\* The destination is emptied before the source is read.
handle_cp(s, from, to) ==
    LET dst == Resolve(s, to)
        Into(src, out) == IF out.st # "OK" THEN Fail(CloseAfter(out, src))
                          ELSE Copied(out, src, out.fd)
        From(in) == IF in.st # "OK" THEN Fail(s)
                    ELSE Into(in.fd, mutable_fs_open(in, dst, WriteFlags))
    IN IF ~remote_ensure_parent(s, dst) THEN Fail(s)
       ELSE From(mutable_fs_open(s, Resolve(s, from), {"read"}))

handle_mv(s, from, to) ==
    LET dst == Resolve(s, to)
    IN IF remote_ensure_parent(s, dst)
       THEN Finish(rename_node(s, Resolve(s, from), dst)) ELSE Fail(s)

handle_rm(s, arg, kind) ==
    LET p == Resolve(s, arg)
    IN IF p \in Paths /\ At(s, p).kind = kind
       THEN Finish(delete_node(s, p)) ELSE Fail(s)

handle_grep(s, arg, word) ==
    LET file == Fetch(s, arg)
    IN IF file.st # "OK" THEN Fail(s)
       ELSE Out(s, Text(SelectSeq(Lines(file.got), LAMBDA l : Contains(l, word))))

\* Positions right after a newline.
Breaks(data) == {i \in DOMAIN data : data[i] = NL}

handle_head(s, arg, n) ==
    LET file == Fetch(s, arg)
        stop == {i \in Breaks(file.got) : Cardinality(Breaks(file.got) \cap (1..i)) = n}
    IN IF file.st # "OK" THEN Fail(s)
       ELSE Out(s, IF stop = {} THEN file.got
                   ELSE SubSeq(file.got, 1, CHOOSE i \in stop : TRUE))

\* The newline that ends the file counts as one of the n.
handle_tail(s, arg, n) ==
    LET file == Fetch(s, arg)
        start == {i \in Breaks(file.got) :
                     Cardinality({j \in Breaks(file.got) : j >= i}) = n}
    IN IF file.st # "OK" THEN Fail(s)
       ELSE Out(s, IF start = {} THEN file.got
                   ELSE SubSeq(file.got, (CHOOSE i \in start : TRUE) + 1,
                               Len(file.got)))

\* One word of a line for another: the first, or every one.
Substitute(line, old, new, global) ==
    [i \in DOMAIN line |->
        IF line[i] = old /\ (global \/ old \notin {line[j] : j \in 1..(i - 1)})
        THEN new ELSE line[i]]

\* sed writes the file back, with a newline after every line, the last too.
handle_sed(s, arg, old, new, global) ==
    LET file == Fetch(s, arg)
        lines == Lines(file.got)
        text == Text([i \in DOMAIN lines |->
                         Substitute(lines[i], old, new, global)])
        kept == SubSeq(text, 1, Min({Len(text), s.max}))
        written == write_file(s, Resolve(s, arg), kept)
    IN IF file.st # "OK" THEN Fail(s)
       ELSE IF written.st # "OK" THEN Fail(written) ELSE Out(written, kept)

Below(s, p) ==
    {q \in Paths \ {Root} : s.tree[q] # Absent /\ p # q /\ IsPrefix(p, q)}

handle_find(s, arg, names) ==
    LET p == Resolve(s, arg)
        found == SetToSeq({q \in Below(s, p) \cup ({p} \ {Root}) :
                               Last(q) \in names})
    IN IF list_dir(s, p).st # "OK" THEN Fail(s)
       ELSE Out(s, FlattenSeq([i \in DOMAIN found |-> <<Word(Last(found[i])), NL>>]))
(***************************************************************************)
(* Archives.  tar and cpio share one format: a magic word, then for every  *)
(* entry a line with its kind, name and size, its data, and a newline.     *)
(***************************************************************************)
\* Mutant: the size of an entry counts the newline after its data.
archive_append_entry_Longer(kind, name, data) ==
    <<Header(kind, name, Len(data) + 1), NL>> \o data \o <<NL>>

archive_append_entry(kind, name, data) ==
    <<Header(kind, name, Len(data)), NL>> \o data \o <<NL>>

NotBuilt == [ok |-> FALSE, data |-> << >>]

\* A directory is followed by its children, depth first.
RECURSIVE archive_build_from_path(_, _, _)
archive_build_from_path(s, p, name) ==
    IF ~Exists(s, p) THEN NotBuilt
    ELSE IF At(s, p).kind = "file"
    THEN [ok |-> TRUE, data |-> archive_append_entry("F", name, s.tree[p].data)]
    ELSE FoldLeft(LAMBDA acc, q :
                     LET sub == archive_build_from_path(s, q, Append(name, Last(q)))
                     IN [ok |-> acc.ok /\ sub.ok, data |-> acc.data \o sub.data],
                  [ok |-> TRUE, data |-> archive_append_entry("D", name, << >>)],
                  SetToSeq(Children(s, p)))

\* The archive of some sources; each goes under its own last name.
Archive(s, sources) ==
    LET parts == [i \in DOMAIN sources |->
                     IF sources[i] = Root THEN NotBuilt
                     ELSE archive_build_from_path(s, sources[i], <<Last(sources[i])>>)]
        all == <<Magic, NL>> \o FlattenSeq([i \in DOMAIN parts |-> parts[i].data])
    IN [ok |-> (\A i \in DOMAIN parts : parts[i].ok) /\ Len(all) <= s.max,
        data |-> all]

\* What follows the entry that begins data: its header and its data, or that
\* the text is no entry.
archive_parse_entry(data) ==
    LET header == data[1]
        size == IF header.kind = "F" THEN header.size ELSE 0
    IN IF \/ Len(data) < 2 \/ data[2] # NL
          \/ "kind" \notin DOMAIN header
          \/ Len(data) < 2 + size
       THEN [ok |-> FALSE]
       ELSE [ok |-> TRUE, kind |-> header.kind, name |-> header.name,
             data |-> SubSeq(data, 3, 2 + size),
             rest |-> SubSeq(data, 3 + size, Len(data))]

\* path_join; what it joins must be short enough for a path.
Place(base, entry) == base \o entry.name

\* Entries are made one by one; the first that fails ends the extraction and
\* leaves what the ones before it made.
RECURSIVE ExtractEntries(_, _, _)
ExtractEntries(s, base, data) ==
    IF data = << >> THEN Answer(s, "OK")
    ELSE IF data[1] \in {NL, Zero} THEN ExtractEntries(s, base, Tail(data))
    ELSE LET entry == archive_parse_entry(data)
             p == Place(base, entry)
         IN IF ~entry.ok THEN Answer(s, "INVALID")
            ELSE IF p \notin Paths THEN Answer(s, "NO_MEMORY")
            ELSE IF ~remote_ensure_parent(s, p) THEN Answer(s, "INVALID")
            ELSE Then(IF entry.kind = "D" THEN create_dir(s, p)
                      ELSE write_buffer_to_path(s, p, entry.data),
                      LAMBDA r : ExtractEntries(r, base, entry.rest))

archive_extract_to(s, p, base) ==
    LET file == read_file(s, p)
    IN IF file.st # "OK" \/ Len(file.got) < 2 \/ file.got[1] # Magic
       THEN Answer(s, "INVALID")
       ELSE ExtractEntries(s, base, Tail(file.got))

RECURSIVE archive_list(_)
archive_list(data) ==
    IF data = << >> THEN [ok |-> TRUE, names |-> << >>]
    ELSE IF data[1] \in {NL, Zero} THEN archive_list(Tail(data))
    ELSE LET entry == archive_parse_entry(data)
             more == archive_list(entry.rest)
         IN IF ~entry.ok THEN [ok |-> FALSE, names |-> << >>]
            ELSE [ok |-> more.ok,
                  names |-> <<Word(Last(entry.name)), NL>> \o more.names]

\* Sources are archived in memory before the archive is opened.
tar_create(s, archive, sources) ==
    LET made == Archive(s, [i \in DOMAIN sources |-> Resolve(s, sources[i])])
    IN IF ~made.ok THEN Fail(s)
       ELSE Finish(write_buffer_to_path(s, Resolve(s, archive), made.data))

tar_list(s, archive) ==
    LET file == Fetch(s, archive)
        listing == archive_list(Tail(file.got))
    IN IF file.st # "OK" \/ Len(file.got) < 2 \/ file.got[1] # Magic THEN Fail(s)
       ELSE IF listing.ok THEN Out(s, listing.names) ELSE Fail(s)

handle_tar(s, c) ==
    CASE c.m = "-cf" -> tar_create(s, c.a, <<c.b>>)
      [] c.m = "-xf" ->
         Finish(archive_extract_to(s, Resolve(s, c.a), Resolve(s, c.b)))
      [] c.m = "-tf" -> tar_list(s, c.a)

handle_cpio(s, c) ==
    CASE c.m = "-o" -> tar_create(s, c.a, <<c.b>>)
      [] c.m = "-i" -> Finish(archive_extract_to(s, Resolve(s, c.a), s.cwd))

(***************************************************************************)
(* Command lines.                                                          *)
(***************************************************************************)
parse_and_execute(s, c) ==
    CASE c.cmd = "pwd" -> handle_pwd(s)
      [] c.cmd = "cd" -> handle_cd(s, c.a)
      [] c.cmd = "ls" -> handle_ls(s, c.a)
      [] c.cmd = "cp" -> handle_cp(s, c.a, c.b)
      [] c.cmd = "grep" -> handle_grep(s, c.a, c.w[1])
      [] c.cmd = "find" -> handle_find(s, c.a, {t.word : t \in Range(c.w)})
      [] c.cmd = "head" -> handle_head(s, c.a, Len(c.w))
      [] c.cmd = "tail" -> handle_tail(s, c.a, Len(c.w))
      [] c.cmd = "echo" -> Out(s, c.w \o <<NL>>)
      [] c.cmd = "cpio" -> handle_cpio(s, c)
      [] c.cmd = "tar" -> handle_tar(s, c)
      [] c.cmd = "mkdir" -> handle_mkdir(s, c.a)
      [] c.cmd = "touch" -> handle_touch(s, c.a)
      [] c.cmd = "cat" -> handle_cat(s, c.a)
      [] c.cmd = "mv" -> handle_mv(s, c.a, c.b)
      [] c.cmd = "rm" -> handle_rm(s, c.a, "file")
      [] c.cmd = "rmdir" -> handle_rm(s, c.a, "dir")
      [] c.cmd = "stat" -> handle_stat(s, c.a)
      [] c.cmd = "write" -> handle_write(s, c.a, c.w)
      [] c.cmd = "sed" -> handle_sed(s, c.a, c.w[1], c.w[2], c.m = "g")
      [] c.cmd \in {"help", "status", "sysinfo"} -> Out(s, <<Word(c.cmd), NL>>)
      [] c.cmd \in {"exit", "quit", "logout"} -> Done(s)
      [] OTHER -> Fail(s)

StageFile == [abs |-> TRUE, segs |-> <<"tmp", "stage">>]

\* The output of a command goes to a file, or through a file to the next one.
Redirected(left, to) ==
    LET p == Resolve(left, to)
    IN IF remote_ensure_parent(left, p)
       THEN Finish(write_file(left, p, left.out)) ELSE Fail(left)

Staged(left) == Then(write_file(left, Resolve(left, StageFile), left.out), Done)

Piped(staged, command) ==
    IF staged.st # "OK" THEN Fail(staged)
    ELSE parse_and_execute(staged, [command EXCEPT !.a = StageFile])

\* A redirection is looked for before a pipe, and neither side is split again.
parse_and_execute_pipeline(s, line) ==
    LET Onward(left) == CASE line.op = "none" -> left
                          [] line.op = ">" -> Redirected(left, line.to)
                          [] line.op = "|" -> Piped(Staged(left), line.right)
    IN Then(parse_and_execute(s, line.left), Onward)

\* One command, a command into a file, or a command into one that reads its
\* last operand.
Filters == {c \in menu.commands : c.cmd \in {"grep", "head", "tail", "sed", "cat"}}
Sources == {c \in menu.commands : c.cmd \in {"echo", "cat", "ls", "pwd"}}
CommandLines ==
    [op : {"none"}, left : menu.commands]
    \cup [op : {">"}, left : Sources, to : menu.targets]
    \cup [op : {"|"}, left : Sources, right : Filters]

Shell(refusal) ==
    [tree |-> fs.tree, open |-> fs.open, fail |-> refusal, max |-> menu.size,
     st |-> "OK", fd |-> 0, got |-> << >>, cwd |-> cwd, out |-> << >>]

\* A user other than admin, and a line with credentials in it, are turned away
\* before anything runs.
remote_login_execute(line, admitted) ==
    LET Leaves(s) == /\ fs' = [tree |-> s.tree, open |-> s.open]
                     /\ cwd' = s.cwd
                     /\ UNCHANGED menu
    IN \E refusal \in 0..MaxRefusals :
          Leaves(IF admitted THEN parse_and_execute_pipeline(Shell(refusal), line)
                 ELSE Fail(Shell(0)))

ShellInit ==
    /\ fs = [tree |-> NoFiles.tree, open |-> NoFiles.open]
    /\ cwd = Root
    /\ menu \in Menus

ShellNext ==
    \E line \in CommandLines, admitted \in BOOLEAN :
        remote_login_execute(line, admitted)
(***************************************************************************)
(* What the shell promises, in every state it can be in.                   *)
(***************************************************************************)
\* Where the entry q of an archive of p comes to lie below the root.
Moved(p, q) == SubSeq(q, Len(p), Len(q))

Archived(p) == {p} \cup Below(fs, p)

\* Extracted from the state s, the archive gives back the entries of p, if it
\* answers OK.
GivesBack(p, made, s) ==
    LET r == ExtractEntries(s, Root, Tail(made.data))
    IN r.st = "OK" => \A q \in Archived(p) : r.tree[Moved(p, q)] = fs.tree[q]

\* made is the archive of p, if p can be archived.
Restores(p, made) ==
    LET Empty(n) == [Shell(n) EXCEPT !.tree = NoFiles.tree, !.open = NoFiles.open]
    IN (made.ok /\ \A q \in Archived(p) : Moved(p, q) \in Paths) =>
       /\ ExtractEntries(Empty(0), Root, Tail(made.data)).st = "OK"
       /\ \A n \in 0 .. MaxRefusals : /\ GivesBack(p, made, Empty(n))
                                      /\ GivesBack(p, made, Shell(n))

\* A directory or file that can be archived at all is restored from its
\* archive: an extraction that answers OK, into an empty tree or over the files
\* that are there, with any of its writes refused, has given back the same
\* entries with the same contents, at the same places below the new base; and
\* into an empty tree with no write refused it answers OK (where those places
\* have valid paths).
ArchiveRestores ==
    \A p \in {q \in Paths \ {Root} : fs.tree[q] # Absent} :
        Restores(p, Archive(Shell(0), <<p>>))

\* A copy that reports success leaves the destination with the content of the
\* source and touches no other file; source and destination are two files.
CopyIsFaithful ==
    \A c \in {d \in menu.commands : d.cmd = "cp"}, refusal \in 0..MaxRefusals :
        LET s == Shell(refusal)
            from == Resolve(s, c.a)
            to == Resolve(s, c.b)
            r == handle_cp(s, c.a, c.b)
        IN (r.st = "OK" /\ from # to) =>
           r.tree = [fs.tree EXCEPT ![to] = fs.tree[from]]

\* Neither way of copying loses anything.
FilesFaithful == ArchiveRestores /\ CopyIsFaithful
============================================================================
