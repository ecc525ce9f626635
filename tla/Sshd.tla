-------------------------------- MODULE Sshd --------------------------------
(***************************************************************************)
(* The SSH server (sshd.c, ssh_connection.c, ssh_channel.c): one loop that *)
(* accepts connections and gives each of them a turn.  A turn reads at     *)
(* most one message, so a step here is one turn of one connection, except  *)
(* the turn that starts an SFTP session: it lasts as long as the session,  *)
(* and nobody else has a turn meanwhile (`session`).  What the session     *)
(* does to files is in SftpServer.                                         *)
(*                                                                         *)
(* Messages stand for themselves: ciphers, packet layout and signatures    *)
(* are left out, a client's credentials are good or bad.  The clock is     *)
(* kept as what the timeouts compare: how old a connection is, how long it *)
(* has been idle, whether its keys are due for renewal, whether a ban has  *)
(* run out.  Channel windows are left out: output is sent once per channel *)
(* and is smaller than the window a channel starts with.  The keepalive    *)
(* message changes no state.                                               *)
(***************************************************************************)
EXTENDS Integers, FiniteSets

CONSTANTS
    Conns,          \* slots of the pool (SSH_MAX_CONNECTIONS)
    Channels,       \* slots of the table (SSH_CHANNEL_MAX)
    RemoteIds,      \* channel numbers clients choose
    Addrs,          \* addresses clients come from
    RateEntries,    \* SSHD_RATE_LIMIT_MAX_ENTRIES
    MaxFailures,    \* SSHD_RATE_LIMIT_MAX_FAILURES
    MaxAttempts,    \* SSHD_MAX_AUTH_ATTEMPTS
    NoAddr

ASSUME SshdAssumption ==
    /\ IsFiniteSet(Conns) /\ Channels \subseteq Nat \ {0}
    /\ RateEntries \in Nat /\ MaxFailures \in Nat /\ MaxFailures > 1

VARIABLES
    conns,      \* the pool
    active,     \* g_server_stats.active_connections
    limits,     \* address -> failures and ban
    failed,     \* history: address -> failures since its last success or ban
    channels,   \* g_channels
    session     \* the channel whose SFTP session has the loop, or NoSession

sshVars == <<conns, active, limits, failed, channels, session>>

NoSession == 0

FreeConn == [state |-> "free", addr |-> NoAddr, version |-> FALSE,
             attempts |-> 0, crypto |-> FALSE, proved |-> FALSE,
             age |-> "young", idle |-> FALSE, due |-> FALSE]

FreeChannel == [active |-> FALSE, remote |-> 0]

NoLimit == [known |-> FALSE, failures |-> 0, ban |-> "none"]

Handshake == {"INIT", "KEX", "KEX_SENT", "NEWKEYS", "AUTH"}

Live == {c \in Conns : conns[c].state # "free"}

Set(c, field, value) == [conns EXCEPT ![c][field] = value]

KeepTables == UNCHANGED <<active, limits, failed, channels, session>>

(***************************************************************************)
(* Accepting and closing.                                                  *)
(***************************************************************************)
\* A connection beyond the limit is closed at once and leaves no trace.
Accept ==
    /\ session = NoSession
    /\ \E a \in Addrs :
        IF active >= Cardinality(Conns) THEN UNCHANGED sshVars
        ELSE \E c \in Conns \ Live :
            /\ conns' = [conns EXCEPT ![c] = [FreeConn EXCEPT !.state = "INIT",
                                                              !.addr = a]]
            /\ active' = active + 1
            /\ UNCHANGED <<limits, failed, channels, session>>

\* The channels a connection opened stay open.
CloseConn(c) ==
    /\ conns' = [conns EXCEPT ![c] = FreeConn]
    /\ active' = active - 1
    /\ UNCHANGED <<limits, failed, session>>

Close(c) == CloseConn(c) /\ UNCHANGED channels

\* Mutant: nothing limits the time a client takes to authenticate.
TimedOut_NotAuth(c) ==
    /\ conns[c].state \in {"INIT", "KEX", "KEX_SENT", "NEWKEYS"}
    /\ conns[c].age # "young"

\* The loop closes a connection that is too old for the state it is in.
TimedOut(c) ==
    \/ /\ conns[c].state \in {"INIT", "KEX", "KEX_SENT", "NEWKEYS"}
       /\ conns[c].age # "young"
    \/ conns[c].state = "AUTH" /\ conns[c].age = "old"

Timeout(c) == session = NoSession /\ TimedOut(c) /\ Close(c)

\* What the loop hands to process_connection.
Turn(c) == session = NoSession /\ c \in Live /\ ~TimedOut(c)

Stay(c) == conns' = conns /\ KeepTables
Become(c, state) == conns' = Set(c, "state", state) /\ KeepTables

(***************************************************************************)
(* Key exchange.  A message that has not come yet ends the turn; so does   *)
(* one that cannot be decrypted.                                           *)
(***************************************************************************)
SendVersion(c) ==
    /\ Turn(c) /\ conns[c].state = "INIT"
    /\ \/ Become(c, "KEX")
       \/ Close(c)

ReceiveVersion(c) ==
    /\ Turn(c) /\ conns[c].state = "KEX"
    /\ \/ ~conns[c].version /\ Stay(c)
       \/ /\ conns' = [conns EXCEPT ![c].version = TRUE, ![c].state = "KEX_SENT"]
          /\ KeepTables
       \/ Close(c)

ReceiveKexInit(c) ==
    /\ Turn(c) /\ conns[c].state = "KEX_SENT"
    /\ Stay(c) \/ Become(c, "NEWKEYS") \/ Close(c)

\* The reply and NEWKEYS are sent in the turn of the client's key; when the
\* client's NEWKEYS is not there yet, the next turn waits for a key again.
ReceiveKey(c) ==
    /\ Turn(c) /\ conns[c].state = "NEWKEYS"
    /\ \/ Stay(c)
       \/ /\ conns' = [conns EXCEPT ![c].state = "AUTH", ![c].crypto = TRUE]
          /\ KeepTables
       \/ Close(c)

(***************************************************************************)
(* Authentication and its rate limit.                                      *)
(***************************************************************************)
\* A ban that has run out clears the entry.
Checked(a) ==
    IF limits[a].ban = "over"
    THEN [limits EXCEPT ![a].failures = 0, ![a].ban = "none"] ELSE limits

Banned(a) == limits[a].ban = "on"

Known == {a \in Addrs : limits[a].known}

\* Mutant: the ban starts only once the limit is exceeded.
record_auth_failure_Late(table, a) ==
    IF ~table[a].known
    THEN IF Cardinality(Known) < RateEntries
         THEN [table EXCEPT ![a] = [known |-> TRUE, failures |-> 1, ban |-> "none"]]
         ELSE table
    ELSE LET n == table[a].failures + 1
         IN [table EXCEPT ![a].failures = n,
                          ![a].ban = IF n > MaxFailures THEN "on" ELSE @]

\* The first failure of an address is written down only while there is room.
record_auth_failure(table, a) ==
    IF ~table[a].known
    THEN IF Cardinality(Known) < RateEntries
         THEN [table EXCEPT ![a] = [known |-> TRUE, failures |-> 1, ban |-> "none"]]
         ELSE table
    ELSE LET n == table[a].failures + 1
         IN [table EXCEPT ![a].failures = n,
                          ![a].ban = IF n >= MaxFailures THEN "on" ELSE @]

record_auth_success(table, a) ==
    IF table[a].known THEN [table EXCEPT ![a].failures = 0, ![a].ban = "none"]
    ELSE table

\* The failures of an address, counted whether the table has room or not; the
\* count stops one past the limit.
Tally(a) == IF limits[a].ban = "over" THEN [failed EXCEPT ![a] = 0] ELSE failed

Counted(tally, a) ==
    [tally EXCEPT ![a] = IF @ > MaxFailures THEN @ ELSE @ + 1]

RecordsFailure(a) ==
    /\ limits' = record_auth_failure(Checked(a), a)
    /\ failed' = Counted(Tally(a), a)

ClearsBan(a) == limits' = Checked(a) /\ failed' = Tally(a)

Asks(c) == Turn(c) /\ conns[c].state = "AUTH" /\ UNCHANGED <<active, channels, session>>

\* A service request, a malformed request or one of an unknown method.
AuthOther(c) ==
    /\ Asks(c) /\ conns' = conns
    /\ UNCHANGED <<limits, failed>> \/ ClearsBan(conns[c].addr)

AuthRejected(c) ==
    /\ Asks(c) /\ conns' = conns
    /\ \/ Banned(conns[c].addr) /\ UNCHANGED <<limits, failed>>
       \/ /\ ~Banned(conns[c].addr) /\ conns[c].attempts >= MaxAttempts
          /\ RecordsFailure(conns[c].addr)

Admitted(c) ==
    /\ Asks(c)
    /\ ~Banned(conns[c].addr) /\ conns[c].attempts < MaxAttempts

Succeeds(c) ==
    /\ conns' = [conns EXCEPT ![c].state = "AUTHENTICATED",
                              ![c].attempts = 0, ![c].proved = TRUE]
    /\ limits' = record_auth_success(Checked(conns[c].addr), conns[c].addr)
    /\ failed' = [failed EXCEPT ![conns[c].addr] = 0]

Fails(c) ==
    /\ conns' = [conns EXCEPT ![c].attempts = @ + 1]
    /\ RecordsFailure(conns[c].addr)

AuthPassword(c) == Admitted(c) /\ (Succeeds(c) \/ Fails(c))

\* A key that is not authorized, and the question whether one is, count as no
\* attempt; a signature does.
AuthPublicKey(c) ==
    /\ Admitted(c)
    /\ \/ conns' = conns /\ ClearsBan(conns[c].addr)
       \/ Succeeds(c)
       \/ Fails(c)

(***************************************************************************)
(* The connection protocol.                                                *)
(***************************************************************************)
Serving(c) == Turn(c) /\ conns[c].state \in {"AUTHENTICATED", "CHANNEL"}

\* Mutant: the connection goes straight back to its channels.
Rekey_KeepsUser(c) ==
    /\ Serving(c) /\ conns[c].due
    /\ conns' = [conns EXCEPT ![c].state = "AUTHENTICATED", ![c].crypto = FALSE,
                              ![c].due = FALSE, ![c].proved = FALSE]
    /\ KeepTables

\* Keys that are due are renewed by going back to the key exchange; the time
\* since the connection was accepted counts on.
Rekey(c) ==
    /\ Serving(c) /\ conns[c].due
    /\ \E age \in {conns[c].age, "old"} :
        conns' = [conns EXCEPT ![c].state = "KEX", ![c].crypto = FALSE,
                               ![c].due = FALSE, ![c].proved = FALSE,
                               ![c].age = age]
    /\ KeepTables

IdleTimeout(c) ==
    /\ Serving(c) /\ ~conns[c].due /\ conns[c].idle
    /\ Close(c)

\* The turn in which a message is read.
Reads(c) == Serving(c) /\ ~conns[c].due /\ ~conns[c].idle

Hears(c, s) ==
    /\ conns' = [conns EXCEPT ![c].state = "CHANNEL", ![c].idle = FALSE]
    /\ session' = s
    /\ UNCHANGED <<active, limits, failed>>

Heard(c) == Hears(c, session)

Nothing(c) == Reads(c) /\ Become(c, "CHANNEL")
Ignored(c) == Reads(c) /\ Heard(c) /\ UNCHANGED channels
Disconnect(c) == Reads(c) /\ Close(c)

\* find_channel_by_remote: the first slot, whichever connection opened it.
Found(id) == {k \in Channels : channels[k].active /\ channels[k].remote = id}

FirstFree(k) == ~channels[k].active /\ \A j \in Channels : ~channels[j].active => k <= j

\* A message too short to hold the number takes a slot all the same, and so
\* does one whose confirmation cannot be sent.
ChannelOpen(c, id) ==
    /\ Reads(c)
    /\ \/ (\A k \in Channels : channels[k].active) /\ Close(c)
       \/ \E k \in Channels :
            /\ FirstFree(k)
            /\ \/ /\ channels' = [channels EXCEPT ![k] = [active |-> TRUE, remote |-> id]]
                  /\ Heard(c) \/ CloseConn(c)
               \/ channels' = [channels EXCEPT ![k].active = TRUE] /\ CloseConn(c)

FirstFound(id) == CHOOSE k \in Found(id) : \A j \in Found(id) : k <= j

CloseChannel(c, id) ==
    /\ channels' = IF Found(id) = {} THEN channels
                   ELSE [channels EXCEPT ![FirstFound(id)].active = FALSE]
    /\ Heard(c)

ChannelClose(c, id) == Reads(c) /\ CloseChannel(c, id)

\* Data on a channel is a command line; it runs whether the channel is open or
\* not.  An exec request runs one command and closes its channel.
RunsCommand(c, id) ==
    \/ Reads(c) /\ (Heard(c) \/ CloseConn(c)) /\ UNCHANGED channels
    \/ Reads(c) /\ Found(id) # {} /\ CloseChannel(c, id)

\* The subsystem sftp is a session that keeps the loop.
ChannelRequest(c, id) ==
    /\ Reads(c)
    /\ UNCHANGED channels
    /\ \/ CloseConn(c)
       \/ Found(id) # {} /\ \E s \in {session, FirstFound(id)} : Hears(c, s)

\* The session reads message after message until one does not come or cannot be
\* answered; nothing else ends it, no timeout either.  Its channel is closed.
SessionEnds ==
    /\ session # NoSession
    /\ channels' = [channels EXCEPT ![session].active = FALSE]
    /\ session' = NoSession
    /\ UNCHANGED <<conns, active, limits, failed>>

(***************************************************************************)
(* The clock.                                                              *)
(***************************************************************************)

Older == [young |-> {"late"}, late |-> {"old"}, old |-> {}]

\* Age is read only during the handshake, and not once it has run out: Rekey
\* catches up on it.
Ages(c) ==
    /\ conns[c].state \in Handshake /\ ~TimedOut(c)
    /\ \E age \in Older[conns[c].age] : conns' = Set(c, "age", age)
    /\ KeepTables

TimePasses ==
    \/ \E c \in Live :
          /\ conns[c].state \in {"AUTHENTICATED", "CHANNEL"}
          /\ \/ conns' = Set(c, "idle", TRUE)
             \/ conns' = Set(c, "due", TRUE)
          /\ KeepTables
    \/ \E a \in Addrs :
          /\ limits[a].ban = "on"
          /\ limits' = [limits EXCEPT ![a].ban = "over"]
          /\ UNCHANGED <<conns, active, failed, channels, session>>

SshInit ==
    /\ conns = [c \in Conns |-> FreeConn]
    /\ active = 0
    /\ limits = [a \in Addrs |-> NoLimit]
    /\ failed = [a \in Addrs |-> 0]
    /\ channels = [k \in Channels |-> FreeChannel]
    /\ session = NoSession

\* Every turn that runs no command.
QuietTurn(c) ==
    \/ Timeout(c) \/ SendVersion(c) \/ ReceiveVersion(c)
    \/ ReceiveKexInit(c) \/ ReceiveKey(c)
    \/ AuthOther(c) \/ AuthRejected(c) \/ AuthPassword(c) \/ AuthPublicKey(c)
    \/ Rekey(c) \/ IdleTimeout(c) \/ Nothing(c) \/ Ignored(c) \/ Disconnect(c)
    \/ \E id \in RemoteIds :
          ChannelOpen(c, id) \/ ChannelClose(c, id) \/ ChannelRequest(c, id)

SshQuiet == Accept \/ TimePasses \/ SessionEnds \/ \E c \in Conns : QuietTurn(c) \/ Ages(c)

\* The server alone, whatever the commands it runs do.
SshNext == SshQuiet \/ \E c \in Conns, id \in RemoteIds : RunsCommand(c, id)

SshSpec == SshInit /\ [][SshNext]_sshVars

(***************************************************************************)
(* What the server promises.                                               *)
(***************************************************************************)
\* A connection serves channels only after its user proved who they are, and
\* proves it again once its keys were renewed.
ServesProvedUsers ==
    \A c \in Live : conns[c].state \in {"AUTHENTICATED", "CHANNEL"} =>
        conns[c].proved /\ conns[c].crypto

\* However its connections interleave, an address that failed MaxFailures times
\* since its last success or ban is banned, or that ban has just run out, and it
\* fails no more often (record_auth_failure, check_rate_limit) -- if the table
\* knows the address.  An address that first failed when the table was full is
\* never entered and fails without end, although PROJECT-TRACKER.md:200 says
\* "10 failures = 1hr ban".  The count of connections is the number of slots in
\* use, so a slot is there for every connection that the count admits.
AdmissionExact ==
    /\ active = Cardinality(Live)
    /\ \A a \in Addrs :
        \/ failed[a] < MaxFailures
        \/ failed[a] = MaxFailures /\ limits[a].ban # "none"
        \/ ~limits[a].known /\ Cardinality(Known) >= RateEntries

\* A client cannot hold a slot of the pool without authenticating: whatever it
\* sends or leaves out, it authenticates or is closed (sshd_run's checks of
\* connect_time).  What can keep it in its slot is another client's SFTP session
\* that never ends: the loop is in sftp_session_start and checks no timeouts.
HandshakeEnds ==
    []<>(session = NoSession) =>
        \A c \in Conns :
            (conns[c].state \in Handshake)
            ~> (conns[c].state \in {"free", "AUTHENTICATED", "CHANNEL"})
=============================================================================
