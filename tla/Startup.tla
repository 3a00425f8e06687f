------------------------------- MODULE Startup -------------------------------
(***************************************************************************)
(* main and StartDB: what the server makes of its options.  StartDB checks *)
(* the options, gives the pool its MySQLConnectionInfo and opens one       *)
(* connection after the other; all of them share that info.  When one      *)
(* fails the pool is opened again a number of times, or startup ends; a    *)
(* server that is too old ends it.  Then main checks the port and serves.  *)
(*                                                                         *)
(* "undefined" stands for undefined behaviour: the dereference of an empty *)
(* Optional, or a division by zero; nothing is modelled behind it.         *)
(***************************************************************************)
EXTENDS ConfigMgr

CONSTANTS Numerals,  \* the lexemes that are numbers: a function to integers
          UInt32Max, \* the largest uint32
          Versions,  \* the versions of database servers
          MaxConns,  \* bound on the connections configured
          MaxRetries \* bound on the retries of the loader

VARIABLES phase,   \* how far main is
          info,    \* *_connectionInfo of the pool
          threads, \* _async_threads and _synch_threads
          opened,  \* _connections of the pool: the target of each, by type
          made,    \* the connections made by this call of the pool's Open
          retries, \* the calls of the pool's Open before this one
          server   \* the version of the database server

mvars == <<phase, info, threads, opened, made, retries, server>>
vars == <<cvars, mvars>>

\* No MySQL server has had a component of two digits before its patch level.
ASSUME StartupAssumption ==
    /\ \A x \in DOMAIN Numerals : Numerals[x] \in Int
    /\ "#" \notin DOMAIN Numerals
    /\ {UInt32Max, MaxConns, MaxRetries} \subseteq Nat
    /\ Versions # {}
    /\ Versions \subseteq [mariadb : BOOLEAN, major : 1..99, minor : 0..99, patch : 0..99]
    /\ \A v \in Versions : ~v.mariadb => v.major < 10 /\ v.minor < 10

-----------------------------------------------------------------------------
(* Values.                                                                 *)

\* A plausible bug of FromString: a value out of range wraps around.
FromStringCut(str, lo, hi) ==
    IF ~(Len(str) = 1 /\ str[1] \in DOMAIN Numerals) THEN <<>>
    ELSE LET n == Numerals[str[1]] IN
         IF n > hi THEN <<lo + (n - hi - 1)>>
         ELSE IF n < lo THEN <<hi - (lo - n - 1)>> ELSE <<n>>

\* StringTo<T> for an integer type with values lo..hi: the number that the
\* whole text is, if it is one and T has it, as a sequence of at most one.
FromString(str, lo, hi) ==
    IF Len(str) = 1 /\ str[1] \in DOMAIN Numerals /\ Numerals[str[1]] \in lo..hi
    THEN <<Numerals[str[1]]>> ELSE <<>>

Int32Max == 2147483647
Int32Min == -Int32Max - 1
Ports == 0..65535

\* GetOption<T>: the default also stands in for a text that is not a T.
GetOption(name, lo, hi, def) ==
    IF <<name>> \notin DOMAIN options \/ FromString(options[<<name>>], lo, hi) = <<>>
    THEN def ELSE FromString(options[<<name>>], lo, hi)[1]

\* GetOption<std::string>.
GetText(name, def) == IF <<name>> \in DOMAIN options THEN options[<<name>>] ELSE def

\* A plausible bug of MySQLConnectionInfo: empty fields are not kept.
ConnectionInfoDense(infoString) ==
    LET tokens == Tokenize(infoString, ";", FALSE)
        Field(i) == IF Len(tokens) \in {5, 6} /\ i <= Len(tokens) THEN tokens[i] ELSE <<>>
    IN  [host |-> Field(1), port_or_socket |-> Field(2), user |-> Field(3),
         password |-> Field(4), database |-> Field(5), ssl |-> Field(6)]

ConnectionInfo(infoString) ==
    LET tokens == Tokenize(infoString, ";", TRUE)
        Field(i) == IF Len(tokens) \in {5, 6} /\ i <= Len(tokens) THEN tokens[i] ELSE <<>>
    IN  [host |-> Field(1), port_or_socket |-> Field(2), user |-> Field(3),
         password |-> Field(4), database |-> Field(5), ssl |-> Field(6)]

\* The characters of a version as the server reports it: codes of '0' and '.'.
Digits(n) == IF n < 10 THEN <<48 + n>> ELSE <<48 + (n \div 10), 48 + (n % 10)>>
Chars(v) == Digits(v.major) \o <<46>> \o Digits(v.minor) \o <<46>> \o Digits(v.patch)

MinVersion(v) == IF v.mariadb THEN [major |-> 10, minor |-> 5, patch |-> 0]
                              ELSE [major |-> 5, minor |-> 7, patch |-> 0]

\* A plausible bug of DatabaseIncompatibleVersion: MariaDB is held against the
\* minimum of MySQL.
IncompatibleVersionMySQL(v) ==
    LET a == Chars(v)
        b == Chars(MinVersion([v EXCEPT !.mariadb = FALSE]))
    IN  \E i \in {1, 3, 5} : a[i] < b[i] /\ \A j \in {1, 3, 5} : j < i => a[j] = b[j]

\* The first, third and fifth character of the two versions are compared.
\* The prefix of some MariaDB servers is skipped by its length, so it makes
\* no difference.
IncompatibleVersion(v) ==
    LET a == Chars(v)
        b == Chars(MinVersion(v))
    IN  \E i \in {1, 3, 5} : a[i] < b[i] /\ \A j \in {1, 3, 5} : j < i => a[j] = b[j]

-----------------------------------------------------------------------------
(* main.                                                                   *)

Kinds == {"async", "synch"}

\* A pool without connections.
NoneOpened == [k \in Kinds |-> <<>>]

MInit == /\ phase = "config"
         /\ info = ConnectionInfo(<<>>)
         /\ threads = [async |-> 0, synch |-> 0]
         /\ opened = NoneOpened
         /\ made = 0
         /\ retries = 0
         /\ server = CHOOSE v \in Versions : TRUE  \* not looked at before StartDB

\* The checks of main, StartDB and AddDatabase that come before the pool.
Refused == \/ ~returned.ok
           \/ GetText("LoginDatabaseInfo", <<>>) = <<>>
           \/ GetOption("WorkerThreads", 0, 255, 1) \notin 1..32

\* LoadAppConfigs has returned: StartDB up to SetConnectionInfo.
StartDB ==
    /\ phase = "config" /\ step = Idle
    /\ returned.call = "LoadAppConfigs"
    /\ IF Refused THEN phase' = "exit" /\ UNCHANGED <<info, threads>>
       ELSE /\ phase' = "opening"
            /\ info' = ConnectionInfo(GetText("LoginDatabaseInfo", <<>>))
            /\ threads' = [async |-> GetOption("WorkerThreads", 0, 255, 1),
                           synch |-> GetOption("SynchThreads", 0, 255, 1)]
    /\ server' \in Versions
    /\ UNCHANGED <<cvars, opened, made, retries>>

Connections == threads.async + threads.synch

\* A plausible bug of Open: the port is read as a byte.
TargetByte == IF info.host = <<".">> THEN <<"socket", info.port_or_socket>>
              ELSE LET port == FromString(info.port_or_socket, 0, 255)
                   IN  IF port = <<>> THEN <<>> ELSE <<"port", port>>

\* What Open asks the library for, or <<>> when it dereferences an empty Optional.
Target == IF info.host = <<".">> THEN <<"socket", info.port_or_socket>>
          ELSE LET port == FromString(info.port_or_socket, 0, UInt32Max)
               IN  IF port = <<>> THEN <<>> ELSE <<"port", port>>

\* Open writes "localhost" over the host "." of the info that all connections
\* share, before it knows whether it can connect.
Localised == IF info.host = <<".">> THEN [info EXCEPT !.host = <<"localhost">>] ELSE info

\* Open makes the asynchronous connections first.
Kind == IF made < threads.async THEN "async" ELSE "synch"

Making == phase = "opening" /\ made < Connections /\ made < MaxConns

\* One connection is opened, and the version of its server is looked at.
Open ==
    /\ Making
    /\ IF Target = <<>>
       THEN phase' = "undefined" /\ UNCHANGED <<opened, made>>
       ELSE IF IncompatibleVersion(server)
       THEN phase' = "incompatible" /\ UNCHANGED <<opened, made>>
       ELSE /\ phase' = phase
            /\ opened' = [opened EXCEPT ![Kind] = Append(@, Target)]
            /\ made' = made + 1
    /\ info' = Localised
    /\ UNCHANGED <<cvars, threads, retries, server>>

\* A plausible bug of OpenConnections: it leaves the connections it has made.
ClearedNot == opened

\* OpenConnections clears the connections of its type when one of them fails;
\* those of the other type stay.
Cleared == [opened EXCEPT ![Kind] = <<>>]

Attempts == GetOption("Database.Reconnect.Attempts", 0, 255, 20)

\* A connection cannot be made.  If the error is CR_CONNECTION_ERROR, which the
\* library decides, and attempts are left, the loader opens the pool again, with
\* the info as it is now; if not, startup ends.
OpenFails ==
    /\ Making
    /\ Target # <<>>
    /\ opened' = Cleared
    /\ info' = Localised
    /\ \/ /\ retries < Attempts /\ retries < MaxRetries
          /\ retries' = retries + 1
          /\ made' = 0
          /\ phase' = phase
       \/ phase' = "exit" /\ UNCHANGED <<retries, made>>
    /\ UNCHANGED <<cvars, threads, server>>

\* The statements cannot be prepared: PrepareStatements closes the pool.
PrepareFails ==
    /\ phase = "opening" /\ made = Connections
    /\ phase' = "exit"
    /\ opened' = NoneOpened
    /\ UNCHANGED <<cvars, info, threads, made, retries, server>>

PortExists == GetOption("ServerPort", Int32Min, Int32Max, 1234) \in Ports

\* All connections are open; main checks the port and starts the service.
CheckPort ==
    /\ phase = "opening" /\ made = Connections
    /\ phase' = IF PortExists THEN "serving" ELSE "exit"
    /\ UNCHANGED <<cvars, info, threads, opened, made, retries, server>>

\* A challenge arrives: GetFreeConnection takes ++i % num_cons.
Challenge ==
    /\ phase = "serving"
    /\ phase' = IF opened.synch = <<>> THEN "undefined" ELSE "served"
    /\ UNCHANGED <<cvars, info, threads, opened, made, retries, server>>

MNext == StartDB \/ Open \/ OpenFails \/ PrepareFails \/ CheckPort \/ Challenge

Init == CInit /\ MInit

\* main has ended, or serves until it is told to end.
Rest == phase \notin {"config", "opening", "serving"} /\ UNCHANGED vars

Next == \/ phase = "config" /\ CNext /\ UNCHANGED mvars
        \/ MNext
        \/ Rest

Spec == Init /\ [][Next]_vars

-----------------------------------------------------------------------------
(* Properties.                                                             *)

\* A line up to its comment, which begins with a '#' outside of quotes.
Meant(line) ==
    LET Quoted(i) == Cardinality({j \in 1..(i - 1) : line[j] = "quote"}) % 2 = 1
        hash == {i \in DOMAIN line : line[i] = "#" /\ ~Quoted(i)}
    IN  SubSeq(line, 1, Min({Len(line) + 1} \cup hash) - 1)

\* The right-hand side, without its quotes, of the line that gives option k
\* its value: the first for k of the last loaded file that mentions k.
Written(k) ==
    LET n == CHOOSE n \in DOMAIN loaded :
                 Mentions(n, k) /\ \A m \in (n + 1)..Len(loaded) : ~Mentions(m, k)
        i == CHOOSE i \in DOMAIN loaded[n].text : Says(n, i, k)
    IN  Without(After(Meant(loaded[n].text[i]), "="), "quote")

WrittenInfo == Written(<<"LoginDatabaseInfo">>)
WrittenHost == Before(WrittenInfo, ";")
WrittenPort == Before(After(WrittenInfo, ";"), ";")
IsNumber(text, lo, hi) == /\ Len(text) = 1 /\ text[1] \in DOMAIN Numerals
                          /\ Numerals[text[1]] \in lo..hi

\* The code takes a '#' inside of quotes for the start of a comment, too.
Misread == "#" \in ToSet(WrittenInfo)

\* An info as the documentation shows it: five fields or six, a number for a
\* port, and no '#'.
WellWritten == /\ ~Misread
               /\ Cardinality({i \in DOMAIN WrittenInfo : WrittenInfo[i] = ";"}) \in {4, 5}
               /\ WrittenHost = <<".">> \/ IsNumber(WrittenPort, 0, UInt32Max)

\* Open was called for an earlier connection, which it has made or not.
NotTheFirst == made > 0 \/ retries > 0

\* What it takes to reach undefined behaviour, from what is written in the
\* files: a malformed info; a socket and a second call of Open, for another
\* connection or because the first one failed and the loader tries again (Open
\* has replaced the host that the others look at); or a pool that is complete
\* without a synchronous connection.
UndefinedNeedsCause ==
    phase = "undefined" => \/ ~WellWritten
                           \/ WrittenHost = <<".">> /\ NotTheFirst
                           \/ made = Connections /\ threads.synch = 0

\* A pool has the threads that are written, or one.
ThreadsAsWritten ==
    \A k \in {"WorkerThreads", "SynchThreads"} :
        LET n == IF k = "WorkerThreads" THEN threads.async ELSE threads.synch IN
        n = 1 \/ (<<k>> \in DOMAIN options /\ Numerals[Written(<<k>>)[1]] = n)

\* The target of a connection that the written port is used for.
AtPort == <<"port", <<Numerals[WrittenPort[1]]>> >>

\* A server that serves asks for the place that is written in its files, whatever
\* layers and quotes it was written with, and listens on a port that exists; only
\* the first call of Open goes to a socket, the others, if the socket has a number
\* for a name, to that port, so that after a retry no connection at all may be at
\* the socket.  It has the synchronous connections of its threads, and the
\* asynchronous ones once for every call of the pool's Open that got past them: a
\* synchronous connection that fails leaves them in the pool.  The threads are
\* those that are written: a number that does not fit its uint8 (or the int32 of
\* the port) is not an error, and the default is taken, never a number that was
\* not written and never a remainder.
ServesAsWritten ==
    phase \in {"serving", "served"} =>
        /\ WellWritten \/ Misread
        /\ threads.async \in 1..32 /\ ThreadsAsWritten
        /\ Len(opened.synch) = threads.synch
        /\ \E n \in 1..(retries + 1) : Len(opened.async) = n * threads.async
        /\ \A i \in DOMAIN opened.synch : opened.synch[i] = AtPort
        /\ \A i \in DOMAIN opened.async :
              \/ opened.async[i] = <<"socket", WrittenPort>> /\ WrittenHost = <<".">> /\ i = 1
              \/ opened.async[i] = AtPort /\ (WrittenHost = <<".">> /\ i = 1 => retries > 0)
        /\ <<"ServerPort">> \in DOMAIN options
              /\ IsNumber(Written(<<"ServerPort">>), Int32Min, Int32Max) =>
              Numerals[Written(<<"ServerPort">>)[1]] \in Ports

Newer(v, w) == \/ v.major > w.major
               \/ v.major = w.major /\ v.minor > w.minor
               \/ v.major = w.major /\ v.minor = w.minor /\ v.patch >= w.patch
Supported(v) == Newer(v, MinVersion(v))

\* Comparing single characters refuses no supported server, of MySQL or MariaDB,
\* and a MySQL server is accepted only if it is supported.
VersionGate == /\ phase = "incompatible" => ~Supported(server)
               /\ ~server.mariadb /\ opened.async # <<>> => Supported(server)

\* What the message of OpenConnections says of every server: that no connection
\* is kept to a MySQL below 5.7 or a MariaDB below 10.5.
OnlySupported == opened.async # <<>> => Supported(server)

=============================================================================
